-------------------------- MODULE RaftStore_proofs --------------------------
(***************************************************************************)
(* TLAPS proofs about the two halves of a group's Raft store, the state    *)
(* machine that committed commands are applied to (TimelineGroup) and the  *)
(* files of one replica (ReplicaStore): they keep their safety properties  *)
(* for every set of requests, writers, payloads, buckets and terms and for *)
(* every bound.                                                            *)
(***************************************************************************)
EXTENDS TimelineGroup, ReplicaStore, WellFoundedInduction, TLAPS

\* A set of naturals that is not empty has a least member.
LEMMA Least ==
    ASSUME NEW S, S \subseteq Nat, S # {}
    PROVE  \E m \in S : \A n \in S : m =< n
<1>1. \E m \in S : \A n \in S : <<n, m>> \notin OpToRel(<, Nat)
  BY NatLessThanWellFounded, WFMin
<1>2. ASSUME NEW m \in S, NEW n \in S, <<n, m>> \notin OpToRel(<, Nat)
      PROVE  m =< n
  BY <1>2 DEF OpToRel
<1> QED BY <1>1, <1>2

(***************************************************************************)
(* The state machine (TimelineGroup).                                      *)
(***************************************************************************)

\* The applied index is at or beyond every index the state refers to, and an
\* index has one header.
Indices ==
    /\ \A e \in committed : 0 < e.index /\ e.index =< last_applied
    /\ \A e, f \in committed : e.index = f.index => e = f
    /\ \A r \in Requests : retries[r].index =< last_applied

\* The watermarks are ordered, a closed timeline has no WAL and an active
\* writer an open timeline.
Window ==
    /\ timeline_start =< archive_lsn
    /\ archive_lsn =< wal_end
    /\ ~wal_initialized => wal_end = 0
    /\ writer_active => wal_initialized

\* The retained headers end at or below their watermark.
Tails ==
    \A e \in committed :
        /\ e.header.kind = "Wal" => e.header.lo =< e.header.hi /\ e.header.hi =< wal_end
        /\ e.header.kind = "ArchiveCheckpoint" => e.header.hi =< archive_lsn

\* No applied identity is ahead of the group's epoch, and a release of the
\* current epoch has closed it.
Epochs ==
    \A r \in Requests :
        /\ retries[r].epoch =< writer_epoch
        /\ Applied(r, "ReleaseWriter") /\ retries[r].epoch = writer_epoch => ~writer_active

IInv ==
    /\ TypeOK
    /\ Indices
    /\ Window
    /\ Tails
    /\ Epochs
    /\ NoByteLost
    /\ LogOrderIsLsnOrder
    /\ EpochFencing
    /\ ReleasedEpochStaysClosed

-----------------------------------------------------------------------------
\* The initial state, an unopened timeline, satisfies the invariant.
LEMMA InitIInv == Init => IInv
<1>1. Init => TypeOK
  <2>1. 0 \in Index /\ 0 \in Epoch /\ 0 \in Lsn
    BY BoundsAssumption DEF Index, Epoch, Lsn
  <2>2. EmptyHash \in Hash
    BY <2>1 DEF EmptyHash, Hash, Content
  <2>3. NoIdentity \in Identity
    BY <2>1, <2>2 DEF NoIdentity, Identity, NoEpoch
  <2> QED BY <2>1, <2>3 DEF Init, TypeOK, Outcomes
<1>2. Init => Indices /\ Window /\ Tails /\ Epochs
  BY BoundsAssumption DEF Init, Indices, Window, Tails, Epochs, Applied, NoIdentity, NoEpoch
<1>3. Init => NoByteLost /\ LogOrderIsLsnOrder
  BY BoundsAssumption DEF Init, NoByteLost, LogOrderIsLsnOrder, Lsn
<1>4. Init => EpochFencing /\ ReleasedEpochStaysClosed
  BY DEF Init, EpochFencing, ReleasedEpochStaysClosed, Applied, NoIdentity
<1> QED BY <1>1, <1>2, <1>3, <1>4 DEF IInv

\* A refused command, a duplicate included, keeps the invariant.
LEMMA RefuseIInv ==
    ASSUME IInv, NEW why \in Outcomes, Refuse(why)
    PROVE  IInv'
<1> USE BoundsAssumption DEF Refuse, Step
<1>1. TypeOK'
  BY DEF IInv, TypeOK, Index
<1>2. Indices'
  BY DEF IInv, TypeOK, Index, Indices, Entry, Identity
<1>3. Window' /\ Tails' /\ Epochs'
  BY DEF IInv, Window, Tails, Epochs, Applied
<1>4. NoByteLost' /\ LogOrderIsLsnOrder'
  BY DEF IInv, NoByteLost, LogOrderIsLsnOrder, Covers
<1>5. EpochFencing' /\ ReleasedEpochStaysClosed'
  BY DEF IInv, EpochFencing, ReleasedEpochStaysClosed, Applied
<1> QED BY <1>1, <1>2, <1>3, <1>4, <1>5 DEF IInv

\* The headers the group builds are headers.
LEMMA HeaderType ==
    ASSUME NEW r \in Requests, NEW kind \in Kinds, NEW c \in Content, NEW a \in Lsn,
           NEW b \in Lsn, NEW e \in Epoch, NEW lo \in Lsn, NEW hi \in Lsn,
           NEW bucket \in Buckets \cup {NoBucket}
    PROVE  HeaderOf(r, kind, <<c, a, b>>, e, lo, hi, bucket) \in Header
BY DEF HeaderOf, Header, Hash

\* What accepting a header does to the parts of the state every kind shares.
LEMMA AcceptTypes ==
    ASSUME IInv, NEW h \in Header, NEW reply \in Lsn, Accept(h, reply)
    PROVE  /\ last_applied' \in Index
           /\ committed' \in SUBSET Entry
           /\ retries' \in [Requests -> Identity]
           /\ outcome' \in Outcomes
           /\ Indices'
<1> USE BoundsAssumption
<1>1. last_applied \in Nat /\ last_applied + 1 \in Index /\ last_applied' = last_applied + 1
  BY DEF IInv, TypeOK, Index, Accept, Step
<1>2. [index |-> last_applied + 1, header |-> h] \in Entry
  BY <1>1 DEF Entry
<1>3. [index |-> last_applied + 1, kind |-> h.kind, hash |-> h.hash, epoch |-> h.epoch,
       wal_end |-> reply] \in Identity
  BY <1>1 DEF Identity, Header
<1>4. committed' \in SUBSET Entry /\ retries' \in [Requests -> Identity]
  BY <1>2, <1>3 DEF IInv, TypeOK, Accept
<1>5. Indices'
  <2>1. \A e \in committed' : 0 < e.index /\ e.index =< last_applied'
    BY <1>1 DEF IInv, TypeOK, Indices, Accept, Entry, Index
  <2>2. \A r \in Requests : retries'[r].index =< last_applied'
    BY <1>1 DEF IInv, TypeOK, Indices, Accept, Identity, Index
  <2>3. \A e, f \in committed' : e.index = f.index => e = f
    <3>1. \A e \in committed : e.index < last_applied + 1
      BY <1>1 DEF IInv, TypeOK, Indices, Entry, Index
    <3> QED BY <1>1, <3>1 DEF IInv, TypeOK, Indices, Accept, Entry, Index
  <2> QED BY <2>1, <2>2, <2>3 DEF Indices
<1> QED BY <1>1, <1>4, <1>5 DEF Accept, Outcomes

\* The retained headers and applied identities before and after accepting h.
Accepted(h) ==
    /\ \A e \in committed' : e \in committed \/ (e.header = h /\ e.index = last_applied + 1)
    /\ \A e \in committed : e \in committed' /\ e.index < last_applied + 1
    /\ [index |-> last_applied + 1, header |-> h] \in committed'
    /\ \A r \in Requests : r # h.request => retries'[r] = retries[r]
    /\ \A r \in Requests : retries[r].index < last_applied + 1
    /\ h.request \in Requests
    /\ retries'[h.request].kind = h.kind
    /\ retries'[h.request].epoch = h.epoch
    /\ retries'[h.request].index = last_applied + 1

\* What accepting a header means for the invariant's index bounds and for the
\* identities and headers that were there before.
LEMMA AcceptFacts ==
    ASSUME IInv, NEW h \in Header, NEW reply \in Lsn, Accept(h, reply)
    PROVE  Accepted(h)
<1>1. last_applied \in Nat
  BY BoundsAssumption DEF IInv, TypeOK, Index
<1>2. \A e \in committed : e.index < last_applied + 1
  BY <1>1, BoundsAssumption DEF IInv, TypeOK, Indices, Entry, Index
<1>3. \A r \in Requests : retries[r].index < last_applied + 1
  BY <1>1, BoundsAssumption DEF IInv, TypeOK, Indices, Identity, Index
<1>4. h.request \in Requests
  BY DEF Header
<1> QED BY <1>2, <1>3, <1>4 DEF Accept, Accepted, IInv, TypeOK

-----------------------------------------------------------------------------
\* The numbers the invariant speaks about are natural numbers.
Numeric ==
    /\ writer_epoch \in Nat /\ last_applied \in Nat
    /\ wal_end \in Nat /\ archive_lsn \in Nat /\ timeline_start \in Nat
    /\ \A r \in Requests : retries[r].epoch \in Nat /\ retries[r].index \in Nat
    /\ \A e \in committed : e.index \in Nat /\ e.header.lo \in Nat /\ e.header.hi \in Nat

\* The invariant makes every numeric variable a natural number.
LEMMA NumericTypes == IInv => Numeric
BY BoundsAssumption DEF Numeric, IInv, TypeOK, Epoch, Index, Lsn, Identity, Entry, Header

\* The epoch part of the invariant, by what the accepted command does to the
\* writer.  First the commands that leave the writer alone.
LEMMA NeutralEpochs ==
    ASSUME IInv, NEW h \in Header, NEW reply \in Lsn, Accept(h, reply),
           h.kind \notin {"WriterLease", "Wal", "ReleaseWriter"}, h.epoch = NoEpoch,
           UNCHANGED <<writer_epoch, writer_active>>
    PROVE  Epochs' /\ EpochFencing' /\ ReleasedEpochStaysClosed'
<1>a. Accepted(h) /\ Numeric
  BY AcceptFacts, NumericTypes
<1>1. Epochs'
  BY <1>a DEF IInv, Epochs, Applied, NoEpoch, Accepted, Numeric
<1>2. EpochFencing'
  BY <1>a DEF IInv, EpochFencing, Applied, Accepted, Numeric
<1>3. ReleasedEpochStaysClosed'
  BY <1>a DEF IInv, ReleasedEpochStaysClosed, Applied, Accepted, Numeric
<1> QED BY <1>1, <1>2, <1>3

\* An append or a release is applied under the current, active epoch.
LEMMA WriterEpochs ==
    ASSUME IInv, NEW h \in Header, NEW reply \in Lsn, Accept(h, reply), ~Known(h),
           writer_active, h.epoch = writer_epoch, writer_epoch' = writer_epoch,
           \/ h.kind = "Wal" /\ writer_active' = writer_active
           \/ h.kind = "ReleaseWriter" /\ writer_active' = FALSE
    PROVE  Epochs' /\ EpochFencing' /\ ReleasedEpochStaysClosed'
<1>a. Accepted(h) /\ Numeric
  BY AcceptFacts, NumericTypes
<1>b. Epochs /\ EpochFencing /\ ReleasedEpochStaysClosed
  BY DEF IInv
<1>1. \A r \in Requests : retries'[r].epoch =< writer_epoch'
  BY <1>a, <1>b DEF Epochs, Accepted, Numeric
<1>2. ASSUME NEW r \in Requests, Applied(r, "ReleaseWriter")', retries'[r].epoch = writer_epoch'
      PROVE  ~writer_active'
  <2>1. CASE r = h.request
    BY <2>1, <1>2, <1>a DEF Applied, Accepted
  <2>2. CASE r # h.request
    BY <2>2, <1>2, <1>a, <1>b DEF Applied, Accepted, Epochs
  <2> QED BY <2>1, <2>2
<1>3. EpochFencing'
  <2>1. h.kind # "WriterLease"
    OBVIOUS
  <2>2. ASSUME NEW r \in Requests, NEW s \in Requests, Applied(r, "WriterLease")', r # s
        PROVE  /\ Applied(s, "WriterLease")' => retries'[s].epoch # retries'[r].epoch
               /\ Applied(s, "Wal")' \/ Applied(s, "ReleaseWriter")' =>
                    (retries'[s].index > retries'[r].index <=> retries'[s].epoch >= retries'[r].epoch)
    <3>1. r # h.request /\ retries'[r] = retries[r]
      BY <2>1, <2>2, <1>a DEF Applied, Accepted
    <3>2. CASE s = h.request
      BY <3>1, <3>2, <2>1, <1>a, <1>b DEF Applied, Accepted, Numeric, Epochs
    <3>3. CASE s # h.request
      BY <3>1, <3>3, <2>2, <1>a, <1>b DEF Applied, Accepted, EpochFencing
    <3> QED BY <3>2, <3>3
  <2> QED BY <2>2 DEF EpochFencing
<1>4. ReleasedEpochStaysClosed'
  BY <1>a, <1>b DEF ReleasedEpochStaysClosed, Epochs, Applied, Accepted, Numeric
<1> QED BY <1>1, <1>2, <1>3, <1>4 DEF Epochs

\* A lease is applied under the epoch after the current one.
LEMMA LeaseEpochs ==
    ASSUME IInv, NEW h \in Header, NEW reply \in Lsn, Accept(h, reply), ~Known(h),
           h.kind = "WriterLease", h.epoch = writer_epoch + 1, writer_epoch' = h.epoch
    PROVE  Epochs' /\ EpochFencing' /\ ReleasedEpochStaysClosed'
<1>a. Accepted(h) /\ Numeric
  BY AcceptFacts, NumericTypes
<1>1. Epochs'
  BY <1>a DEF IInv, Epochs, Applied, Accepted, Numeric
<1>2. EpochFencing'
  BY <1>a DEF IInv, EpochFencing, Epochs, Applied, Accepted, Numeric
<1>3. ReleasedEpochStaysClosed'
  BY <1>a DEF IInv, ReleasedEpochStaysClosed, Epochs, Applied, Accepted, Numeric
<1> QED BY <1>1, <1>2, <1>3

-----------------------------------------------------------------------------
\* The log part of the invariant.  A command that is neither an append nor an
\* archive checkpoint keeps it when the watermarks do not move, or when they
\* move together to the opening position of a timeline that has no WAL.
LEMMA NeutralLog ==
    ASSUME IInv, NEW h \in Header, NEW reply \in Lsn, Accept(h, reply),
           h.kind \notin {"Wal", "ArchiveCheckpoint"},
           \/ UNCHANGED <<wal_end, archive_lsn, timeline_start>>
           \/ /\ wal_end = 0
              /\ wal_end' \in Lsn /\ archive_lsn' = wal_end' /\ timeline_start' = wal_end'
    PROVE  Tails' /\ NoByteLost' /\ LogOrderIsLsnOrder'
<1>a. Accepted(h) /\ Numeric
  BY AcceptFacts, NumericTypes
<1>b. Tails /\ NoByteLost /\ LogOrderIsLsnOrder /\ archive_lsn =< wal_end
  BY DEF IInv, Window
<1>c. wal_end' \in Nat /\ wal_end' >= wal_end /\ archive_lsn' \in Nat /\ archive_lsn' >= archive_lsn
  BY <1>a, <1>b, BoundsAssumption DEF Numeric, Lsn
<1>1. Tails'
  BY <1>a, <1>b, <1>c DEF Tails, Accepted, Numeric
<1>2. NoByteLost'
  <2>1. CASE UNCHANGED <<wal_end, archive_lsn, timeline_start>>
    BY <2>1, <1>a, <1>b DEF NoByteLost, Covers, Accepted
  <2>2. CASE /\ wal_end' \in Lsn /\ archive_lsn' = wal_end' /\ timeline_start' = wal_end'
    BY <2>2, BoundsAssumption DEF NoByteLost, Lsn
  <2> QED BY <2>1, <2>2
<1>3. LogOrderIsLsnOrder'
  BY <1>a, <1>b DEF LogOrderIsLsnOrder, Accepted
<1> QED BY <1>1, <1>2, <1>3

\* An append extends the retained log at its tail.
LEMMA AppendLog ==
    ASSUME IInv, NEW h \in Header, NEW reply \in Lsn, Accept(h, reply),
           h.kind = "Wal", h.lo = wal_end, h.lo =< h.hi, wal_end' = h.hi,
           UNCHANGED <<archive_lsn, timeline_start>>
    PROVE  Tails' /\ NoByteLost' /\ LogOrderIsLsnOrder'
<1>a. Accepted(h) /\ Numeric /\ h.lo \in Nat /\ h.hi \in Nat
  BY AcceptFacts, NumericTypes, BoundsAssumption DEF Header, Lsn
<1>b. Tails /\ NoByteLost /\ LogOrderIsLsnOrder
  BY DEF IInv
<1>1. Tails'
  BY <1>a, <1>b DEF Tails, Accepted, Numeric
<1>2. NoByteLost'
  <2>1. ASSUME NEW x \in Lsn, archive_lsn' =< x, x < wal_end'
        PROVE  \E e \in committed' : Covers(e, "Wal", x)
    <3>1. x \in Nat
      BY BoundsAssumption DEF Lsn
    <3>2. CASE x < wal_end
      BY <2>1, <3>2, <1>a, <1>b DEF NoByteLost, Covers, Accepted
    <3>3. CASE ~(x < wal_end)
      <4>1. Covers([index |-> last_applied + 1, header |-> h], "Wal", x)
        BY <2>1, <3>1, <3>3, <1>a DEF Covers, Numeric
      <4> QED BY <4>1, <1>a DEF Accepted
    <3> QED BY <3>2, <3>3
  <2>2. \A x \in Lsn : timeline_start' =< x /\ x < archive_lsn' =>
            \E e \in committed' : Covers(e, "ArchiveCheckpoint", x)
    BY <1>a, <1>b DEF NoByteLost, Covers, Accepted
  <2> QED BY <2>1, <2>2 DEF NoByteLost, Covers
<1>3. LogOrderIsLsnOrder'
  <2>1. ASSUME NEW e \in committed', NEW f \in committed', e.header.kind = f.header.kind,
               e.header.kind \in {"Wal", "ArchiveCheckpoint"}, e.index < f.index
        PROVE  e.header.hi =< f.header.lo
    <3>1. e \in committed
      BY <2>1, <1>a DEF Accepted, Numeric
    <3>2. CASE f \in committed
      BY <2>1, <3>1, <3>2, <1>b DEF LogOrderIsLsnOrder
    <3>3. CASE f.header = h
      BY <2>1, <3>1, <3>3, <1>a, <1>b DEF Tails, Numeric
    <3> QED BY <3>2, <3>3, <1>a DEF Accepted
  <2> QED BY <2>1 DEF LogOrderIsLsnOrder
<1> QED BY <1>1, <1>2, <1>3

\* A checkpoint extends the archived prefix at the archive watermark.
LEMMA ArchiveLog ==
    ASSUME IInv, NEW h \in Header, NEW reply \in Lsn, Accept(h, reply),
           h.kind = "ArchiveCheckpoint", h.lo = archive_lsn, h.lo < h.hi, h.hi =< wal_end,
           archive_lsn' = h.hi, UNCHANGED <<wal_end, timeline_start>>
    PROVE  Tails' /\ NoByteLost' /\ LogOrderIsLsnOrder'
<1>a. Accepted(h) /\ Numeric /\ h.lo \in Nat /\ h.hi \in Nat
  BY AcceptFacts, NumericTypes, BoundsAssumption DEF Header, Lsn
<1>b. Tails /\ NoByteLost /\ LogOrderIsLsnOrder
  BY DEF IInv
<1>1. Tails'
  BY <1>a, <1>b DEF Tails, Accepted, Numeric
<1>2. NoByteLost'
  <2>1. \A x \in Lsn : archive_lsn' =< x /\ x < wal_end' =>
            \E e \in committed' : Covers(e, "Wal", x)
    <3>1. \A x \in Lsn : archive_lsn' =< x => archive_lsn =< x
      BY <1>a, BoundsAssumption DEF Numeric, Lsn
    <3> QED BY <3>1, <1>a, <1>b DEF NoByteLost, Covers, Accepted
  <2>2. ASSUME NEW x \in Lsn, timeline_start' =< x, x < archive_lsn'
        PROVE  \E e \in committed' : Covers(e, "ArchiveCheckpoint", x)
    <3>1. x \in Nat
      BY BoundsAssumption DEF Lsn
    <3>2. CASE x < archive_lsn
      BY <2>2, <3>2, <1>a, <1>b DEF NoByteLost, Covers, Accepted
    <3>3. CASE ~(x < archive_lsn)
      <4>1. Covers([index |-> last_applied + 1, header |-> h], "ArchiveCheckpoint", x)
        BY <2>2, <3>1, <3>3, <1>a DEF Covers, Numeric
      <4> QED BY <4>1, <1>a DEF Accepted
    <3> QED BY <3>2, <3>3
  <2> QED BY <2>1, <2>2 DEF NoByteLost, Covers
<1>3. LogOrderIsLsnOrder'
  <2>1. ASSUME NEW e \in committed', NEW f \in committed', e.header.kind = f.header.kind,
               e.header.kind \in {"Wal", "ArchiveCheckpoint"}, e.index < f.index
        PROVE  e.header.hi =< f.header.lo
    <3>1. e \in committed
      BY <2>1, <1>a DEF Accepted, Numeric
    <3>2. CASE f \in committed
      BY <2>1, <3>1, <3>2, <1>b DEF LogOrderIsLsnOrder
    <3>3. CASE f.header = h
      BY <2>1, <3>1, <3>3, <1>a, <1>b DEF Tails, Numeric
    <3> QED BY <3>2, <3>3, <1>a DEF Accepted
  <2> QED BY <2>1 DEF LogOrderIsLsnOrder
<1> QED BY <1>1, <1>2, <1>3

-----------------------------------------------------------------------------
\* One lemma per command: whatever header of that kind the log delivers next,
\* the invariant survives.
LEMMA TimelineOpenIInv ==
    ASSUME IInv, NEW h \in Header, h.kind = "TimelineOpen", h.epoch = NoEpoch, TimelineOpen(h)
    PROVE  IInv'
<1>a. h.lo \in Lsn /\ wal_end \in Lsn /\ TypeOK /\ Window
  BY DEF IInv, TypeOK, Header
<1>1. CASE \E why \in Outcomes : Refuse(why)
  BY <1>1, RefuseIInv
<1>2. CASE /\ wal_initialized /\ Accept(h, wal_end)
           /\ UNCHANGED <<writer_epoch, writer_active, wal_archive_bucket,
                          wal_initialized, wal_end, archive_lsn, timeline_start>>
  <2>1. TypeOK' /\ Indices' /\ Window'
    BY <1>2, <1>a, AcceptTypes DEF TypeOK, Window
  <2>2. Epochs' /\ EpochFencing' /\ ReleasedEpochStaysClosed'
    BY <1>2, <1>a, NeutralEpochs
  <2>3. Tails' /\ NoByteLost' /\ LogOrderIsLsnOrder'
    BY <1>2, <1>a, NeutralLog
  <2> QED BY <2>1, <2>2, <2>3 DEF IInv
<1>3. CASE /\ ~wal_initialized /\ Accept(h, h.lo)
           /\ wal_initialized' = TRUE /\ wal_end' = h.lo
           /\ archive_lsn' = h.lo /\ timeline_start' = h.lo
           /\ UNCHANGED <<writer_epoch, writer_active, wal_archive_bucket>>
  <2>1. TypeOK' /\ Indices'
    BY <1>3, <1>a, AcceptTypes DEF TypeOK
  <2>2. Window'
    BY <1>3, <1>a, BoundsAssumption DEF Window, Lsn
  <2>3. Epochs' /\ EpochFencing' /\ ReleasedEpochStaysClosed'
    BY <1>3, <1>a, NeutralEpochs
  <2>4. wal_end = 0
    BY <1>3, <1>a DEF Window
  <2>5. Tails' /\ NoByteLost' /\ LogOrderIsLsnOrder'
    BY <1>3, <1>a, <2>4, NeutralLog
  <2> QED BY <2>1, <2>2, <2>3, <2>5 DEF IInv
<1> QED BY <1>1, <1>2, <1>3 DEF TimelineOpen, AnswerRetry, Fence, Outcomes

\* Binding an archive bucket (raft_store.rs apply) keeps the invariant.
LEMMA WalArchiveBindingIInv ==
    ASSUME IInv, NEW h \in Header, h.kind = "WalArchiveBinding", h.epoch = NoEpoch,
           WalArchiveBinding(h)
    PROVE  IInv'
<1>a. 0 \in Lsn /\ TypeOK /\ Window
  BY BoundsAssumption DEF IInv, Lsn
<1>1. CASE \E why \in Outcomes : Refuse(why)
  BY <1>1, RefuseIInv
<1>2. CASE /\ Accept(h, 0) /\ wal_archive_bucket' = h.bucket
           /\ UNCHANGED <<writer_epoch, writer_active, wal_initialized, wal_end,
                          archive_lsn, timeline_start>>
  <2>1. TypeOK' /\ Indices' /\ Window'
    BY <1>2, <1>a, AcceptTypes DEF TypeOK, Window, Header
  <2>2. Epochs' /\ EpochFencing' /\ ReleasedEpochStaysClosed'
    BY <1>2, <1>a, NeutralEpochs
  <2>3. Tails' /\ NoByteLost' /\ LogOrderIsLsnOrder'
    BY <1>2, <1>a, NeutralLog
  <2> QED BY <2>1, <2>2, <2>3 DEF IInv
<1> QED BY <1>1, <1>2 DEF WalArchiveBinding, AnswerRetry, Outcomes

\* A writer lease, granted, fenced or answered as a retry, keeps the invariant.
LEMMA WriterLeaseIInv ==
    ASSUME IInv, NEW h \in Header, h.kind = "WriterLease", WriterLease(h)
    PROVE  IInv'
<1>a. wal_end \in Lsn /\ TypeOK /\ Window /\ h.epoch \in Epoch
  BY DEF IInv, TypeOK, Header
<1>1. CASE \E why \in Outcomes : Refuse(why)
  BY <1>1, RefuseIInv
<1>2. CASE /\ Admitted(h) /\ Accept(h, wal_end)
           /\ writer_epoch' = h.epoch /\ writer_active' = TRUE
           /\ UNCHANGED <<wal_archive_bucket, wal_initialized, wal_end,
                          archive_lsn, timeline_start>>
  <2>1. wal_initialized /\ h.epoch = writer_epoch + 1 /\ ~Known(h)
    BY <1>2 DEF Admitted, EpochValid
  <2>2. TypeOK' /\ Indices'
    BY <1>2, <1>a, AcceptTypes DEF TypeOK
  <2>3. Window'
    BY <1>2, <1>a, <2>1 DEF Window
  <2>4. Epochs' /\ EpochFencing' /\ ReleasedEpochStaysClosed'
    BY <1>2, <1>a, <2>1, LeaseEpochs
  <2>5. Tails' /\ NoByteLost' /\ LogOrderIsLsnOrder'
    BY <1>2, <1>a, NeutralLog
  <2> QED BY <2>2, <2>3, <2>4, <2>5 DEF IInv
<1> QED BY <1>1, <1>2 DEF WriterLease, AnswerRetry, Fence, Outcomes

\* An append, applied, fenced or refused as a gap, keeps the invariant.
LEMMA WalIInv ==
    ASSUME IInv, NEW h \in Header, h.kind = "Wal", h.lo =< h.hi, Wal(h)
    PROVE  IInv'
<1>a. h.hi \in Lsn /\ TypeOK /\ Window
  BY DEF IInv, Header
<1>1. CASE \E why \in Outcomes : Refuse(why)
  BY <1>1, RefuseIInv
<1>2. CASE /\ Admitted(h) /\ h.lo = wal_end /\ Accept(h, h.hi) /\ wal_end' = h.hi
           /\ UNCHANGED <<writer_epoch, writer_active, wal_archive_bucket,
                          wal_initialized, archive_lsn, timeline_start>>
  <2>1. writer_active /\ h.epoch = writer_epoch /\ ~Known(h)
    BY <1>2 DEF Admitted, EpochValid
  <2>2. TypeOK' /\ Indices'
    BY <1>2, <1>a, AcceptTypes DEF TypeOK
  <2>3. Window'
    <3>1. archive_lsn \in Nat /\ wal_end \in Nat /\ h.hi \in Nat
      BY <1>a, BoundsAssumption DEF TypeOK, Lsn
    <3>2. archive_lsn' =< wal_end'
      BY <1>2, <1>a, <3>1 DEF Window
    <3> QED BY <1>2, <1>a, <2>1, <3>2 DEF Window
  <2>4. Epochs' /\ EpochFencing' /\ ReleasedEpochStaysClosed'
    BY <1>2, <1>a, <2>1, WriterEpochs
  <2>5. Tails' /\ NoByteLost' /\ LogOrderIsLsnOrder'
    BY <1>2, <1>a, AppendLog
  <2> QED BY <2>2, <2>3, <2>4, <2>5 DEF IInv
<1> QED BY <1>1, <1>2 DEF Wal, AnswerRetry, Fence, Outcomes

\* Releasing the writer keeps the invariant.
LEMMA ReleaseWriterIInv ==
    ASSUME IInv, NEW h \in Header, h.kind = "ReleaseWriter", ReleaseWriter(h)
    PROVE  IInv'
<1>a. 0 \in Lsn /\ TypeOK /\ Window
  BY BoundsAssumption DEF IInv, Lsn
<1>1. CASE \E why \in Outcomes : Refuse(why)
  BY <1>1, RefuseIInv
<1>2. CASE /\ Admitted(h) /\ Accept(h, 0) /\ writer_active' = FALSE
           /\ UNCHANGED <<writer_epoch, wal_archive_bucket, wal_initialized,
                          wal_end, archive_lsn, timeline_start>>
  <2>1. writer_active /\ h.epoch = writer_epoch /\ ~Known(h)
    BY <1>2 DEF Admitted, EpochValid
  <2>2. TypeOK' /\ Indices' /\ Window'
    BY <1>2, <1>a, AcceptTypes DEF TypeOK, Window
  <2>3. Epochs' /\ EpochFencing' /\ ReleasedEpochStaysClosed'
    BY <1>2, <1>a, <2>1, WriterEpochs
  <2>4. Tails' /\ NoByteLost' /\ LogOrderIsLsnOrder'
    BY <1>2, <1>a, NeutralLog
  <2> QED BY <2>2, <2>3, <2>4 DEF IInv
<1> QED BY <1>1, <1>2 DEF ReleaseWriter, AnswerRetry, Fence, Outcomes

\* An archive checkpoint, applied or refused, keeps the invariant.
LEMMA ArchiveCheckpointIInv ==
    ASSUME IInv, NEW h \in Header, h.kind = "ArchiveCheckpoint", h.epoch = NoEpoch,
           h.lo < h.hi, ArchiveCheckpoint(h)
    PROVE  IInv'
<1>a. 0 \in Lsn /\ h.hi \in Lsn /\ h.lo \in Lsn /\ TypeOK /\ Window
  BY BoundsAssumption DEF IInv, Lsn, Header
<1>1. CASE \E why \in Outcomes : Refuse(why)
  BY <1>1, RefuseIInv
<1>2. CASE /\ h.lo = archive_lsn /\ h.hi =< wal_end /\ Accept(h, 0) /\ archive_lsn' = h.hi
           /\ UNCHANGED <<writer_epoch, writer_active, wal_archive_bucket,
                          wal_initialized, wal_end, timeline_start>>
  <2>1. TypeOK' /\ Indices'
    BY <1>2, <1>a, AcceptTypes DEF TypeOK
  <2>2. Window'
    <3>1. timeline_start \in Nat /\ archive_lsn \in Nat /\ h.hi \in Nat
      BY <1>a, BoundsAssumption DEF TypeOK, Lsn
    <3>2. timeline_start' =< archive_lsn' /\ archive_lsn' =< wal_end'
      BY <1>2, <1>a, <3>1 DEF Window
    <3> QED BY <1>2, <1>a, <3>2 DEF Window
  <2>3. Epochs' /\ EpochFencing' /\ ReleasedEpochStaysClosed'
    BY <1>2, <1>a, NeutralEpochs
  <2>4. Tails' /\ NoByteLost' /\ LogOrderIsLsnOrder'
    BY <1>2, <1>a, ArchiveLog
  <2> QED BY <2>1, <2>2, <2>3, <2>4 DEF IInv
<1> QED BY <1>1, <1>2 DEF ArchiveCheckpoint, AnswerRetry, Outcomes

\* Compaction drops only headers that end at or below the watermark: no LSN at
\* or above it loses its cover.
LEMMA ReleaseWalIInv ==
    ASSUME IInv, NEW through \in Lsn, ReleaseWal(through)
    PROVE  IInv'
<1>a. Numeric /\ through \in Nat /\ through =< archive_lsn
  BY NumericTypes, BoundsAssumption DEF ReleaseWal, Lsn
<1>b. committed' \subseteq committed
  BY DEF ReleaseWal
<1>1. TypeOK'
  BY <1>b, BoundsAssumption DEF IInv, TypeOK, ReleaseWal, Step, Index, Outcomes
<1>2. Indices'
  BY <1>a, <1>b DEF IInv, Indices, ReleaseWal, Step, Numeric
<1>3. Window' /\ Tails' /\ Epochs' /\ LogOrderIsLsnOrder'
  BY <1>b DEF IInv, Window, Tails, Epochs, LogOrderIsLsnOrder, ReleaseWal, Applied
<1>4. EpochFencing' /\ ReleasedEpochStaysClosed'
  BY DEF IInv, EpochFencing, ReleasedEpochStaysClosed, Applied, ReleaseWal
<1>5. NoByteLost'
  <2>1. ASSUME NEW x \in Lsn, archive_lsn =< x, x < wal_end
        PROVE  \E e \in committed' : Covers(e, "Wal", x)
    <3>1. PICK e \in committed : Covers(e, "Wal", x)
      BY <2>1 DEF IInv, NoByteLost
    <3>2. x \in Nat
      BY BoundsAssumption DEF Lsn
    <3>3. ~(e.header.hi =< through)
      BY <3>1, <3>2, <2>1, <1>a DEF Covers, Numeric
    <3>4. e \in committed'
      BY <3>3 DEF ReleaseWal, Compacted
    <3> QED BY <3>1, <3>4
  <2>2. ASSUME NEW x \in Lsn, timeline_start =< x, x < archive_lsn
        PROVE  \E e \in committed' : Covers(e, "ArchiveCheckpoint", x)
    <3>1. PICK e \in committed : Covers(e, "ArchiveCheckpoint", x)
      BY <2>2 DEF IInv, NoByteLost
    <3>2. e \in committed'
      BY <3>1 DEF ReleaseWal, Compacted, Covers
    <3> QED BY <3>1, <3>2
  <2> QED BY <2>1, <2>2 DEF NoByteLost, ReleaseWal, Covers
<1> QED BY <1>1, <1>2, <1>3, <1>4, <1>5 DEF IInv

-----------------------------------------------------------------------------
\* Every step of the group keeps the invariant.
LEMMA NextIInv == IInv /\ [Next]_vars => IInv'
<1> SUFFICES ASSUME IInv, [Next]_vars PROVE IInv'
  OBVIOUS
<1>a. 0 \in Lsn /\ NoEpoch \in Epoch /\ NoBucket \in Content
  BY BoundsAssumption DEF Lsn, Epoch, NoEpoch, Content
<1>1. CASE OpenTimelineRequest
  <2>1. PICK r \in Requests, start \in Lsn :
          TimelineOpen(HeaderOf(r, "TimelineOpen", EmptyHash, NoEpoch, start, start, NoBucket))
    BY <1>1 DEF OpenTimelineRequest
  <2> DEFINE h == HeaderOf(r, "TimelineOpen", EmptyHash, NoEpoch, start, start, NoBucket)
  <2>2. h \in Header
    BY <1>a, HeaderType DEF EmptyHash, Kinds
  <2>3. h.kind = "TimelineOpen" /\ h.epoch = NoEpoch
    BY DEF HeaderOf
  <2> HIDE DEF h
  <2> QED BY <2>1, <2>2, <2>3, TimelineOpenIInv DEF h
<1>2. CASE BindWalArchive
  <2>1. PICK r \in Requests, b \in Buckets :
          WalArchiveBinding(HeaderOf(r, "WalArchiveBinding", <<b, 0, 0>>, NoEpoch, 0, 0, b))
    BY <1>2 DEF BindWalArchive
  <2> DEFINE h == HeaderOf(r, "WalArchiveBinding", <<b, 0, 0>>, NoEpoch, 0, 0, b)
  <2>2. h \in Header
    BY <1>a, HeaderType DEF Content, Kinds
  <2>3. h.kind = "WalArchiveBinding" /\ h.epoch = NoEpoch
    BY DEF HeaderOf
  <2> HIDE DEF h
  <2> QED BY <2>1, <2>2, <2>3, WalArchiveBindingIInv DEF h
<1>3. CASE AcquireWriter
  <2>1. PICK r \in Requests, w \in Writers, seen \in 0 .. writer_epoch :
          /\ seen < MaxEpoch
          /\ WriterLease(HeaderOf(r, "WriterLease", <<w, 0, 0>>, seen + 1, 0, 0, NoBucket))
    BY <1>3 DEF AcquireWriter
  <2> DEFINE h == HeaderOf(r, "WriterLease", <<w, 0, 0>>, seen + 1, 0, 0, NoBucket)
  <2>2. seen + 1 \in Epoch
    BY <2>1, BoundsAssumption, NumericTypes DEF Epoch, Numeric
  <2>3. h \in Header
    BY <1>a, <2>2, HeaderType DEF Content, Kinds
  <2>4. h.kind = "WriterLease"
    BY DEF HeaderOf
  <2> HIDE DEF h
  <2> QED BY <2>1, <2>3, <2>4, WriterLeaseIInv DEF h
<1>4. CASE AppendWal
  <2>1. PICK r \in Requests, p \in Payloads, e \in Epoch, lo \in Lsn, hi \in Lsn :
          /\ lo =< hi
          /\ Wal(HeaderOf(r, "Wal", <<p, 0, hi - lo>>, e, lo, hi, NoBucket))
    BY <1>4 DEF AppendWal
  <2> DEFINE h == HeaderOf(r, "Wal", <<p, 0, hi - lo>>, e, lo, hi, NoBucket)
  <2>2. hi - lo \in Lsn
    BY <2>1, BoundsAssumption DEF Lsn
  <2>3. h \in Header
    BY <1>a, <2>2, HeaderType DEF Content, Kinds
  <2>4. h.kind = "Wal" /\ h.lo =< h.hi
    BY <2>1 DEF HeaderOf
  <2> HIDE DEF h
  <2> QED BY <2>1, <2>3, <2>4, WalIInv DEF h
<1>5. CASE ReleaseWriterRequest
  <2>1. PICK r \in Requests, e \in Epoch :
          ReleaseWriter(HeaderOf(r, "ReleaseWriter", EmptyHash, e, 0, 0, NoBucket))
    BY <1>5 DEF ReleaseWriterRequest
  <2> DEFINE h == HeaderOf(r, "ReleaseWriter", EmptyHash, e, 0, 0, NoBucket)
  <2>2. h \in Header
    BY <1>a, HeaderType DEF EmptyHash, Kinds
  <2>3. h.kind = "ReleaseWriter"
    BY DEF HeaderOf
  <2> HIDE DEF h
  <2> QED BY <2>1, <2>2, <2>3, ReleaseWriterIInv DEF h
<1>6. CASE ArchiveRequest
  <2>1. PICK r \in Requests, lo \in Lsn, hi \in Lsn :
          /\ lo < hi
          /\ ArchiveCheckpoint(HeaderOf(r, "ArchiveCheckpoint", <<NoBucket, lo, hi>>,
                                        NoEpoch, lo, hi, NoBucket))
    BY <1>6 DEF ArchiveRequest
  <2> DEFINE h == HeaderOf(r, "ArchiveCheckpoint", <<NoBucket, lo, hi>>, NoEpoch, lo, hi, NoBucket)
  <2>2. h \in Header
    BY <1>a, HeaderType DEF Kinds
  <2>3. h.kind = "ArchiveCheckpoint" /\ h.epoch = NoEpoch /\ h.lo < h.hi
    BY <2>1 DEF HeaderOf
  <2> HIDE DEF h
  <2> QED BY <2>1, <2>2, <2>3, ArchiveCheckpointIInv DEF h
<1>7. CASE ReleaseRequest
  <2>1. PICK e \in committed : ReleaseWal(e.header.hi)
    BY <1>7 DEF ReleaseRequest
  <2>2. e.header.hi \in Lsn
    BY DEF IInv, TypeOK, Entry, Header
  <2> QED BY <2>1, <2>2, ReleaseWalIInv
<1>8. CASE UNCHANGED vars
  BY <1>8 DEF vars, IInv, TypeOK, Indices, Window, Tails, Epochs, NoByteLost, Covers,
     LogOrderIsLsnOrder, EpochFencing, ReleasedEpochStaysClosed, Applied
<1> QED BY <1>1, <1>2, <1>3, <1>4, <1>5, <1>6, <1>7, <1>8 DEF Next

\* The invariant holds in every reachable state of the group.
THEOREM Invariance == Spec => []IInv
<1>1. Init => IInv
  BY InitIInv
<1>2. IInv /\ [Next]_vars => IInv'
  BY NextIInv
<1> QED BY <1>1, <1>2, PTL DEF Spec

\* Every reachable state of the group is well typed.
THEOREM TypeCorrectness == Spec => []TypeOK
<1>1. IInv => TypeOK
  BY DEF IInv
<1> QED BY <1>1, Invariance, PTL

\* For every set of clients and every interleaving of opens, leases, appends,
\* retries, archive checkpoints and compactions, no committed WAL byte is lost.
THEOREM NoByteIsLost == Spec => []NoByteLost
<1>1. IInv => NoByteLost
  BY DEF IInv
<1> QED BY <1>1, Invariance, PTL

\* Committed appends never overlap and are ordered in the log as in the WAL;
\* the same holds of the archive segments.
THEOREM LsnOrder == Spec => []LogOrderIsLsnOrder
<1>1. IInv => LogOrderIsLsnOrder
  BY DEF IInv
<1> QED BY <1>1, Invariance, PTL

\* A lease fences every earlier epoch, and an epoch is leased once.
THEOREM Fencing == Spec => []EpochFencing
<1>1. IInv => EpochFencing
  BY DEF IInv
<1> QED BY <1>1, Invariance, PTL

\* Nothing is appended under a released epoch.
THEOREM ReleaseIsFinal == Spec => []ReleasedEpochStaysClosed
<1>1. IInv => ReleasedEpochStaysClosed
  BY DEF IInv
<1> QED BY <1>1, Invariance, PTL
-----------------------------------------------------------------------------
\* The scan of read_wal_after_fence.  Its cursor is a recursive function of
\* the index; that there is one follows by building it index by index.

\* g is the cursor at each index up to n.
Scan(g, n, from, to) ==
    g = [i \in 0 .. n |-> IF i = 0 THEN from ELSE Advance(g[i - 1], i, to)]

LEMMA ScanExists ==
    ASSUME NEW from, NEW to, NEW n \in Nat
    PROVE  \E g : Scan(g, n, from, to)
<1> DEFINE Bad == {m \in Nat : ~ \E g : Scan(g, m, from, to)}
<1> SUFFICES ASSUME Bad # {} PROVE FALSE
  OBVIOUS
<1>1. PICK m \in Bad : \A k \in Bad : m =< k
  BY Least
<1>2. m \in Nat /\ ~ \E g : Scan(g, m, from, to)
  BY <1>1
<1>3. CASE m = 0
  <2>1. Scan([i \in 0 .. 0 |-> from], 0, from, to)
    BY DEF Scan
  <2> QED BY <1>2, <1>3, <2>1
<1>4. CASE m > 0
  <2>1. m - 1 \in Nat /\ m - 1 \notin Bad
    BY <1>1, <1>2, <1>4
  <2>2. PICK g : Scan(g, m - 1, from, to)
    BY <2>1
  <2> DEFINE h == [i \in 0 .. m |-> IF i = m THEN Advance(g[m - 1], m, to) ELSE g[i]]
  <2>3. ASSUME NEW i \in 0 .. m
        PROVE  h[i] = IF i = 0 THEN from ELSE Advance(h[i - 1], i, to)
    <3>1. CASE i = m
      <4>1. h[i - 1] = g[m - 1]
        BY <1>2, <1>4, <3>1
      <4> QED BY <1>2, <1>4, <3>1, <4>1
    <3>2. CASE i # m
      <4>1. i \in 0 .. (m - 1) /\ h[i] = g[i]
        BY <1>2, <1>4, <3>2
      <4>2. g[i] = IF i = 0 THEN from ELSE Advance(g[i - 1], i, to)
        BY <2>2, <4>1 DEF Scan
      <4>3. i # 0 => h[i - 1] = g[i - 1]
        BY <1>2, <3>2
      <4> HIDE DEF h
      <4> QED BY <4>1, <4>2, <4>3
    <3> QED BY <3>1, <3>2
  <2>4. h = [i \in 0 .. m |-> h[i]]
    OBVIOUS
  <2> HIDE DEF h
  <2>5. Scan(h, m, from, to)
    BY <2>3, <2>4 DEF Scan
  <2> QED BY <1>2, <2>5
<1> QED BY <1>2, <1>3, <1>4

\* The cursor that ReadCursor ends with.
LEMMA CursorScan ==
    ASSUME NEW from, NEW to
    PROVE  \E g : Scan(g, MaxIndex, from, to) /\ ReadCursor(from, to) = g[MaxIndex]
<1>1. \E g : Scan(g, MaxIndex, from, to)
  BY ScanExists, BoundsAssumption
<1> QED BY <1>1 DEF ReadCursor, Scan, Index

\* The cursor stands in the range, and when it is short of the end every
\* header up to index i ends at or below it.
Reached(c, i, from, to) ==
    /\ c \in Lsn /\ from =< c /\ c =< to
    /\ c < to => \A e \in committed : (e.header.kind = "Wal" /\ e.index =< i) => e.header.hi =< c

\* A cursor short of the end stands on a byte that a header beyond i holds.
\* A header between them would end at or below the cursor, since log order is
\* LSN order, so the next one that is due holds that byte.
LEMMA AdvanceReaches ==
    ASSUME IInv, NEW from \in Lsn, NEW to \in Lsn, archive_lsn =< from, to =< wal_end,
           NEW i \in Nat, NEW c, Reached(c, i, from, to)
    PROVE  Reached(Advance(c, i + 1, to), i + 1, from, to)
<1>1. /\ c \in Nat /\ from \in Nat /\ to \in Nat /\ archive_lsn \in Nat /\ wal_end \in Nat
      /\ c \in Lsn /\ MaxLsn \in Nat /\ from =< c /\ c =< to
  BY BoundsAssumption DEF Reached, Lsn, IInv, TypeOK
<1>2. \A e \in committed : /\ e.index \in Nat
                            /\ e.header.lo \in Lsn /\ e.header.hi \in Lsn
                            /\ e.header.lo \in Nat /\ e.header.hi \in Nat
  BY BoundsAssumption DEF IInv, TypeOK, Entry, Header, Index, Lsn
<1>3. CASE c >= to
  <2>1. Advance(c, i + 1, to) = c /\ c = to
    BY <1>1, <1>3 DEF Advance
  <2> QED BY <1>1, <2>1 DEF Reached
<1>4. CASE c < to
  <2>1. PICK f \in committed : f.header.kind = "Wal" /\ f.header.lo =< c /\ c < f.header.hi
    BY <1>1, <1>4 DEF IInv, NoByteLost, Covers
  <2>2. \A e \in committed : (e.header.kind = "Wal" /\ e.index =< i) => e.header.hi =< c
    BY <1>4 DEF Reached
  <2>b. f.index \in Nat /\ f.header.lo \in Nat /\ f.header.hi \in Nat
    BY <1>2
  <2>3. f.index >= i + 1
    <3>1. f.index =< i => f.header.hi =< c
      BY <2>1, <2>2
    <3> QED BY <1>1, <2>1, <2>b, <3>1
  <2>4. ASSUME NEW e \in committed, e.header.kind = "Wal", e.index = i + 1
        PROVE  e = f \/ e.header.hi =< c
    <3>1. e.index = f.index => e = f
      BY DEF IInv, Indices
    <3>2. e.index < f.index => e.header.hi =< f.header.lo
      BY <2>1, <2>4 DEF IInv, LogOrderIsLsnOrder
    <3>3. e.index \in Nat /\ e.header.lo \in Nat /\ e.header.hi \in Nat
      BY <1>2
    <3> QED BY <1>1, <2>1, <2>3, <2>4, <2>b, <3>1, <3>2, <3>3
  <2>5. ASSUME NEW e \in committed, e.header.kind = "Wal", e.index =< i + 1
        PROVE  e.header.hi =< c \/ (e = f /\ f.index = i + 1)
    <3>1. e.index \in Nat
      BY <1>2
    <3>2. e.index =< i \/ e.index = i + 1
      BY <2>5, <3>1
    <3> QED BY <2>2, <2>4, <2>5, <3>2
  <2>6. CASE f.index = i + 1
    <3>1. f \in Due(c, i + 1, to)
      BY <1>1, <1>4, <2>1, <2>6, <2>b DEF Due
    <3>2. \A x \in Due(c, i + 1, to) : x = f
      BY <2>6 DEF Due, IInv, Indices
    <3>3. (CHOOSE x \in Due(c, i + 1, to) : TRUE) = f
      BY <3>1, <3>2
    <3>4. Advance(c, i + 1, to) = IF f.header.hi < to THEN f.header.hi ELSE to
      <4>1. Due(c, i + 1, to) # {} /\ ~(c >= to) /\ ~(f.header.lo > c)
        BY <1>1, <1>4, <2>1, <2>b, <3>1
      <4> DEFINE x == CHOOSE x \in Due(c, i + 1, to) : TRUE
      <4>2. Advance(c, i + 1, to) = IF x.header.lo > c THEN MaxLsn + 1
                                    ELSE IF x.header.hi < to THEN x.header.hi ELSE to
        BY <4>1 DEF Advance
      <4>3. x = f
        BY <3>3
      <4> HIDE DEF x
      <4> QED BY <4>1, <4>2, <4>3
    <3> DEFINE d == IF f.header.hi < to THEN f.header.hi ELSE to
    <3>5. d \in Lsn /\ d \in Nat /\ from =< d /\ d =< to /\ c =< d
      BY <1>1, <1>2, <1>4, <2>1, <2>b
    <3>6. ASSUME d < to, NEW e \in committed, e.header.kind = "Wal", e.index =< i + 1
          PROVE  e.header.hi =< d
      <4>1. e.header.hi \in Nat
        BY <1>2
      <4> QED BY <1>1, <2>5, <2>b, <3>5, <3>6, <4>1
    <3> QED BY <3>4, <3>5, <3>6 DEF Reached
  <2>7. CASE f.index # i + 1
    <3>1. Due(c, i + 1, to) = {}
      <4>1. ASSUME NEW e \in Due(c, i + 1, to) PROVE FALSE
        <5>1. e \in committed /\ e.header.kind = "Wal" /\ e.index = i + 1 /\ e.header.hi > c
          BY DEF Due
        <5>2. e.header.hi \in Nat /\ e.header.hi =< c
          BY <1>2, <2>4, <2>7, <5>1
        <5> QED BY <1>1, <5>1, <5>2
      <4> QED BY <4>1
    <3>2. Advance(c, i + 1, to) = c
      BY <3>1 DEF Advance
    <3> QED BY <1>1, <2>5, <2>7, <3>2 DEF Reached
  <2> QED BY <2>6, <2>7
<1> QED BY <1>1, <1>3, <1>4

\* The scan keeps to the range at every index.
LEMMA ScanReaches ==
    ASSUME IInv, NEW from \in Lsn, NEW to \in Lsn, archive_lsn =< from, from < to, to =< wal_end,
           NEW n \in Nat, NEW g, Scan(g, n, from, to)
    PROVE  \A i \in 0 .. n : Reached(g[i], i, from, to)
<1> DEFINE Bad == {i \in 0 .. n : ~Reached(g[i], i, from, to)}
<1> SUFFICES ASSUME Bad # {} PROVE FALSE
  OBVIOUS
<1>1. PICK m \in Bad : \A k \in Bad : m =< k
  <2>1. Bad \subseteq Nat
    OBVIOUS
  <2> HIDE DEF Bad
  <2> QED BY <2>1, Least
<1>2. m \in 0 .. n /\ m \in Nat /\ ~Reached(g[m], m, from, to)
  BY <1>1
<1>3. g[m] = IF m = 0 THEN from ELSE Advance(g[m - 1], m, to)
  BY <1>2 DEF Scan
<1>4. CASE m = 0
  <2>1. /\ from \in Nat /\ to \in Nat /\ archive_lsn \in Nat /\ wal_end \in Nat /\ last_applied \in Nat
        /\ \A e \in committed : e.index \in Nat /\ e.header.lo \in Nat /\ e.header.hi \in Nat
    BY BoundsAssumption DEF IInv, TypeOK, Entry, Header, Index, Lsn
  <2>2. \A e \in committed : e.index > 0
    BY DEF IInv, Indices
  <2> QED BY <1>2, <1>3, <1>4, <2>1, <2>2 DEF Reached
<1>5. CASE m # 0
  <2>1. m - 1 \in 0 .. n /\ m - 1 \in Nat /\ (m - 1) + 1 = m /\ m - 1 \notin Bad
    BY <1>1, <1>2, <1>5
  <2>2. Reached(g[m - 1], m - 1, from, to)
    BY <2>1
  <2>3. Reached(Advance(g[m - 1], (m - 1) + 1, to), (m - 1) + 1, from, to)
    BY <2>1, <2>2, AdvanceReaches
  <2> QED BY <1>2, <1>3, <1>5, <2>1, <2>3
<1> QED BY <1>4, <1>5

\* Whatever was appended, retried, archived and compacted, the scan of
\* read_wal_after_fence composes every range between the archive watermark and
\* the tail without a gap.
THEOREM RangesStayReadable == Spec => []RetainedRangeReadable
<1>1. ASSUME IInv, NEW from \in Lsn, NEW to \in Lsn, archive_lsn =< from, from < to, to =< wal_end
      PROVE  ReadCursor(from, to) = to
  <2>1. PICK g : Scan(g, MaxIndex, from, to) /\ ReadCursor(from, to) = g[MaxIndex]
    BY CursorScan
  <2>2. Reached(g[MaxIndex], MaxIndex, from, to)
    BY <1>1, <2>1, ScanReaches, BoundsAssumption
  <2> DEFINE c == g[MaxIndex]
  <2>3. /\ c \in Lsn /\ c \in Nat /\ from \in Nat /\ to \in Nat /\ archive_lsn \in Nat /\ wal_end \in Nat
        /\ from =< c /\ c =< to
    BY <1>1, <2>2, BoundsAssumption DEF Reached, Lsn, IInv, TypeOK
  <2>4. ASSUME c < to PROVE FALSE
    <3>1. PICK f \in committed : f.header.kind = "Wal" /\ c < f.header.hi
      BY <1>1, <2>3, <2>4 DEF IInv, NoByteLost, Covers
    <3>2. f.index =< MaxIndex /\ f.header.hi \in Nat
      BY <1>1, BoundsAssumption DEF IInv, TypeOK, Entry, Header, Index, Lsn
    <3>3. f.header.hi =< c
      BY <2>2, <2>4, <3>1, <3>2 DEF Reached
    <3> QED BY <2>3, <3>1, <3>2, <3>3
  <2> QED BY <2>1, <2>3, <2>4
<1>2. IInv => RetainedRangeReadable
  BY <1>1 DEF RetainedRangeReadable
<1> QED BY <1>2, Invariance, PTL

-----------------------------------------------------------------------------
\* One step of Monotone.
Forward ==
    /\ wal_initialized => /\ wal_end' >= wal_end
                          /\ archive_lsn' >= archive_lsn
                          /\ timeline_start' = timeline_start
    /\ writer_epoch' >= writer_epoch
    /\ wal_archive_bucket # NoBucket => wal_archive_bucket' = wal_archive_bucket
    /\ \A e \in committed \ committed' :
          e.header.kind = "Wal" /\ e.header.hi =< archive_lsn

\* A refused command moves nothing.
LEMMA RefuseForward == ASSUME IInv, NEW why, Refuse(why) PROVE Forward
BY NumericTypes DEF Refuse, Forward, Numeric

\* Every step of the group only moves forward.
LEMMA NextForward == IInv /\ [Next]_vars => Forward
<1> SUFFICES ASSUME IInv, [Next]_vars PROVE Forward
  OBVIOUS
<1>a. Numeric
  BY NumericTypes
<1>b. \A h : AnswerRetry(h) \/ Fence(h) => Forward
  BY RefuseForward DEF AnswerRetry, Fence
<1>1. ASSUME NEW h, TimelineOpen(h) PROVE Forward
  BY <1>1, <1>a, <1>b, RefuseForward DEF TimelineOpen, Accept, Forward, Numeric
<1>2. ASSUME NEW h, WalArchiveBinding(h) PROVE Forward
  BY <1>2, <1>a, <1>b, RefuseForward DEF WalArchiveBinding, Accept, Forward, Numeric
<1>3. ASSUME NEW h, h.kind = "WriterLease", WriterLease(h) PROVE Forward
  BY <1>3, <1>a, <1>b, RefuseForward DEF WriterLease, Admitted, EpochValid, Accept, Forward, Numeric
<1>4. ASSUME NEW h, h.lo =< h.hi, Wal(h) PROVE Forward
  BY <1>4, <1>a, <1>b, RefuseForward DEF Wal, Accept, Forward, Numeric
<1>5. ASSUME NEW h, ReleaseWriter(h) PROVE Forward
  BY <1>5, <1>a, <1>b, RefuseForward DEF ReleaseWriter, Accept, Forward, Numeric
<1>6. ASSUME NEW h, h.hi \in Nat, h.lo < h.hi, ArchiveCheckpoint(h) PROVE Forward
  BY <1>6, <1>a, <1>b, RefuseForward DEF ArchiveCheckpoint, Accept, Forward, Numeric
<1>7. ASSUME NEW e \in committed, ReleaseWal(e.header.hi) PROVE Forward
  BY <1>7, <1>a DEF ReleaseWal, Compacted, Forward, Numeric
<1>8. CASE UNCHANGED vars
  BY <1>8, <1>a DEF vars, Forward, Numeric
<1>9. CASE OpenTimelineRequest
  BY <1>9, <1>1 DEF OpenTimelineRequest
<1>10. CASE BindWalArchive
  BY <1>10, <1>2 DEF BindWalArchive
<1>11. CASE AcquireWriter
  BY <1>11, <1>3 DEF AcquireWriter, HeaderOf
<1>12. CASE AppendWal
  BY <1>12, <1>4 DEF AppendWal, HeaderOf
<1>13. CASE ReleaseWriterRequest
  BY <1>13, <1>5 DEF ReleaseWriterRequest
<1>14. CASE ArchiveRequest
  BY <1>14, <1>6, BoundsAssumption DEF ArchiveRequest, HeaderOf, Lsn
<1>15. CASE ReleaseRequest
  BY <1>15, <1>7 DEF ReleaseRequest
<1> QED BY <1>8, <1>9, <1>10, <1>11, <1>12, <1>13, <1>14, <1>15 DEF Next

\* The tail, the archive watermark and the writer epoch never move back, the
\* bucket and the opening position never change, and compaction takes out only
\* WAL headers below the archive watermark.
THEOREM NeverBackwards == Spec => Monotone
<1>1. IInv /\ [Next]_vars => [Forward]_vars
  BY NextForward
<1>2. Spec => []IInv
  BY Invariance
<1> QED BY <1>1, <1>2, PTL DEF Spec, Monotone, Forward

(***************************************************************************)
(* The files of a replica (ReplicaStore).                                  *)
(***************************************************************************)

\* g is the log after each of the first n frames of f.
Replays(g, f, n) ==
    g = [k \in 0 .. n |-> IF k = 0 THEN NoLog ELSE ApplyRecord(g[k - 1], f[k])]

\* The replay of n frames is built frame by frame.
LEMMA ReplaysExist ==
    ASSUME NEW f, NEW n \in Nat
    PROVE  \E g : Replays(g, f, n)
<1> DEFINE Bad == {m \in Nat : ~ \E g : Replays(g, f, m)}
<1> SUFFICES ASSUME Bad # {} PROVE FALSE
  OBVIOUS
<1>1. PICK m \in Bad : \A k \in Bad : m =< k
  BY Least
<1>2. m \in Nat /\ ~ \E g : Replays(g, f, m)
  BY <1>1
<1>3. CASE m = 0
  <2>1. Replays([k \in 0 .. 0 |-> NoLog], f, 0)
    BY DEF Replays
  <2> QED BY <1>2, <1>3, <2>1
<1>4. CASE m > 0
  <2>1. m - 1 \in Nat /\ m - 1 \notin Bad
    BY <1>1, <1>2, <1>4
  <2>2. PICK g : Replays(g, f, m - 1)
    BY <2>1
  <2> DEFINE h == [k \in 0 .. m |-> IF k = m THEN ApplyRecord(g[m - 1], f[m]) ELSE g[k]]
  <2>3. ASSUME NEW k \in 0 .. m
        PROVE  h[k] = IF k = 0 THEN NoLog ELSE ApplyRecord(h[k - 1], f[k])
    <3>1. CASE k = m
      <4>1. h[k - 1] = g[m - 1]
        BY <1>2, <1>4, <3>1
      <4> QED BY <1>2, <1>4, <3>1, <4>1
    <3>2. CASE k # m
      <4>1. k \in 0 .. (m - 1) /\ h[k] = g[k]
        BY <1>2, <1>4, <3>2
      <4>2. g[k] = IF k = 0 THEN NoLog ELSE ApplyRecord(g[k - 1], f[k])
        BY <2>2, <4>1 DEF Replays
      <4>3. k # 0 => h[k - 1] = g[k - 1]
        BY <1>2, <3>2
      <4> HIDE DEF h
      <4> QED BY <4>1, <4>2, <4>3
    <3> QED BY <3>1, <3>2
  <2>4. h = [k \in 0 .. m |-> h[k]]
    OBVIOUS
  <2> HIDE DEF h
  <2>5. Replays(h, f, m)
    BY <2>3, <2>4 DEF Replays
  <2> QED BY <1>2, <2>5
<1> QED BY <1>2, <1>3, <1>4

LEMMA ReplaySteps ==
    ASSUME NEW f, Len(f) \in Nat
    PROVE  /\ Replay(f)[0] = NoLog
           /\ \A k \in 1 .. Len(f) : Replay(f)[k] = ApplyRecord(Replay(f)[k - 1], f[k])
<1>1. \E g : Replays(g, f, Len(f))
  BY ReplaysExist
<1>2. Replays(Replay(f), f, Len(f))
  BY <1>1 DEF Replay, Replays
<1> DEFINE g == Replay(f)
<1>3. g = [k \in 0 .. Len(f) |-> IF k = 0 THEN NoLog ELSE ApplyRecord(g[k - 1], f[k])]
  BY <1>2 DEF Replays
<1> HIDE DEF g
<1>4. g[0] = NoLog /\ \A k \in 1 .. Len(f) : g[k] = ApplyRecord(g[k - 1], f[k])
  BY <1>3
<1> QED BY <1>4 DEF g

\* Equal frames replay to equal logs.
LEMMA ReplayPrefix ==
    ASSUME NEW f, Len(f) \in Nat, NEW g, Len(g) \in Nat,
           NEW n \in Nat, n <= Len(f), n <= Len(g), \A k \in 1 .. n : f[k] = g[k]
    PROVE  \A k \in 0 .. n : Replay(f)[k] = Replay(g)[k]
<1> DEFINE Bad == {k \in 0 .. n : Replay(f)[k] # Replay(g)[k]}
<1> SUFFICES ASSUME Bad # {} PROVE FALSE
  OBVIOUS
<1>0. Bad \subseteq Nat
  OBVIOUS
<1>1. PICK m \in Bad : \A k \in Bad : m =< k
  BY <1>0, Least
<1>2. m \in 0 .. n /\ Replay(f)[m] # Replay(g)[m]
  BY <1>1
<1>3. m # 0
  BY <1>2, ReplaySteps
<1>4. Replay(f)[m - 1] = Replay(g)[m - 1]
  BY <1>1, <1>2, <1>3
<1>5. /\ Replay(f)[m] = ApplyRecord(Replay(f)[m - 1], f[m])
      /\ Replay(g)[m] = ApplyRecord(Replay(g)[m - 1], g[m])
  BY <1>2, <1>3, ReplaySteps
<1>6. f[m] = g[m]
  BY <1>2, <1>3
<1> QED BY <1>2, <1>4, <1>5, <1>6

\* The frames before the first torn one.
LEMMA CompleteFacts ==
    ASSUME NEW f, NEW n \in Nat
    PROVE  /\ Complete(f, n) \in 0 .. n
           /\ \A k \in 1 .. Complete(f, n) : f[k] # Torn
           /\ Complete(f, n) = n \/ f[Complete(f, n) + 1] = Torn
<1>1. CASE TornFrames(f, n) = {}
  BY <1>1 DEF Complete, TornFrames
<1>2. CASE TornFrames(f, n) # {}
  <2> DEFINE T == TornFrames(f, n)
             c == CHOOSE i \in T : \A j \in T : i <= j
  <2>1. T \subseteq Nat /\ T # {}
    BY <1>2 DEF TornFrames
  <2>2. \E i \in T : \A j \in T : i <= j
    BY <2>1, Least
  <2>3. c \in T /\ \A j \in T : c <= j
    BY <2>2
  <2>4. Complete(f, n) = c - 1
    BY <1>2 DEF Complete
  <2> HIDE DEF c
  <2>5. c \in 1 .. n /\ f[c] = Torn /\ \A k \in 1 .. (c - 1) : f[k] # Torn
    BY <2>3 DEF TornFrames
  <2> QED BY <2>4, <2>5
<1> QED BY <1>1, <1>2

LEMMA CompleteIs ==
    ASSUME NEW f, NEW n \in Nat, NEW c \in 0 .. n,
           \A k \in 1 .. c : f[k] # Torn, c = n \/ f[c + 1] = Torn
    PROVE  Complete(f, n) = c
<1> DEFINE d == Complete(f, n)
<1>1. /\ d \in 0 .. n /\ \A k \in 1 .. d : f[k] # Torn
      /\ d = n \/ f[d + 1] = Torn
  BY CompleteFacts
<1> HIDE DEF d
<1>2. ~ c < d
  <2> SUFFICES ASSUME c < d PROVE FALSE OBVIOUS
  <2>1. c + 1 \in 1 .. d /\ c # n
    BY <1>1
  <2> QED BY <1>1, <2>1
<1>3. ~ d < c
  <2> SUFFICES ASSUME d < c PROVE FALSE OBVIOUS
  <2>1. d + 1 \in 1 .. c /\ d # n
    BY <1>1
  <2> QED BY <1>1, <2>1
<1>4. c = d
  BY <1>1, <1>2, <1>3
<1> QED BY <1>4 DEF d

\* Recovery reads the frames it has, whatever follows them.
LEMMA RecoveryPrefix ==
    ASSUME NEW f, Len(f) \in Nat, NEW g, Len(g) \in Nat,
           NEW n \in Nat, n <= Len(f), n <= Len(g), \A k \in 1 .. n : f[k] = g[k]
    PROVE  /\ Complete(g, n) = Complete(f, n)
           /\ Replay(g)[Complete(g, n)] = Replay(f)[Complete(f, n)]
<1> DEFINE c == Complete(f, n)
<1>1. /\ c \in 0 .. n /\ \A k \in 1 .. c : f[k] # Torn
      /\ c = n \/ f[c + 1] = Torn
  BY CompleteFacts
<1> HIDE DEF c
<1>2. /\ \A k \in 1 .. c : g[k] # Torn
      /\ c = n \/ g[c + 1] = Torn
  BY <1>1
<1>3. Complete(g, n) = c
  BY <1>1, <1>2, CompleteIs
<1>4. Replay(f)[c] = Replay(g)[c]
  BY <1>1, ReplayPrefix
<1> QED BY <1>3, <1>4 DEF c

\* One more frame: it is replayed if no torn one is ahead of it.
LEMMA WriteRecovers ==
    ASSUME NEW S, NEW f \in Seq(S), NEW x \in S
    PROVE  /\ Append(f, x) \in Seq(S) /\ Len(Append(f, x)) = Len(f) + 1 /\ Len(f) \in Nat
           /\ \A n \in 0 .. Len(f) : Recovery(Append(f, x), n) = Recovery(f, n)
           /\ x = Torn \/ TornFrames(f, Len(f)) # {}
                => Recovery(Append(f, x), Len(f) + 1) = Recovery(f, Len(f))
           /\ x # Torn /\ TornFrames(f, Len(f)) = {}
                => /\ Recovery(Append(f, x), Len(f) + 1) = ApplyRecord(Recovery(f, Len(f)), x)
                   /\ TornFrames(Append(f, x), Len(f) + 1) = {}
<1> DEFINE m == Len(f)
           g == Append(f, x)
<1>1. /\ g \in Seq(S) /\ Len(g) = m + 1 /\ m \in Nat
      /\ \A k \in 1 .. m : g[k] = f[k]
      /\ g[m + 1] = x
  OBVIOUS
<1> HIDE DEF g, m
<1>2. ASSUME NEW n \in 0 .. m
      PROVE  Recovery(g, n) = Recovery(f, n) /\ Complete(g, n) = Complete(f, n)
  <2>1. n \in Nat /\ n <= Len(f) /\ n <= Len(g) /\ Len(f) \in Nat /\ Len(g) \in Nat
    BY <1>1 DEF m
  <2>2. \A k \in 1 .. n : f[k] = g[k]
    BY <1>1
  <2> QED BY <2>1, <2>2, RecoveryPrefix DEF Recovery
<1> DEFINE c == Complete(f, m)
<1>3. /\ c \in 0 .. m /\ \A k \in 1 .. c : f[k] # Torn
      /\ c = m \/ f[c + 1] = Torn
  BY <1>1, CompleteFacts
<1> HIDE DEF c
<1>4. ASSUME x = Torn \/ TornFrames(f, m) # {}
      PROVE  Recovery(g, m + 1) = Recovery(f, m)
  <2>1. \A k \in 1 .. c : g[k] # Torn
    BY <1>1, <1>3
  <2>2. g[c + 1] = Torn
    <3>1. CASE c = m
      <4>1. TornFrames(f, m) = {}
        BY <1>3, <3>1 DEF TornFrames
      <4> QED BY <1>1, <1>4, <3>1, <4>1
    <3>2. CASE c # m
      <4>1. c + 1 \in 1 .. m
        BY <1>1, <1>3, <3>2
      <4> QED BY <1>1, <1>3, <3>2, <4>1
    <3> QED BY <3>1, <3>2
  <2>3. Complete(g, m + 1) = c
    <3>1. m + 1 \in Nat /\ c \in 0 .. (m + 1)
      BY <1>1, <1>3
    <3> QED BY <2>1, <2>2, <3>1, CompleteIs
  <2>4. Complete(g, m) = c
    BY <1>1, <1>2 DEF c
  <2> QED BY <1>1, <1>2, <2>3, <2>4 DEF Recovery
<1>5. ASSUME x # Torn, TornFrames(f, m) = {}
      PROVE  /\ Recovery(g, m + 1) = ApplyRecord(Recovery(f, m), x)
             /\ TornFrames(g, m + 1) = {}
  <2>1. \A k \in 1 .. (m + 1) : g[k] # Torn
    BY <1>1, <1>5 DEF TornFrames
  <2>2. Complete(g, m + 1) = m + 1 /\ Complete(g, m) = m
    <3>1. /\ m + 1 \in Nat /\ m + 1 \in 0 .. (m + 1) /\ m \in 0 .. m
          /\ \A k \in 1 .. m : g[k] # Torn
      BY <1>1, <2>1
    <3> QED BY <1>1, <2>1, <3>1, CompleteIs
  <2>3. Replay(g)[m + 1] = ApplyRecord(Replay(g)[(m + 1) - 1], g[m + 1])
    <3>1. Len(g) \in Nat /\ m + 1 \in 1 .. Len(g)
      BY <1>1
    <3> QED BY <3>1, ReplaySteps
  <2>4. Replay(g)[m] = Recovery(f, m)
    BY <1>1, <1>2, <2>2 DEF Recovery
  <2>5. (m + 1) - 1 = m
    BY <1>1
  <2> QED BY <1>1, <2>1, <2>2, <2>3, <2>4, <2>5 DEF TornFrames, Recovery
<1> QED BY <1>1, <1>2, <1>4, <1>5 DEF m, g

\* What recovery cuts off changes nothing of what it reads.
LEMMA CutRecovers ==
    ASSUME NEW S, NEW f \in Seq(S), NEW n \in 0 .. Len(f)
    PROVE  LET g == SubSeq(f, 1, Complete(f, n))
           IN  /\ g \in Seq(S) /\ Len(g) = Complete(f, n) /\ Len(g) \in 0 .. n
               /\ TornFrames(g, Len(g)) = {}
               /\ Recovery(g, Len(g)) = Recovery(f, n)
<1> DEFINE c == Complete(f, n)
           g == SubSeq(f, 1, c)
<1>1. /\ c \in 0 .. n /\ \A k \in 1 .. c : f[k] # Torn
      /\ n \in Nat /\ c \in Nat /\ c <= Len(f) /\ Len(f) \in Nat
  BY CompleteFacts
<1> HIDE DEF c
<1>2. g \in Seq(S) /\ Len(g) = c /\ \A k \in 1 .. c : g[k] = f[k]
  BY <1>1
<1> HIDE DEF g
<1>3. TornFrames(g, c) = {}
  BY <1>1, <1>2 DEF TornFrames
<1>4. Complete(g, c) = c
  BY <1>3 DEF Complete
<1>5. Replay(f)[c] = Replay(g)[c]
  <2>1. Len(g) \in Nat /\ c <= Len(g) /\ c \in 0 .. c /\ \A k \in 1 .. c : f[k] = g[k]
    BY <1>1, <1>2
  <2> QED BY <1>1, <2>1, ReplayPrefix
<1> QED BY <1>1, <1>2, <1>3, <1>4, <1>5 DEF c, g, Recovery

-----------------------------------------------------------------------------
\* The log that a frame leads to.

IsLog(l) ==
    /\ l = [ents |-> l.ents, purged |-> l.purged]
    /\ l.ents = [i \in DOMAIN l.ents |-> l.ents[i]]
    /\ DOMAIN l.ents \subseteq Slots /\ \A i \in DOMAIN l.ents : l.ents[i] \in Terms
    /\ l.purged \in 0 .. MaxEntries

Holds(l, i, t) == i \in DOMAIN l.ents /\ l.ents[i] = t

LEMMA NoLogFacts == IsLog(NoLog) /\ DOMAIN NoLog.ents = {} /\ NoLog.purged = 0
BY StoreAssumption DEF IsLog, NoLog

LEMMA RecordFacts ==
    ASSUME NEW r \in Records
    PROVE  /\ r.op \in {"append", "truncate", "purge"} /\ r.index \in Slots
           /\ r.index \in Nat /\ r.index > 0 /\ r.index <= MaxEntries
           /\ r.op = "append" => r.term \in Terms
           /\ r # Torn
BY StoreAssumption DEF Records, Slots, Torn

LEMMA ApplyAppend ==
    ASSUME NEW l, IsLog(l), NEW r \in Records, r.op = "append"
    PROVE  LET m == ApplyRecord(l, r)
           IN  /\ IsLog(m) /\ m.purged = l.purged
               /\ DOMAIN m.ents = DOMAIN l.ents \cup {r.index}
               /\ m.ents[r.index] = r.term
               /\ \A i \in DOMAIN l.ents : i # r.index => m.ents[i] = l.ents[i]
<1> DEFINE e == [j \in DOMAIN l.ents \cup {r.index} |-> IF j = r.index THEN r.term ELSE l.ents[j]]
           m == ApplyRecord(l, r)
<1>1. m = [l EXCEPT !.ents = e]
  BY DEF ApplyRecord, Put
<1>2. m = [ents |-> e, purged |-> l.purged]
  BY <1>1 DEF IsLog
<1>3. r.index \in Slots /\ r.term \in Terms
  BY RecordFacts
<1> QED BY <1>2, <1>3 DEF IsLog

LEMMA ApplyTruncate ==
    ASSUME NEW l, IsLog(l), NEW r \in Records, r.op = "truncate"
    PROVE  LET m == ApplyRecord(l, r)
           IN  /\ IsLog(m) /\ m.purged = l.purged
               /\ \A i : i \in DOMAIN m.ents <=> i \in DOMAIN l.ents /\ i < r.index
               /\ \A i \in DOMAIN m.ents : m.ents[i] = l.ents[i]
<1> DEFINE e == Within(l.ents, 0 .. (r.index - 1))
           m == ApplyRecord(l, r)
<1>1. m = [l EXCEPT !.ents = e]
  BY DEF ApplyRecord
<1>2. m = [ents |-> e, purged |-> l.purged]
  BY <1>1 DEF IsLog
<1>3. r.index \in Nat /\ r.index > 0
  BY RecordFacts
<1>4. DOMAIN l.ents \subseteq Nat
  BY StoreAssumption DEF IsLog, Slots
<1>5. /\ e = [i \in DOMAIN e |-> e[i]]
      /\ \A i : i \in DOMAIN e <=> i \in DOMAIN l.ents /\ i < r.index
      /\ \A i \in DOMAIN e : e[i] = l.ents[i]
  BY <1>3, <1>4 DEF Within
<1> HIDE DEF e
<1> QED BY <1>2, <1>5 DEF IsLog

LEMMA ApplyPurge ==
    ASSUME NEW l, IsLog(l), NEW r, r.op = "purge", r.index \in 0 .. MaxEntries
    PROVE  LET m == ApplyRecord(l, r)
           IN  /\ IsLog(m) /\ m.purged = r.index
               /\ \A i : i \in DOMAIN m.ents <=> i \in DOMAIN l.ents /\ r.index < i
               /\ \A i \in DOMAIN m.ents : m.ents[i] = l.ents[i]
<1> DEFINE e == Within(l.ents, (r.index + 1) .. MaxEntries)
           m == ApplyRecord(l, r)
<1>2. m = [ents |-> e, purged |-> r.index]
  BY DEF ApplyRecord
<1>4. DOMAIN l.ents \subseteq 1 .. MaxEntries /\ MaxEntries \in Nat
  BY StoreAssumption DEF IsLog, Slots
<1>5. /\ e = [i \in DOMAIN e |-> e[i]]
      /\ \A i : i \in DOMAIN e <=> i \in DOMAIN l.ents /\ r.index < i
      /\ \A i \in DOMAIN e : e[i] = l.ents[i]
  <2>1. DOMAIN e = DOMAIN l.ents \cap ((r.index + 1) .. MaxEntries)
    BY DEF Within
  <2>2. \A i : i \in DOMAIN e <=> i \in DOMAIN l.ents /\ r.index < i
    BY <1>4, <2>1
  <2> QED BY <2>2 DEF Within
<1> HIDE DEF e
<1> QED BY <1>2, <1>5 DEF IsLog

\* LastIndex is at or beyond every entry and what was purged.
LEMMA LastIndexFacts ==
    ASSUME NEW l, IsLog(l), \A i \in DOMAIN l.ents : l.purged < i
    PROVE  /\ LastIndex(l) \in 0 .. MaxEntries
           /\ l.purged <= LastIndex(l)
           /\ \A i \in DOMAIN l.ents : i <= LastIndex(l)
<1>1. MaxEntries \in Nat /\ DOMAIN l.ents \subseteq 1 .. MaxEntries
  BY StoreAssumption DEF IsLog, Slots
<1>2. l.purged \in 0 .. MaxEntries
  BY DEF IsLog
<1>3. CASE DOMAIN l.ents = {}
  BY <1>1, <1>2, <1>3 DEF LastIndex
<1>4. CASE DOMAIN l.ents # {}
  <2> DEFINE D == {MaxEntries - i : i \in DOMAIN l.ents}
  <2>1. D \subseteq Nat /\ D # {}
    BY <1>1, <1>4
  <2>2. PICK d \in D : \A x \in D : d =< x
    BY <2>1, Least
  <2>3. PICK i \in DOMAIN l.ents : d = MaxEntries - i
    BY <2>2
  <2>4. ASSUME NEW j \in DOMAIN l.ents PROVE j <= i
    <3>1. d =< MaxEntries - j
      BY <2>2
    <3>2. i \in 1 .. MaxEntries /\ j \in 1 .. MaxEntries
      BY <1>1
    <3> QED BY <1>1, <2>3, <3>1, <3>2
  <2>5. \E k \in DOMAIN l.ents : \A j \in DOMAIN l.ents : j <= k
    BY <2>4
  <2> DEFINE c == CHOOSE k \in DOMAIN l.ents : \A j \in DOMAIN l.ents : j <= k
  <2>6. c \in DOMAIN l.ents /\ \A j \in DOMAIN l.ents : j <= c
    BY <2>5
  <2>7. LastIndex(l) = c
    BY <1>4 DEF LastIndex
  <2> HIDE DEF c
  <2> QED BY <1>1, <1>2, <2>6, <2>7
<1> QED BY <1>3, <1>4

-----------------------------------------------------------------------------
\* The invariant.

\* The frames that OpenRaft waits for: written but not synced, or queued.
BatchRecs == {batch[k].rec : k \in DOMAIN batch}
QueueRecs == {queue[k] : k \in DOMAIN queue}
Flight    == BatchRecs \cup QueueRecs

\* The appends among them are in log order, and nothing follows a truncate or
\* a purge, which holds the state lock.
Ordered ==
    /\ \A j, k \in DOMAIN queue : j < k =>
         queue[j].op = "append" /\ (queue[k].op = "append" => queue[j].index < queue[k].index)
    /\ \A j, k \in DOMAIN batch : j < k =>
         /\ batch[j].rec.op = "append"
         /\ batch[k].rec.op = "append" => batch[j].rec.index < batch[k].rec.index
    /\ \A j \in DOMAIN batch, k \in DOMAIN queue :
         /\ batch[j].rec.op = "append"
         /\ queue[k].op = "append" => batch[j].rec.index < queue[k].index

\* They touch nothing that is committed and purge nothing that is not in the
\* state image.
Frames ==
    \A r \in Flight : /\ r.op # "purge" => dMeta.committed < r.index
                      /\ r.op = "purge" => r.index <= Len(dState)

\* A log that a crash may leave, in whatever state the replica is: it starts
\* inside the state image and has the committed entries beyond it.
Durable(l) ==
    /\ IsLog(l) /\ \A i \in DOMAIN l.ents : l.purged < i
    /\ l.purged <= Len(dState)
    /\ \A r \in QueueRecs : r.op = "append" => l.purged < r.index
    /\ meta.committed <= Len(dState) \/ meta.committed \in DOMAIN l.ents
    /\ dMeta.committed <= Len(dState) \/ dMeta.committed \in DOMAIN l.ents
    /\ \A i \in DOMAIN l.ents : i <= dMeta.committed => l.ents[i] = chosen[i]
Journal == \A n \in CrashPoints : Durable(Recovered(n))

\* Every image is a prefix of what the group has committed, and the images are
\* written in the order of their lengths.
PrefixOf(s, t) == Len(s) <= Len(t) /\ \A i \in 1 .. Len(s) : s[i] = t[i]
Prefixes ==
    /\ PrefixOf(sm, chosen) /\ PrefixOf(cur, chosen)
    /\ PrefixOf(dState, chosen) /\ PrefixOf(dSnap, chosen)
    /\ \A s \in built : PrefixOf(s, chosen)
    /\ \A k \in DOMAIN images : PrefixOf(images[k].data, chosen)
Lengths ==
    /\ Len(cur) <= Len(dState) /\ Len(dSnap) <= Len(dState) /\ Len(dState) <= Len(sm)
    /\ \A s \in built : Len(s) <= Len(dState)
    /\ \A k \in DOMAIN images : /\ Len(dState) <= Len(images[k].data)
                                /\ Len(images[k].data) <= Len(sm)
    /\ \A j, k \in DOMAIN images : j < k => Len(images[j].data) <= Len(images[k].data)
    /\ half => images # <<>> /\ dState = images[1].data
    /\ meta.committed <= dMeta.committed /\ dMeta.committed <= Len(chosen)

\* The vote in memory was promised or is on its way to be.
Voting == AtMost(promised, meta.vote) /\ AtMost(meta.vote, dMeta.vote)

\* As long as OpenRaft runs.
Locked ==
    /\ \A r \in Flight : r.op # "append" => call = r.op
    /\ \A r \in Flight : r.op = "purge" => log.purged < r.index
    /\ \A r \in Flight : r.op = "truncate" => Len(sm) < r.index /\ \A i \in DOMAIN acked : i < r.index
    /\ call # "meta" => meta = dMeta
    /\ \A k \in DOMAIN images : images[k].by = "install" => call = "install"
    /\ \A j, k \in DOMAIN images : images[j].by = "install" /\ images[k].by = "install" => j = k

Memory ==
    /\ \A i \in DOMAIN log.ents : log.purged < i
    /\ log.purged <= Len(dState)
    /\ dMeta.committed <= Len(sm) \/ dMeta.committed \in DOMAIN log.ents
    /\ \A i \in DOMAIN log.ents : i <= dMeta.committed => log.ents[i] = chosen[i]

\* An entry in memory is acknowledged or in flight.
Acks ==
    /\ \A r \in Flight : r.op = "append" =>
          Holds(log, r.index, r.term) /\ \A i \in DOMAIN acked : i < r.index
    /\ \A i \in DOMAIN acked : Holds(log, i, acked[i]) \/ i <= log.purged
    /\ \A i \in DOMAIN log.ents : \/ i \in DOMAIN acked
                                  \/ \E r \in Flight : r.op = "append" /\ r.index = i
                                  \/ \E r \in Flight : r.op = "truncate" /\ r.index <= i

\* What a crash leaves is part of the log in memory and has what was
\* acknowledged.
Reach(l) ==
    /\ \A i \in DOMAIN l.ents : Holds(log, i, l.ents[i])
    /\ l.purged = log.purged \/ \E r \in BatchRecs : r.op = "purge" /\ l.purged = r.index
    /\ \A i \in DOMAIN acked : l.purged < i => Holds(l, i, acked[i])
Reaches == \A n \in CrashPoints : Reach(Recovered(n))

\* Every applied entry is in the state image, acknowledged, or in the image
\* that an installation is about to write.
Kept ==
    \A i \in 1 .. Len(sm) :
       \/ i <= Len(dState)
       \/ i \in DOMAIN acked /\ acked[i] = sm[i]
       \/ \E k \in DOMAIN images : images[k].by = "install" /\ i <= Len(images[k].data)

\* As long as no write has failed, the file has the whole batch.
Clean == \A k \in DOMAIN batch : batch[k].ok
Carried(w) ==
    \A r \in BatchRecs :
       /\ /\ r.op = "append" /\ w.purged < r.index
          /\ \A s \in BatchRecs : s.op = "truncate" => r.index < s.index
          => Holds(w, r.index, r.term)
       /\ r.op = "truncate" => \A i \in DOMAIN w.ents : i < r.index
       /\ r.op = "purge" => w.purged = r.index
Written ==
    Clean => TornFrames(file, Len(file)) = {} /\ Carried(Recovered(Len(file)))

Live == Locked /\ Memory /\ Acks /\ Reaches /\ Kept /\ Written

StoreIInv ==
    /\ StoreTypeOK /\ IsLog(log)
    /\ Ordered /\ Frames /\ Journal /\ Prefixes /\ Lengths /\ Voting
    /\ ~stopped => Live

-----------------------------------------------------------------------------
\* Before anything is written.
LEMMA StoreInitIInv == StoreInit => StoreIInv
<1> SUFFICES ASSUME StoreInit PROVE StoreIInv
  OBVIOUS
<1>1. NoVote \in Votes /\ AtMost(NoVote, NoVote)
  BY DEF NoVote, Votes, AtMost
<1>2. <<>> \in States
  BY StoreAssumption DEF States
<1>3. StoreTypeOK /\ IsLog(log)
  <2>1. /\ IsLog(log) /\ DOMAIN acked = {}
        /\ meta \in [vote : Votes, committed : 0..MaxEntries] /\ dMeta = meta /\ promised \in Votes
    BY <1>1, NoLogFacts, StoreAssumption DEF StoreInit
  <2>2. /\ Len(queue) <= Capacity /\ Len(batch) <= 2 /\ queue = <<>> /\ batch = <<>>
        /\ file = <<>> /\ synced \in 0 .. Len(file) /\ images = <<>>
    BY StoreAssumption DEF StoreInit
  <2>3. /\ queue \in Seq(Records) /\ batch \in Seq([rec : Records, ok : BOOLEAN])
        /\ file \in Seq(Records \cup {Torn})
        /\ images \in Seq([by : {"build", "install"}, data : States])
    BY <2>2
  <2>4. /\ sm \in States /\ cur \in States /\ dState \in States /\ dSnap \in States
        /\ chosen \in States /\ built \subseteq States /\ half = FALSE /\ stopped = FALSE
        /\ call = "none"
    BY <1>2 DEF StoreInit
  <2> QED BY <2>1, <2>2, <2>3, <2>4 DEF StoreTypeOK, IsLog
<1>4. BatchRecs = {} /\ QueueRecs = {} /\ Flight = {}
  BY DEF StoreInit, BatchRecs, QueueRecs, Flight
<1>5. Ordered /\ Frames /\ Voting
  BY <1>1, <1>4 DEF StoreInit, Ordered, Frames, Voting
<1>6. TornFrames(file, 0) = {}
  BY DEF TornFrames
<1>7. Recovered(0) = NoLog
  <2>1. Complete(file, 0) = 0
    BY <1>6 DEF Complete
  <2>2. Replay(file)[0] = NoLog
    BY ReplaySteps DEF StoreInit
  <2> QED BY <2>1, <2>2 DEF Recovered, Recovery
<1>8. CrashPoints = {0} /\ Len(file) = 0
  BY DEF StoreInit, CrashPoints
<1>9. Journal
  BY <1>4, <1>7, <1>8, NoLogFacts DEF Journal, Durable, StoreInit
<1>10. Prefixes /\ Lengths
  BY DEF StoreInit, Prefixes, Lengths, PrefixOf
<1>11. Locked /\ Memory /\ Acks /\ Kept
  BY <1>4, NoLogFacts DEF StoreInit, Locked, Memory, Acks, Kept
<1>12. Reaches /\ Written
  BY <1>4, <1>6, <1>7, <1>8, NoLogFacts DEF StoreInit, Reaches, Reach, Written, Carried
<1> QED BY <1>3, <1>5, <1>9, <1>10, <1>11, <1>12 DEF StoreIInv, Live

-----------------------------------------------------------------------------
\* Facts that the steps share.

LEMMA SameFile ==
    ASSUME UNCHANGED <<file, synced>>
    PROVE  /\ CrashPoints' = CrashPoints
           /\ \A n : Recovered(n)' = Recovered(n)
           /\ Recovered(Len(file))' = Recovered(Len(file))
           /\ TornFrames(file, Len(file))' = TornFrames(file, Len(file))
BY DEF CrashPoints, Recovered

LEMMA Elements ==
    ASSUME NEW S, NEW s \in Seq(S)
    PROVE  /\ DOMAIN s = 1 .. Len(s) /\ Len(s) \in Nat
           /\ \A k \in DOMAIN s : s[k] \in S
OBVIOUS

LEMMA StoreNumbers ==
    ASSUME StoreTypeOK
    PROVE  /\ Len(sm) \in Nat /\ Len(cur) \in Nat /\ Len(dState) \in Nat /\ Len(dSnap) \in Nat
           /\ Len(chosen) \in Nat /\ Len(chosen) <= MaxEntries /\ MaxEntries \in Nat
           /\ Len(queue) \in Nat /\ Len(batch) \in Nat /\ Len(images) \in Nat
           /\ Len(file) \in Nat /\ synced \in Nat /\ synced <= Len(file)
           /\ log.purged \in Nat /\ log.purged <= MaxEntries
           /\ meta.committed \in Nat /\ dMeta.committed \in Nat
           /\ DOMAIN log.ents \subseteq Nat /\ DOMAIN acked \subseteq Nat
           /\ Slots \subseteq Nat
<1>1. \A s \in States : Len(s) \in Nat /\ Len(s) <= MaxEntries
  BY DEF States
<1>2. sm \in States /\ cur \in States /\ dState \in States /\ dSnap \in States /\ chosen \in States
  BY DEF StoreTypeOK
<1>3. /\ queue \in Seq(Records) /\ batch \in Seq([rec : Records, ok : BOOLEAN])
      /\ images \in Seq([by : {"build", "install"}, data : States])
      /\ file \in Seq(Records \cup {Torn}) /\ synced \in 0 .. Len(file)
  BY DEF StoreTypeOK
<1>4. Len(queue) \in Nat /\ Len(batch) \in Nat /\ Len(images) \in Nat /\ Len(file) \in Nat
  BY <1>3
<1>5. synced \in Nat /\ synced <= Len(file)
  BY <1>3, <1>4
<1>6. MaxEntries \in Nat /\ Slots \subseteq Nat
  BY StoreAssumption DEF Slots
<1>7. /\ log.purged \in 0 .. MaxEntries /\ DOMAIN log.ents \subseteq Slots /\ DOMAIN acked \subseteq Slots
      /\ meta.committed \in 0 .. MaxEntries /\ dMeta.committed \in 0 .. MaxEntries
  BY DEF StoreTypeOK
<1>8. log.purged \in Nat /\ log.purged <= MaxEntries /\ meta.committed \in Nat /\ dMeta.committed \in Nat
  BY <1>6, <1>7
<1> QED BY <1>1, <1>2, <1>4, <1>5, <1>6, <1>7, <1>8

LEMMA LogNumbers ==
    ASSUME NEW l, IsLog(l)
    PROVE  /\ l.purged \in Nat /\ DOMAIN l.ents \subseteq Nat
           /\ \A i \in DOMAIN l.ents : i \in Nat /\ i > 0
BY StoreAssumption DEF IsLog, Slots

LEMMA FlightTypes ==
    ASSUME StoreTypeOK
    PROVE  /\ BatchRecs \subseteq Records /\ QueueRecs \subseteq Records /\ Flight \subseteq Records
           /\ \A r \in Flight : /\ r.index \in Nat /\ r.index > 0 /\ r.index \in Slots
                                /\ r.op \in {"append", "truncate", "purge"}
<1>1. \A k \in DOMAIN queue : queue[k] \in Records
  BY DEF StoreTypeOK
<1>2. \A k \in DOMAIN batch : batch[k].rec \in Records
  <2>1. batch \in Seq([rec : Records, ok : BOOLEAN])
    BY DEF StoreTypeOK
  <2>2. \A k \in DOMAIN batch : batch[k] \in [rec : Records, ok : BOOLEAN]
    BY <2>1, Elements
  <2> QED BY <2>2
<1>3. /\ BatchRecs \subseteq Records /\ QueueRecs \subseteq Records /\ Flight \subseteq Records
  BY <1>1, <1>2 DEF BatchRecs, QueueRecs, Flight
<1> QED BY <1>3, RecordFacts

\* What the crash points give, in one piece.
LEMMA JournalLogs ==
    ASSUME StoreIInv, NEW n \in CrashPoints
    PROVE  /\ Durable(Recovered(n)) /\ IsLog(Recovered(n))
           /\ Recovered(n).purged \in Nat /\ DOMAIN Recovered(n).ents \subseteq Nat
           /\ ~stopped => Reach(Recovered(n))
           /\ Len(file) \in CrashPoints
<1>1. Durable(Recovered(n)) /\ IsLog(Recovered(n))
  BY DEF StoreIInv, Journal, Durable
<1>2. Len(file) \in CrashPoints
  BY StoreNumbers DEF StoreIInv, CrashPoints
<1>3. ~stopped => Reach(Recovered(n))
  BY DEF StoreIInv, Live, Reaches
<1> QED BY <1>1, <1>2, <1>3, StoreAssumption DEF IsLog, Slots

\* A frame that is queued when the state lock is free: it is the last, and only
\* appends are ahead of it.
LEMMA Queued ==
    ASSUME StoreIInv, Ready, NEW r \in Records, queue' = Append(queue, r), batch' = batch,
           r.op = "append" => \A s \in Flight : s.index < r.index
    PROVE  /\ queue' \in Seq(Records) /\ Len(queue') = Len(queue) + 1
           /\ BatchRecs' = BatchRecs /\ QueueRecs' = QueueRecs \cup {r}
           /\ Flight' = Flight \cup {r} /\ Clean' = Clean
           /\ \A s \in Flight : s.op = "append"
           /\ Live
           /\ Ordered'
<1>1. Live /\ call = "none"
  BY DEF Ready, StoreIInv
<1>2. \A s \in Flight : s.op = "append"
  BY <1>1, FlightTypes DEF Live, Locked, StoreIInv
<1>3. queue \in Seq(Records) /\ batch \in Seq([rec : Records, ok : BOOLEAN])
  BY DEF StoreIInv, StoreTypeOK
<1>4. /\ queue' \in Seq(Records) /\ Len(queue') = Len(queue) + 1 /\ Len(queue) \in Nat
      /\ DOMAIN queue' = DOMAIN queue \cup {Len(queue) + 1}
      /\ \A k \in DOMAIN queue : queue'[k] = queue[k]
      /\ queue'[Len(queue) + 1] = r
      /\ DOMAIN queue = 1 .. Len(queue)
  BY <1>3
<1>5. BatchRecs' = BatchRecs /\ Clean' = Clean
  BY DEF BatchRecs, Clean
<1>6. QueueRecs' = QueueRecs \cup {r}
  BY <1>4 DEF QueueRecs
<1>7. Flight' = Flight \cup {r}
  BY <1>5, <1>6 DEF Flight
<1>8. /\ \A k \in DOMAIN queue : queue[k] \in Flight
      /\ \A k \in DOMAIN batch : batch[k].rec \in Flight
  BY DEF Flight, BatchRecs, QueueRecs
<1>9. Ordered
  BY DEF StoreIInv
<1>10. Ordered'
  <2>1. ASSUME NEW j \in DOMAIN queue', NEW k \in DOMAIN queue', j < k
        PROVE  queue'[j].op = "append" /\ (queue'[k].op = "append" => queue'[j].index < queue'[k].index)
    <3>1. j \in DOMAIN queue
      BY <1>4, <2>1
    <3>2. CASE k \in DOMAIN queue
      BY <1>4, <1>9, <2>1, <3>1, <3>2 DEF Ordered
    <3>3. CASE k = Len(queue) + 1
      BY <1>2, <1>4, <1>8, <3>1, <3>3
    <3> QED BY <1>4, <3>2, <3>3
  <2>2. ASSUME NEW j \in DOMAIN batch, NEW k \in DOMAIN queue'
        PROVE  /\ batch[j].rec.op = "append"
               /\ queue'[k].op = "append" => batch[j].rec.index < queue'[k].index
    <3>1. CASE k \in DOMAIN queue
      BY <1>4, <1>9, <3>1 DEF Ordered
    <3>2. CASE k = Len(queue) + 1
      BY <1>2, <1>4, <1>8, <3>2
    <3> QED BY <1>4, <3>1, <3>2
  <2> QED BY <1>9, <2>1, <2>2 DEF Ordered
<1> QED BY <1>1, <1>2, <1>4, <1>5, <1>6, <1>7, <1>10

LEMMA AppendEntryStep ==
    ASSUME StoreIInv, NEW t \in Terms, AppendEntry(t)
    PROVE  StoreIInv'
<1> DEFINE i == LastIndex(log) + 1
           r == [op |-> "append", index |-> i, term |-> t]
<1>1. /\ Ready /\ i \in Slots /\ Len(sm) < i
      /\ Len(queue) < Capacity /\ queue' = Append(queue, r)
      /\ log' = Put(log, i, t)
      /\ UNCHANGED <<meta, call, batch, sm, cur, images, half, built, stopped, file, synced,
                     dMeta, dState, dSnap, acked, promised, chosen>>
  BY DEF AppendEntry, Enqueue, diskVars, histVars
<1>2. r \in Records /\ r.op = "append" /\ r.index = i /\ r.term = t
  BY <1>1 DEF Records
<1>3. Live /\ StoreTypeOK /\ IsLog(log)
  BY <1>1 DEF StoreIInv, Ready
<1>4. LastIndex(log) \in 0 .. MaxEntries /\ log.purged <= LastIndex(log)
      /\ \A j \in DOMAIN log.ents : j <= LastIndex(log)
  BY <1>3, LastIndexFacts DEF Live, Memory
<1>5. /\ i \in Nat /\ log.purged < i /\ \A j \in DOMAIN log.ents : j < i
  <2>1. LastIndex(log) \in Nat /\ log.purged \in Nat /\ DOMAIN log.ents \subseteq Nat
    <3>1. log.purged \in Nat /\ DOMAIN log.ents \subseteq Nat /\ MaxEntries \in Nat
      BY <1>3, StoreNumbers
    <3> QED BY <1>4, <3>1
  <2> QED BY <1>4, <2>1
<1>6. log' = ApplyRecord(log, r)
  BY <1>1, <1>2 DEF ApplyRecord
<1> HIDE DEF i, r
<1>7. /\ IsLog(log') /\ log'.purged = log.purged
      /\ DOMAIN log'.ents = DOMAIN log.ents \cup {i}
      /\ log'.ents[i] = t
      /\ \A j \in DOMAIN log.ents : log'.ents[j] = log.ents[j]
  BY <1>2, <1>3, <1>5, <1>6, ApplyAppend
<1>8. \A s \in Flight : s.op = "append" /\ s.index < i
  <2>1. \A s \in Flight : s.op = "append"
    BY <1>1, <1>3, FlightTypes DEF Live, Locked, Ready
  <2> QED BY <1>3, <1>5, <2>1 DEF Live, Acks, Holds
<1>0. /\ log.purged \in Nat /\ DOMAIN acked \subseteq Nat /\ dMeta.committed \in Nat /\ Len(sm) \in Nat
      /\ DOMAIN log.ents \subseteq Nat
  BY <1>3, StoreNumbers
<1>9. \A j \in DOMAIN acked : j < i
  <2>1. \A j \in DOMAIN acked : j \in DOMAIN log.ents \/ j <= log.purged
    BY <1>3 DEF Live, Acks, Holds
  <2> QED BY <1>0, <1>5, <2>1
<1>10. dMeta.committed < i
  <2>1. dMeta.committed <= Len(sm) \/ dMeta.committed \in DOMAIN log.ents
    BY <1>3 DEF Live, Memory
  <2> QED BY <1>0, <1>1, <1>5, <2>1
<1>11. /\ queue' \in Seq(Records) /\ Len(queue') = Len(queue) + 1
       /\ BatchRecs' = BatchRecs /\ QueueRecs' = QueueRecs \cup {r}
       /\ Flight' = Flight \cup {r} /\ Clean' = Clean /\ Ordered'
  BY <1>1, <1>2, <1>8, Queued
<1>12. StoreTypeOK'
  <2>1. Len(queue') <= Capacity
    BY <1>1, <1>3, <1>11, StoreNumbers, StoreAssumption
  <2> QED BY <1>1, <1>3, <1>7, <1>11, <2>1 DEF StoreTypeOK, IsLog
<1>13. /\ CrashPoints' = CrashPoints /\ \A n : Recovered(n)' = Recovered(n)
       /\ Recovered(Len(file))' = Recovered(Len(file))
       /\ TornFrames(file, Len(file))' = TornFrames(file, Len(file))
  BY <1>1, SameFile
<1>14. Frames'
  BY <1>1, <1>2, <1>10, <1>11 DEF Frames, StoreIInv
<1>15. Journal'
  <2>1. ASSUME NEW n \in CrashPoints PROVE Recovered(n).purged < i
    <3>1. Recovered(n).purged = log.purged
      BY <1>1, <1>3, <1>8, JournalLogs DEF Reach, Flight, Ready
    <3> QED BY <1>5, <3>1
  <2> QED BY <1>1, <1>2, <1>11, <1>13, <2>1 DEF Journal, Durable, StoreIInv
<1>16. Prefixes' /\ Lengths' /\ Voting'
  BY <1>1 DEF Prefixes, Lengths, Voting, StoreIInv
<1>17. Locked'
  BY <1>1, <1>2, <1>3, <1>7, <1>11 DEF Live, Locked
<1>18. Memory'
  <2>1. \A j \in DOMAIN log'.ents : j <= dMeta.committed => j \in DOMAIN log.ents
    BY <1>0, <1>5, <1>7, <1>10
  <2> QED BY <1>1, <1>3, <1>5, <1>7, <2>1 DEF Live, Memory
<1>19. Acks'
  <2>1. \A s \in Flight : s # r
    BY <1>2, <1>5, <1>8
  <2> QED BY <1>1, <1>2, <1>3, <1>5, <1>7, <1>8, <1>9, <1>11 DEF Live, Acks, Holds
<1>20. Reaches'
  BY <1>1, <1>3, <1>5, <1>7, <1>11, <1>13 DEF Live, Reaches, Reach, Holds
<1>21. Kept' /\ Written'
  BY <1>1, <1>3, <1>11, <1>13 DEF Live, Kept, Written, Carried
<1> QED BY <1>7, <1>11, <1>12, <1>14, <1>15, <1>16, <1>17, <1>18, <1>19, <1>20, <1>21 DEF StoreIInv, Live

\* A full queue stops OpenRaft and changes nothing else.
LEMMA AppendRefusedStep ==
    ASSUME StoreIInv, AppendRefused
    PROVE  StoreIInv'
<1>1. /\ stopped' = TRUE
      /\ UNCHANGED <<log, meta, call, queue, batch, sm, cur, images, half, built, file, synced,
                     dMeta, dState, dSnap, acked, promised, chosen>>
  BY DEF AppendRefused, diskVars, histVars
<1>2. CrashPoints' = CrashPoints /\ \A n : Recovered(n)' = Recovered(n)
  BY <1>1, SameFile
<1>3. BatchRecs' = BatchRecs /\ QueueRecs' = QueueRecs /\ Flight' = Flight
  BY <1>1 DEF BatchRecs, QueueRecs, Flight
<1>4. StoreTypeOK' /\ IsLog(log')
  BY <1>1 DEF StoreIInv, StoreTypeOK
<1>5. Ordered' /\ Frames' /\ Prefixes' /\ Lengths' /\ Voting'
  BY <1>1, <1>3 DEF StoreIInv, Ordered, Frames, Prefixes, Lengths, Voting
<1>6. Journal'
  BY <1>1, <1>2, <1>3 DEF StoreIInv, Journal, Durable
<1> QED BY <1>1, <1>4, <1>5, <1>6 DEF StoreIInv

LEMMA TruncateStep ==
    ASSUME StoreIInv, NEW i \in Slots, Truncate(i)
    PROVE  StoreIInv'
<1> DEFINE r == [op |-> "truncate", index |-> i]
<1>1. /\ Ready /\ i \in DOMAIN log.ents /\ meta.committed < i /\ Len(sm) < i
      /\ Len(queue) < Capacity /\ queue' = Append(queue, r)
      /\ call' = "truncate" /\ acked' = Within(acked, 0 .. (i - 1))
      /\ UNCHANGED <<log, meta, batch, sm, cur, images, half, built, stopped, file, synced,
                     dMeta, dState, dSnap, promised, chosen>>
  BY DEF Truncate, Enqueue, diskVars
<1>2. r \in Records /\ r.op = "truncate" /\ r.index = i
  BY <1>1 DEF Records
<1> HIDE DEF r
<1>3. Live /\ StoreTypeOK /\ IsLog(log) /\ call = "none"
  BY <1>1 DEF StoreIInv, Ready
<1>4. /\ queue' \in Seq(Records) /\ Len(queue') = Len(queue) + 1
      /\ BatchRecs' = BatchRecs /\ QueueRecs' = QueueRecs \cup {r}
      /\ Flight' = Flight \cup {r} /\ Clean' = Clean /\ Ordered'
      /\ \A s \in Flight : s.op = "append"
  BY <1>1, <1>2, Queued
<1>5. /\ i \in Nat /\ DOMAIN acked' \subseteq DOMAIN acked
      /\ \A j \in DOMAIN acked : j \in DOMAIN acked' <=> j < i
      /\ \A j \in DOMAIN acked' : acked'[j] = acked[j] /\ j < i
  <2>1. i \in Nat /\ DOMAIN acked \subseteq Nat
    BY <1>3, StoreNumbers
  <2>2. acked' = [j \in DOMAIN acked \cap (0 .. (i - 1)) |-> acked[j]]
    BY <1>1 DEF Within
  <2>3. DOMAIN acked' = DOMAIN acked \cap (0 .. (i - 1))
    BY <2>2
  <2> QED BY <2>1, <2>2, <2>3
<1>6. StoreTypeOK'
  <2>1. Len(queue') <= Capacity
    BY <1>1, <1>3, <1>4, StoreNumbers, StoreAssumption
  <2> QED BY <1>1, <1>3, <1>4, <1>5, <2>1 DEF StoreTypeOK
<1>7. /\ CrashPoints' = CrashPoints /\ \A n : Recovered(n)' = Recovered(n)
      /\ Recovered(Len(file))' = Recovered(Len(file))
      /\ TornFrames(file, Len(file))' = TornFrames(file, Len(file))
  BY <1>1, SameFile
<1>8. meta = dMeta
  BY <1>3 DEF Live, Locked
<1>9. Frames'
  BY <1>1, <1>2, <1>4, <1>8 DEF Frames, StoreIInv
<1>10. Journal'
  BY <1>1, <1>2, <1>4, <1>7 DEF Journal, Durable, StoreIInv
<1>11. Prefixes' /\ Lengths' /\ Voting'
  BY <1>1 DEF Prefixes, Lengths, Voting, StoreIInv
<1>12. Locked'
  <2>1. \A k \in DOMAIN images : images[k].by # "install"
    BY <1>3 DEF Live, Locked
  <2> QED BY <1>1, <1>2, <1>4, <1>5, <1>8, <2>1 DEF Locked
<1>13. Memory'
  BY <1>1, <1>3 DEF Live, Memory
<1>14. Acks'
  <2>1. \A s \in Flight' : s.op = "append" => s \in Flight
    BY <1>2, <1>4
  <2>2. ASSUME NEW j \in DOMAIN log.ents
        PROVE  \/ j \in DOMAIN acked'
               \/ \E s \in Flight' : s.op = "append" /\ s.index = j
               \/ \E s \in Flight' : s.op = "truncate" /\ s.index <= j
    <3>1. j \in DOMAIN acked \/ \E s \in Flight : s.op = "append" /\ s.index = j
      BY <1>3, <1>4 DEF Live, Acks
    <3>2. j \in Nat
      BY <1>3, StoreNumbers
    <3> QED BY <1>2, <1>4, <1>5, <3>1, <3>2
  <2> QED BY <1>1, <1>3, <1>5, <2>1, <2>2 DEF Live, Acks
<1>15. Reaches'
  BY <1>1, <1>3, <1>4, <1>5, <1>7 DEF Live, Reaches, Reach
<1>16. Kept'
  <2>1. ASSUME NEW j \in 1 .. Len(sm), j \in DOMAIN acked, acked[j] = sm[j]
        PROVE  j \in DOMAIN acked' /\ acked'[j] = sm[j]
    <3>1. j < i
      BY <1>1, <1>3, <1>5, StoreNumbers
    <3> QED BY <1>5, <2>1, <3>1
  <2> QED BY <1>1, <1>3, <2>1 DEF Live, Kept
<1>17. Written'
  BY <1>1, <1>3, <1>4, <1>7 DEF Live, Written, Carried
<1> QED BY <1>1, <1>3, <1>4, <1>6, <1>9, <1>10, <1>11, <1>12, <1>13, <1>14, <1>15, <1>16, <1>17
        DEF StoreIInv, Live

LEMMA PurgeStep ==
    ASSUME StoreIInv, NEW i \in Slots, Purge(i)
    PROVE  StoreIInv'
<1> DEFINE r == [op |-> "purge", index |-> i]
<1>1. /\ Ready /\ log.purged < i /\ i <= Len(cur)
      /\ Len(queue) < Capacity /\ queue' = Append(queue, r)
      /\ call' = "purge"
      /\ UNCHANGED <<log, meta, batch, sm, cur, images, half, built, stopped, file, synced,
                     dMeta, dState, dSnap, acked, promised, chosen>>
  BY DEF Purge, Enqueue, diskVars, histVars
<1>2. r \in Records /\ r.op = "purge" /\ r.index = i
  BY <1>1 DEF Records
<1> HIDE DEF r
<1>3. Live /\ StoreTypeOK /\ IsLog(log) /\ call = "none"
  BY <1>1 DEF StoreIInv, Ready
<1>4. /\ queue' \in Seq(Records) /\ Len(queue') = Len(queue) + 1
      /\ BatchRecs' = BatchRecs /\ QueueRecs' = QueueRecs \cup {r}
      /\ Flight' = Flight \cup {r} /\ Clean' = Clean /\ Ordered'
      /\ \A s \in Flight : s.op = "append"
  BY <1>1, <1>2, Queued
<1>5. i \in Nat /\ i <= Len(dState)
  BY <1>1, <1>3, StoreNumbers DEF StoreIInv, Lengths
<1>6. StoreTypeOK'
  <2>1. Len(queue') <= Capacity
    BY <1>1, <1>3, <1>4, StoreNumbers, StoreAssumption
  <2> QED BY <1>1, <1>3, <1>4, <2>1 DEF StoreTypeOK
<1>7. /\ CrashPoints' = CrashPoints /\ \A n : Recovered(n)' = Recovered(n)
      /\ Recovered(Len(file))' = Recovered(Len(file))
      /\ TornFrames(file, Len(file))' = TornFrames(file, Len(file))
  BY <1>1, SameFile
<1>8. meta = dMeta
  BY <1>3 DEF Live, Locked
<1>9. Frames'
  BY <1>1, <1>2, <1>4, <1>5 DEF Frames, StoreIInv
<1>10. Journal'
  BY <1>1, <1>2, <1>4, <1>7 DEF Journal, Durable, StoreIInv
<1>11. Prefixes' /\ Lengths' /\ Voting'
  BY <1>1 DEF Prefixes, Lengths, Voting, StoreIInv
<1>12. Locked'
  <2>1. \A k \in DOMAIN images : images[k].by # "install"
    BY <1>3 DEF Live, Locked
  <2> QED BY <1>1, <1>2, <1>4, <1>8, <2>1 DEF Locked
<1>13. Memory' /\ Kept'
  BY <1>1, <1>3 DEF Live, Memory, Kept
<1>14. Acks'
  <2>1. \A s \in Flight' : s.op = "append" => s \in Flight
    BY <1>2, <1>4
  <2>2. Flight \subseteq Flight'
    BY <1>4
  <2> QED BY <1>1, <1>3, <2>1, <2>2 DEF Live, Acks
<1>15. Reaches'
  BY <1>1, <1>3, <1>4, <1>7 DEF Live, Reaches, Reach
<1>17. Written'
  BY <1>1, <1>3, <1>4, <1>7 DEF Live, Written, Carried
<1> QED BY <1>1, <1>3, <1>4, <1>6, <1>9, <1>10, <1>11, <1>12, <1>13, <1>14, <1>15, <1>17
        DEF StoreIInv, Live

LEMMA SaveVoteStep ==
    ASSUME StoreIInv, NEW v \in Votes, SaveVote(v)
    PROVE  StoreIInv'
<1>1. /\ Ready /\ AtMost(meta.vote, v) /\ dMeta' = [meta EXCEPT !.vote = v] /\ call' = "meta"
      /\ UNCHANGED <<log, meta, queue, batch, sm, cur, images, half, built, stopped, file, synced,
                     dState, dSnap, acked, promised, chosen>>
  BY DEF SaveVote, SaveMeta, histVars
<1>2. Live /\ StoreTypeOK /\ IsLog(log) /\ call = "none"
  BY <1>1 DEF StoreIInv, Ready
<1>3. meta = dMeta
  BY <1>2 DEF Live, Locked
<1>4. /\ dMeta' \in [vote : Votes, committed : 0..MaxEntries] /\ dMeta'.vote = v
      /\ dMeta'.committed = dMeta.committed
  BY <1>1, <1>2, <1>3 DEF StoreTypeOK
<1>5. /\ CrashPoints' = CrashPoints /\ \A n : Recovered(n)' = Recovered(n)
      /\ Recovered(Len(file))' = Recovered(Len(file))
      /\ TornFrames(file, Len(file))' = TornFrames(file, Len(file))
  BY <1>1, SameFile
<1>6. BatchRecs' = BatchRecs /\ QueueRecs' = QueueRecs /\ Flight' = Flight /\ Clean' = Clean
  BY <1>1 DEF BatchRecs, QueueRecs, Flight, Clean
<1>7. StoreTypeOK' /\ IsLog(log')
  BY <1>1, <1>2, <1>4 DEF StoreTypeOK
<1>8. Ordered' /\ Frames' /\ Prefixes' /\ Lengths'
  BY <1>1, <1>4, <1>6 DEF StoreIInv, Ordered, Frames, Prefixes, Lengths
<1>9. Voting'
  BY <1>1, <1>4 DEF StoreIInv, Voting
<1>10. Journal'
  BY <1>1, <1>4, <1>5, <1>6 DEF StoreIInv, Journal, Durable
<1>11. Locked'
  <2>1. \A r \in Flight : r.op = "append"
    BY <1>2, FlightTypes DEF Live, Locked
  <2>2. \A k \in DOMAIN images : images[k].by # "install"
    BY <1>2 DEF Live, Locked
  <2> QED BY <1>1, <1>6, <2>1, <2>2 DEF Locked
<1>12. Memory' /\ Acks' /\ Kept'
  BY <1>1, <1>2, <1>4, <1>6 DEF Live, Memory, Acks, Kept
<1>13. Reaches' /\ Written'
  BY <1>1, <1>2, <1>5, <1>6 DEF Live, Reaches, Reach, Written, Carried
<1> QED BY <1>7, <1>8, <1>9, <1>10, <1>11, <1>12, <1>13 DEF StoreIInv, Live


\* What is a prefix of the committed entries stays one when they grow.
LEMMA PrefixesGrow ==
    ASSUME StoreTypeOK, Prefixes, chosen' \in States, PrefixOf(chosen, chosen'),
           UNCHANGED <<sm, cur, dState, dSnap, built, images>>
    PROVE  Prefixes'
<1>1. ASSUME NEW s \in States, PrefixOf(s, chosen)
      PROVE  PrefixOf(s, chosen')
  <2>1. Len(s) \in Nat /\ Len(chosen) \in Nat /\ Len(chosen') \in Nat
    <3>1. chosen \in States
      BY DEF StoreTypeOK
    <3> QED BY <3>1 DEF States
  <2> QED BY <1>1, <2>1 DEF PrefixOf
<1>2. \A k \in DOMAIN images : images[k].data \in States
  <2>1. images \in Seq([by : {"build", "install"}, data : States])
    BY DEF StoreTypeOK
  <2>2. \A k \in DOMAIN images : images[k] \in [by : {"build", "install"}, data : States]
    BY <2>1, Elements
  <2> QED BY <2>2
<1> QED BY <1>1, <1>2 DEF Prefixes, StoreTypeOK

LEMMA SaveCommittedStep ==
    ASSUME StoreIInv, NEW i \in Slots, SaveCommitted(i)
    PROVE  StoreIInv'
<1>1. /\ Ready /\ meta.committed < i /\ i \in DOMAIN acked
      /\ \A j \in DOMAIN log.ents : j <= Len(chosen) /\ j <= i => log.ents[j] = chosen[j]
      /\ \A j \in (Len(chosen) + 1) .. i : j \in DOMAIN log.ents
      /\ dMeta' = [meta EXCEPT !.committed = i] /\ call' = "meta"
      /\ chosen' = IF i <= Len(chosen) THEN chosen
                   ELSE [j \in 1..i |-> IF j <= Len(chosen) THEN chosen[j] ELSE log.ents[j]]
      /\ UNCHANGED <<log, meta, queue, batch, sm, cur, images, half, built, stopped, file, synced,
                     dState, dSnap, acked, promised>>
  BY DEF SaveCommitted, SaveMeta
<1>2. Live /\ StoreTypeOK /\ IsLog(log) /\ call = "none"
  BY <1>1 DEF StoreIInv, Ready
<1>3. meta = dMeta
  BY <1>2 DEF Live, Locked
<1>4. /\ dMeta' \in [vote : Votes, committed : 0..MaxEntries] /\ dMeta'.vote = dMeta.vote
      /\ dMeta'.committed = i /\ i \in Nat /\ i > 0 /\ i <= MaxEntries
  <2>1. i \in Nat /\ i > 0 /\ i <= MaxEntries /\ i \in 0 .. MaxEntries
    BY StoreAssumption DEF Slots
  <2>2. meta \in [vote : Votes, committed : 0..MaxEntries]
    BY <1>2 DEF StoreTypeOK
  <2> QED BY <1>1, <1>3, <2>1, <2>2
<1>5. /\ CrashPoints' = CrashPoints /\ \A n : Recovered(n)' = Recovered(n)
      /\ Recovered(Len(file))' = Recovered(Len(file))
      /\ TornFrames(file, Len(file))' = TornFrames(file, Len(file))
  BY <1>1, SameFile
<1>6. BatchRecs' = BatchRecs /\ QueueRecs' = QueueRecs /\ Flight' = Flight /\ Clean' = Clean
  BY <1>1 DEF BatchRecs, QueueRecs, Flight, Clean
<1>7. /\ chosen' \in States /\ PrefixOf(chosen, chosen') /\ i <= Len(chosen')
      /\ \A j \in DOMAIN log.ents : j <= i => log.ents[j] = chosen'[j]
  <2>1. Len(chosen) \in Nat /\ chosen \in Seq(Terms) /\ chosen \in States
    BY <1>2 DEF StoreTypeOK, States
  <2>2. /\ DOMAIN log.ents \subseteq 1 .. MaxEntries
        /\ \A j \in DOMAIN log.ents : log.ents[j] \in Terms
    BY <1>2 DEF StoreTypeOK, Slots
  <2>3. CASE i <= Len(chosen)
    BY <1>1, <1>4, <2>1, <2>2, <2>3, StoreAssumption DEF PrefixOf
  <2>4. CASE ~ i <= Len(chosen)
    <3> DEFINE c == [j \in 1..i |-> IF j <= Len(chosen) THEN chosen[j] ELSE log.ents[j]]
    <3>1. \A j \in 1 .. i : c[j] \in Terms
      BY <1>1, <1>4, <2>1, <2>2
    <3>2. c \in Seq(Terms) /\ Len(c) = i
      BY <1>4, <3>1
    <3>3. \A j \in DOMAIN log.ents : j <= i => log.ents[j] = c[j]
      BY <1>1, <1>4, <2>1, <2>2, StoreAssumption
    <3>4. PrefixOf(chosen, c)
      BY <1>4, <2>1, <2>4, <3>2 DEF PrefixOf
    <3>5. chosen' = c
      BY <1>1, <2>4
    <3> HIDE DEF c
    <3> QED BY <1>4, <3>2, <3>3, <3>4, <3>5 DEF States
  <2> QED BY <2>3, <2>4
<1>8. StoreTypeOK' /\ IsLog(log')
  BY <1>1, <1>2, <1>4, <1>7 DEF StoreTypeOK
<1>9. Ordered' /\ Voting'
  BY <1>1, <1>4 DEF StoreIInv, Ordered, Voting
<1>10. \A r \in Flight : r.op = "append" /\ i < r.index
  <2>1. \A r \in Flight : r.op = "append"
    BY <1>2, FlightTypes DEF Live, Locked
  <2> QED BY <1>1, <1>2, <2>1 DEF Live, Acks
<1>11. Frames'
  BY <1>1, <1>4, <1>6, <1>10 DEF Frames
<1>12. Prefixes'
  BY <1>1, <1>2, <1>7, PrefixesGrow DEF StoreIInv
<1>13. Lengths'
  <2>1. meta.committed <= dMeta'.committed /\ dMeta'.committed <= Len(chosen')
    BY <1>1, <1>2, <1>4, <1>7, StoreNumbers
  <2> QED BY <1>1, <2>1 DEF StoreIInv, Lengths
<1>14. Journal'
  <2> SUFFICES ASSUME NEW n \in CrashPoints PROVE Durable(Recovered(n))'
    BY <1>5 DEF Journal
  <2> DEFINE l == Recovered(n)
  <2>1. /\ Durable(l) /\ Reach(l) /\ l.purged \in Nat /\ DOMAIN l.ents \subseteq Nat
    BY <1>1, JournalLogs DEF Ready
  <2>2. Recovered(n)' = l
    BY <1>5
  <2> HIDE DEF l
  <2>3. i <= Len(dState) \/ i \in DOMAIN l.ents
    <3>1. Len(dState) \in Nat /\ l.purged <= Len(dState)
      BY <1>2, <2>1, StoreNumbers DEF Durable
    <3> QED BY <1>1, <1>4, <2>1, <3>1 DEF Reach, Holds
  <2>4. \A j \in DOMAIN l.ents : j <= i => l.ents[j] = chosen'[j]
    BY <1>7, <2>1 DEF Reach, Holds
  <2> QED BY <1>1, <1>4, <1>6, <2>1, <2>2, <2>3, <2>4 DEF Durable
<1>15. Locked'
  <2>2. \A k \in DOMAIN images : images[k].by # "install"
    BY <1>2 DEF Live, Locked
  <2> QED BY <1>1, <1>6, <1>10, <2>2 DEF Locked
<1>16. Memory'
  <2>1. i <= Len(sm) \/ i \in DOMAIN log.ents
    <3>1. i \in DOMAIN log.ents \/ i <= log.purged
      BY <1>1, <1>2 DEF Live, Acks, Holds
    <3>2. log.purged <= Len(dState) /\ Len(dState) <= Len(sm)
      BY <1>2 DEF StoreIInv, Live, Memory, Lengths
    <3> QED BY <1>2, <1>4, <3>1, <3>2, StoreNumbers
  <2> QED BY <1>1, <1>2, <1>4, <1>7, <2>1 DEF Live, Memory
<1>17. Acks' /\ Kept'
  BY <1>1, <1>2, <1>6 DEF Live, Acks, Kept
<1>18. Reaches' /\ Written'
  BY <1>1, <1>2, <1>5, <1>6 DEF Live, Reaches, Reach, Written, Carried
<1> QED BY <1>8, <1>9, <1>11, <1>12, <1>13, <1>14, <1>15, <1>16, <1>17, <1>18 DEF StoreIInv, Live

LEMMA AtMostItself == \A v : AtMost(v, v)
BY DEF AtMost

LEMMA MetaReturnStep ==
    ASSUME StoreIInv, MetaReturn
    PROVE  StoreIInv'
<1>1. /\ call = "meta" /\ call' = "none" /\ meta' = dMeta /\ promised' = dMeta.vote
      /\ UNCHANGED <<log, queue, batch, sm, cur, images, half, built, stopped, file, synced,
                     dMeta, dState, dSnap, acked, chosen>>
  BY DEF MetaReturn, diskVars
<1>2. StoreTypeOK /\ IsLog(log) /\ (~stopped => Live)
  BY DEF StoreIInv
<1>3. /\ CrashPoints' = CrashPoints /\ \A n : Recovered(n)' = Recovered(n)
      /\ Recovered(Len(file))' = Recovered(Len(file))
      /\ TornFrames(file, Len(file))' = TornFrames(file, Len(file))
  BY <1>1, SameFile
<1>4. BatchRecs' = BatchRecs /\ QueueRecs' = QueueRecs /\ Flight' = Flight /\ Clean' = Clean
  BY <1>1 DEF BatchRecs, QueueRecs, Flight, Clean
<1>5. StoreTypeOK' /\ IsLog(log')
  <2>1. dMeta.vote \in Votes
    BY <1>2 DEF StoreTypeOK
  <2> QED BY <1>1, <1>2, <2>1 DEF StoreTypeOK
<1>6. Ordered' /\ Frames' /\ Prefixes'
  BY <1>1, <1>4 DEF StoreIInv, Ordered, Frames, Prefixes
<1>7. Lengths'
  <2>1. dMeta.committed \in Nat
    BY <1>2, StoreNumbers
  <2> QED BY <1>1, <2>1 DEF StoreIInv, Lengths
<1>8. Voting'
  BY <1>1, AtMostItself DEF Voting
<1>9. Journal'
  BY <1>1, <1>3, <1>4 DEF StoreIInv, Journal, Durable
<1>10. ASSUME ~stopped' PROVE Live'
  <2>1. Live
    BY <1>1, <1>2, <1>10
  <2>2. \A r \in Flight : r.op = "append"
    BY <1>1, <1>2, <2>1, FlightTypes DEF Live, Locked
  <2>3. Locked'
    BY <1>1, <1>4, <2>1, <2>2 DEF Live, Locked
  <2>4. Memory' /\ Acks' /\ Kept'
    BY <1>1, <1>4, <2>1 DEF Live, Memory, Acks, Kept
  <2>5. Reaches' /\ Written'
    BY <1>1, <1>3, <1>4, <2>1 DEF Live, Reaches, Reach, Written, Carried
  <2> QED BY <2>3, <2>4, <2>5 DEF Live
<1> QED BY <1>5, <1>6, <1>7, <1>8, <1>9, <1>10 DEF StoreIInv

\* The metadata file is the old one or the new one, and OpenRaft stops.
LEMMA MetaFailsStep ==
    ASSUME StoreIInv, MetaFails
    PROVE  StoreIInv'
<1>1. /\ call' = "none" /\ stopped' = TRUE /\ dMeta' \in {meta, dMeta}
      /\ UNCHANGED <<log, meta, queue, batch, sm, cur, images, half, built, file, synced,
                     dState, dSnap, acked, promised, chosen>>
  BY DEF MetaFails
<1>2. StoreTypeOK /\ IsLog(log)
  BY DEF StoreIInv
<1>3. /\ CrashPoints' = CrashPoints /\ \A n : Recovered(n)' = Recovered(n)
  BY <1>1, SameFile
<1>4. BatchRecs' = BatchRecs /\ QueueRecs' = QueueRecs /\ Flight' = Flight
  BY <1>1 DEF BatchRecs, QueueRecs, Flight
<1>5. StoreTypeOK' /\ IsLog(log')
  BY <1>1, <1>2 DEF StoreTypeOK
<1>6. /\ dMeta'.committed \in Nat /\ dMeta'.committed <= dMeta.committed
      /\ meta.committed <= dMeta'.committed
      /\ dMeta'.committed \in {meta.committed, dMeta.committed}
  BY <1>1, <1>2, StoreNumbers DEF StoreIInv, Lengths
<1>7. Ordered' /\ Prefixes'
  BY <1>1 DEF StoreIInv, Ordered, Prefixes
<1>8. Frames'
  <2>1. dMeta.committed \in Nat /\ \A r \in Flight : r.index \in Nat
    BY <1>2, FlightTypes, StoreNumbers
  <2>2. \A r \in Flight : dMeta.committed < r.index => dMeta'.committed < r.index
    BY <1>6, <2>1
  <2> QED BY <1>1, <1>4, <2>2 DEF StoreIInv, Frames
<1>9. Lengths'
  <2>1. dMeta'.committed <= Len(chosen)
    BY <1>2, <1>6, StoreNumbers DEF StoreIInv, Lengths
  <2> QED BY <1>1, <1>6, <2>1 DEF StoreIInv, Lengths
<1>10. Voting'
  BY <1>1, AtMostItself DEF StoreIInv, Voting
<1>11. Journal'
  <2> SUFFICES ASSUME NEW n \in CrashPoints PROVE Durable(Recovered(n))'
    BY <1>3 DEF Journal
  <2> DEFINE l == Recovered(n)
  <2>1. Durable(l) /\ DOMAIN l.ents \subseteq Nat
    BY JournalLogs
  <2>2. Recovered(n)' = l
    BY <1>3
  <2> HIDE DEF l
  <2>3. \A j \in DOMAIN l.ents : j <= dMeta'.committed => l.ents[j] = chosen[j]
    <3>1. \A j \in DOMAIN l.ents : j <= dMeta'.committed => j <= dMeta.committed
      <4>1. dMeta.committed \in Nat
        BY <1>2, StoreNumbers
      <4> QED BY <1>6, <2>1, <4>1
    <3> QED BY <2>1, <3>1 DEF Durable
  <2> QED BY <1>1, <1>4, <1>6, <2>1, <2>2, <2>3 DEF Durable
<1> QED BY <1>1, <1>5, <1>7, <1>8, <1>9, <1>10, <1>11 DEF StoreIInv

-----------------------------------------------------------------------------
\* The actor takes the head of the queue into its batch.

LEMMA Dequeued ==
    ASSUME StoreIInv, queue # <<>>, queue' = Tail(queue), NEW b \in BOOLEAN,
           batch' = Append(batch, [rec |-> Head(queue), ok |-> b])
    PROVE  /\ Head(queue) \in Records /\ Head(queue) \in QueueRecs
           /\ queue' \in Seq(Records) /\ Len(queue') = Len(queue) - 1
           /\ batch' \in Seq([rec : Records, ok : BOOLEAN]) /\ Len(batch') = Len(batch) + 1
           /\ BatchRecs' = BatchRecs \cup {Head(queue)} /\ QueueRecs' \subseteq QueueRecs
           /\ Flight' = Flight
           /\ Clean' <=> Clean /\ b
           /\ \A s \in BatchRecs : /\ s.op = "append"
                                   /\ Head(queue).op = "append" => s.index < Head(queue).index
           /\ QueueRecs' # {} => Head(queue).op = "append"
           /\ Ordered'
<1> DEFINE r == Head(queue)
           R == [rec : Records, ok : BOOLEAN]
<1>1. queue \in Seq(Records) /\ batch \in Seq(R) /\ Ordered
  BY DEF StoreIInv, StoreTypeOK
<1>2. /\ Len(queue) \in Nat /\ Len(queue) > 0 /\ DOMAIN queue = 1 .. Len(queue)
      /\ r = queue[1] /\ r \in Records /\ 1 \in DOMAIN queue
      /\ queue' \in Seq(Records) /\ Len(queue') = Len(queue) - 1
      /\ DOMAIN queue' = 1 .. (Len(queue) - 1)
      /\ \A k \in DOMAIN queue' : queue'[k] = queue[k + 1]
  BY <1>1
<1>3. /\ Len(batch) \in Nat /\ DOMAIN batch = 1 .. Len(batch)
      /\ batch' \in Seq(R) /\ Len(batch') = Len(batch) + 1
      /\ DOMAIN batch' = 1 .. (Len(batch) + 1)
      /\ \A k \in DOMAIN batch : batch'[k] = batch[k]
      /\ batch'[Len(batch) + 1] = [rec |-> r, ok |-> b]
  BY <1>1, <1>2
<1> HIDE DEF r, R
<1>4. BatchRecs' = BatchRecs \cup {r}
  <2>1. DOMAIN batch' = DOMAIN batch \cup {Len(batch) + 1}
    BY <1>3
  <2>2. batch'[Len(batch) + 1].rec = r
    BY <1>3
  <2> QED BY <1>3, <2>1, <2>2 DEF BatchRecs
<1>5. Clean' <=> Clean /\ b
  <2>1. DOMAIN batch' = DOMAIN batch \cup {Len(batch) + 1}
    BY <1>3
  <2>2. batch'[Len(batch) + 1].ok = b
    BY <1>3
  <2> QED BY <1>3, <2>1, <2>2 DEF Clean
<1>6. QueueRecs = QueueRecs' \cup {r}
  <2>1. ASSUME NEW k \in DOMAIN queue PROVE queue[k] \in QueueRecs' \cup {r}
    <3>1. CASE k = 1
      BY <1>2, <3>1
    <3>2. CASE k # 1
      <4>1. k - 1 \in DOMAIN queue' /\ (k - 1) + 1 = k
        BY <1>2, <3>2
      <4>2. queue'[k - 1] = queue[k]
        BY <1>2, <4>1
      <4> QED BY <4>1, <4>2 DEF QueueRecs
    <3> QED BY <3>1, <3>2
  <2>2. ASSUME NEW k \in DOMAIN queue' PROVE queue'[k] \in QueueRecs
    <3>1. k + 1 \in DOMAIN queue
      BY <1>2
    <3> QED BY <1>2, <3>1 DEF QueueRecs
  <2>3. QueueRecs \subseteq QueueRecs' \cup {r}
    BY <2>1 DEF QueueRecs
  <2>4. QueueRecs' \subseteq QueueRecs
    BY <2>2 DEF QueueRecs
  <2>5. r \in QueueRecs
    BY <1>2 DEF QueueRecs
  <2> QED BY <2>3, <2>4, <2>5
<1>7. Flight' = Flight
  BY <1>4, <1>6 DEF Flight
<1>8. \A s \in BatchRecs : s.op = "append" /\ (r.op = "append" => s.index < r.index)
  BY <1>1, <1>2 DEF Ordered, BatchRecs
<1>9. QueueRecs' # {} => r.op = "append"
  <2> SUFFICES ASSUME NEW k \in DOMAIN queue' PROVE r.op = "append"
    BY DEF QueueRecs
  <2>1. k + 1 \in DOMAIN queue /\ 1 < k + 1
    BY <1>2
  <2> QED BY <1>1, <1>2, <2>1 DEF Ordered
<1>10. Ordered'
  <2>1. ASSUME NEW j \in DOMAIN queue', NEW k \in DOMAIN queue', j < k
        PROVE  queue'[j].op = "append" /\ (queue'[k].op = "append" => queue'[j].index < queue'[k].index)
    <3>1. j + 1 \in DOMAIN queue /\ k + 1 \in DOMAIN queue /\ j + 1 < k + 1
      BY <1>2, <2>1
    <3> QED BY <1>1, <1>2, <3>1 DEF Ordered
  <2>2. ASSUME NEW j \in DOMAIN batch', NEW k \in DOMAIN batch', j < k
        PROVE  /\ batch'[j].rec.op = "append"
               /\ batch'[k].rec.op = "append" => batch'[j].rec.index < batch'[k].rec.index
    <3>1. j \in DOMAIN batch
      BY <1>3, <2>2
    <3>2. CASE k \in DOMAIN batch
      BY <1>1, <1>3, <2>2, <3>1, <3>2 DEF Ordered
    <3>3. CASE k = Len(batch) + 1
      <4>1. batch'[k].rec = queue[1]
        BY <1>2, <1>3, <3>3
      <4>2. batch'[j] = batch[j] /\ 1 \in DOMAIN queue
        BY <1>2, <1>3, <3>1
      <4> QED BY <1>1, <3>1, <4>1, <4>2 DEF Ordered
    <3> QED BY <1>3, <3>2, <3>3
  <2>3. ASSUME NEW j \in DOMAIN batch', NEW k \in DOMAIN queue'
        PROVE  /\ batch'[j].rec.op = "append"
               /\ queue'[k].op = "append" => batch'[j].rec.index < queue'[k].index
    <3>1. k + 1 \in DOMAIN queue /\ 1 < k + 1 /\ queue'[k] = queue[k + 1]
      BY <1>2
    <3>2. CASE j \in DOMAIN batch
      BY <1>1, <1>3, <3>1, <3>2 DEF Ordered
    <3>3. CASE j = Len(batch) + 1
      <4>1. batch'[j].rec = queue[1]
        BY <1>2, <1>3, <3>3
      <4> QED BY <1>1, <1>2, <3>1, <4>1 DEF Ordered
    <3> QED BY <1>3, <3>2, <3>3
  <2> QED BY <2>1, <2>2, <2>3 DEF Ordered
<1> QED BY <1>2, <1>3, <1>4, <1>5, <1>6, <1>7, <1>8, <1>9, <1>10 DEF r, R

\* The head of the queue leads a log that a crash may leave to another.
LEMMA WriteDurable ==
    ASSUME StoreIInv, NEW w, Durable(w), NEW r \in Records, r \in QueueRecs,
           QueueRecs' \subseteq QueueRecs, QueueRecs' # {} => r.op = "append",
           UNCHANGED <<meta, dMeta, dState, chosen>>
    PROVE  Durable(ApplyRecord(w, r))'
<1> DEFINE m == ApplyRecord(w, r)
<1>1. /\ StoreTypeOK /\ IsLog(w) /\ \A i \in DOMAIN w.ents : w.purged < i
      /\ w.purged <= Len(dState)
  BY DEF StoreIInv, Durable
<1>2. /\ w.purged \in Nat /\ DOMAIN w.ents \subseteq Nat /\ Len(dState) \in Nat
      /\ meta.committed \in Nat /\ dMeta.committed \in Nat /\ r.index \in Nat
      /\ meta.committed <= dMeta.committed /\ r.index \in 0 .. MaxEntries
  <2>1. w.purged \in Nat /\ DOMAIN w.ents \subseteq Nat
    BY <1>1, LogNumbers
  <2>2. Len(dState) \in Nat /\ meta.committed \in Nat /\ dMeta.committed \in Nat /\ MaxEntries \in Nat
    BY <1>1, StoreNumbers
  <2>3. r.index \in Nat /\ r.index <= MaxEntries
    BY RecordFacts
  <2>4. meta.committed <= dMeta.committed
    BY DEF StoreIInv, Lengths
  <2> QED BY <2>1, <2>2, <2>3, <2>4
<1>3. /\ r.op # "purge" => dMeta.committed < r.index
      /\ r.op = "purge" => r.index <= Len(dState)
  BY DEF StoreIInv, Frames, Flight
<1>4. CASE r.op = "append"
  <2>1. /\ IsLog(m) /\ m.purged = w.purged
        /\ DOMAIN m.ents = DOMAIN w.ents \cup {r.index}
        /\ \A i \in DOMAIN w.ents : i # r.index => m.ents[i] = w.ents[i]
    BY <1>1, <1>4, ApplyAppend
  <2>2. w.purged < r.index
    BY <1>4 DEF Durable
  <2> HIDE DEF m
  <2>3. Durable(m)'
    BY <1>1, <1>2, <1>3, <1>4, <2>1, <2>2 DEF Durable
  <2> QED BY <2>3 DEF m
<1>5. CASE r.op = "truncate"
  <2>1. /\ IsLog(m) /\ m.purged = w.purged
        /\ \A i : i \in DOMAIN m.ents <=> i \in DOMAIN w.ents /\ i < r.index
        /\ \A i \in DOMAIN m.ents : m.ents[i] = w.ents[i]
    BY <1>1, <1>5, ApplyTruncate
  <2> HIDE DEF m
  <2>2. QueueRecs' = {}
    BY <1>5
  <2>3. Durable(m)'
    BY <1>1, <1>2, <1>3, <1>5, <2>1, <2>2 DEF Durable
  <2> QED BY <2>3 DEF m
<1>6. CASE r.op = "purge"
  <2>1. /\ IsLog(m) /\ m.purged = r.index
        /\ \A i : i \in DOMAIN m.ents <=> i \in DOMAIN w.ents /\ r.index < i
        /\ \A i \in DOMAIN m.ents : m.ents[i] = w.ents[i]
    BY <1>1, <1>2, <1>6, ApplyPurge
  <2> HIDE DEF m
  <2>2. QueueRecs' = {}
    BY <1>6
  <2>3. Durable(m)'
    BY <1>1, <1>2, <1>3, <1>6, <2>1, <2>2 DEF Durable
  <2> QED BY <2>3 DEF m
<1> QED BY <1>4, <1>5, <1>6, RecordFacts

LEMMA WriteReach ==
    ASSUME StoreIInv, Live, NEW w, IsLog(w), Reach(w), NEW r \in Records, r \in QueueRecs,
           \A s \in BatchRecs : s.op = "append" /\ (r.op = "append" => s.index < r.index),
           BatchRecs' = BatchRecs \cup {r}, UNCHANGED <<log, acked>>
    PROVE  /\ Reach(ApplyRecord(w, r))'
           /\ Carried(w) => Carried(ApplyRecord(w, r))'
<1> DEFINE m == ApplyRecord(w, r)
<1>1. StoreTypeOK /\ w.purged = log.purged /\ r \in Flight
  BY DEF StoreIInv, Reach, Flight
<1>2. /\ w.purged \in Nat /\ DOMAIN w.ents \subseteq Nat /\ log.purged \in Nat
      /\ r.index \in Nat /\ r.index \in 0 .. MaxEntries /\ DOMAIN acked \subseteq Nat
      /\ \A s \in BatchRecs : s.index \in Nat
  <2>1. w.purged \in Nat /\ DOMAIN w.ents \subseteq Nat
    BY LogNumbers
  <2>2. log.purged \in Nat /\ DOMAIN acked \subseteq Nat /\ MaxEntries \in Nat
    BY <1>1, StoreNumbers
  <2>3. r.index \in Nat /\ r.index <= MaxEntries
    BY RecordFacts
  <2>4. \A s \in BatchRecs : s.index \in Nat
    BY <1>1, FlightTypes DEF Flight
  <2> QED BY <2>1, <2>2, <2>3, <2>4
<1>3. CASE r.op = "append"
  <2>1. /\ IsLog(m) /\ m.purged = w.purged
        /\ DOMAIN m.ents = DOMAIN w.ents \cup {r.index}
        /\ m.ents[r.index] = r.term
        /\ \A i \in DOMAIN w.ents : i # r.index => m.ents[i] = w.ents[i]
    BY <1>3, ApplyAppend
  <2> HIDE DEF m
  <2>2. Holds(log, r.index, r.term) /\ \A i \in DOMAIN acked : i < r.index
    BY <1>1, <1>3 DEF Live, Acks
  <2>3. Reach(m)'
    BY <1>1, <1>2, <2>1, <2>2 DEF Reach, Holds
  <2>4. Carried(w) => Carried(m)'
    BY <1>2, <1>3, <2>1 DEF Carried, Holds
  <2> QED BY <2>3, <2>4 DEF m
<1>4. CASE r.op = "truncate"
  <2>1. /\ IsLog(m) /\ m.purged = w.purged
        /\ \A i : i \in DOMAIN m.ents <=> i \in DOMAIN w.ents /\ i < r.index
        /\ \A i \in DOMAIN m.ents : m.ents[i] = w.ents[i]
    BY <1>4, ApplyTruncate
  <2> HIDE DEF m
  <2>2. \A i \in DOMAIN acked : i < r.index
    BY <1>1, <1>4 DEF Live, Locked
  <2>3. Reach(m)'
    BY <1>1, <1>2, <2>1, <2>2 DEF Reach, Holds
  <2>4. Carried(w) => Carried(m)'
    BY <1>2, <1>4, <2>1 DEF Carried, Holds
  <2> QED BY <2>3, <2>4 DEF m
<1>5. CASE r.op = "purge"
  <2>1. /\ IsLog(m) /\ m.purged = r.index
        /\ \A i : i \in DOMAIN m.ents <=> i \in DOMAIN w.ents /\ r.index < i
        /\ \A i \in DOMAIN m.ents : m.ents[i] = w.ents[i]
    BY <1>2, <1>5, ApplyPurge
  <2> HIDE DEF m
  <2>2. w.purged < r.index
    BY <1>1, <1>5 DEF Live, Locked
  <2>3. Reach(m)'
    BY <1>1, <1>2, <1>5, <2>1, <2>2 DEF Reach, Holds
  <2>4. Carried(w) => Carried(m)'
    BY <1>2, <1>5, <2>1, <2>2 DEF Carried, Holds
  <2> QED BY <2>3, <2>4 DEF m
<1> QED BY <1>3, <1>4, <1>5, RecordFacts

LEMMA ActorWriteStep ==
    ASSUME StoreIInv, ActorWrite
    PROVE  StoreIInv'
<1> DEFINE F == Records \cup {Torn}
<1>0. PICK r, m, w : r = Head(queue) /\ m = Len(file) /\ w = Recovered(m)
  OBVIOUS
<1>1. /\ queue # <<>> /\ queue' = Tail(queue) /\ (Len(batch) < 2 \/ Len(batch) < Capacity)
      /\ UNCHANGED <<log, meta, call, sm, cur, images, half, built, stopped,
                     synced, dMeta, dState, dSnap, acked, promised, chosen>>
  BY DEF ActorWrite
<1>2. PICK b \in BOOLEAN :
        /\ batch' = Append(batch, [rec |-> r, ok |-> b])
        /\ b => file' = Append(file, r)
        /\ ~b => file' \in {file, Append(file, Torn)}
  BY <1>0 DEF ActorWrite
<1>3. StoreTypeOK /\ IsLog(log) /\ (~stopped => Live) /\ file \in Seq(F)
  BY DEF StoreIInv, StoreTypeOK
<1>4. /\ r \in Records /\ r \in QueueRecs
      /\ queue' \in Seq(Records) /\ Len(queue') = Len(queue) - 1
      /\ batch' \in Seq([rec : Records, ok : BOOLEAN]) /\ Len(batch') = Len(batch) + 1
      /\ BatchRecs' = BatchRecs \cup {r} /\ QueueRecs' \subseteq QueueRecs
      /\ Flight' = Flight
      /\ Clean' <=> Clean /\ b
      /\ \A s \in BatchRecs : s.op = "append" /\ (r.op = "append" => s.index < r.index)
      /\ QueueRecs' # {} => r.op = "append"
      /\ Ordered'
  BY <1>0, <1>1, <1>2, Dequeued
<1>5. r # Torn /\ r \in F /\ Torn \in F
  BY <1>4, RecordFacts
<1>6. PICK x \in F : file' = file \/ (file' = Append(file, x) /\ x \in {r, Torn})
  BY <1>2, <1>5
<1>7. /\ Append(file, x) \in Seq(F) /\ Len(Append(file, x)) = m + 1 /\ m \in Nat
      /\ \A n \in 0 .. m : Recovery(Append(file, x), n) = Recovery(file, n)
      /\ x = Torn \/ TornFrames(file, m) # {}
           => Recovery(Append(file, x), m + 1) = Recovery(file, m)
      /\ x # Torn /\ TornFrames(file, m) = {}
           => /\ Recovery(Append(file, x), m + 1) = ApplyRecord(Recovery(file, m), x)
              /\ TornFrames(Append(file, x), m + 1) = {}
  BY <1>0, <1>3, WriteRecovers
<1>8. /\ file' \in Seq(F) /\ Len(file') \in Nat /\ synced \in Nat /\ synced <= Len(file')
      /\ synced <= m
  <2>1. synced \in Nat /\ synced <= m
    BY <1>0, <1>3, StoreNumbers
  <2>2. file' \in Seq(F) /\ Len(file') \in {m, m + 1}
    BY <1>0, <1>3, <1>6, <1>7
  <2> QED BY <1>7, <2>1, <2>2
<1>9. ASSUME NEW n \in CrashPoints'
      PROVE  \/ n \in CrashPoints /\ Recovery(file', n) = Recovered(n)
             \/ Recovery(file', n) = w
             \/ Recovery(file', n) = ApplyRecord(w, r)
  <2>1. n \in synced .. Len(file')
    BY <1>1 DEF CrashPoints
  <2>2. CASE n <= m
    <3>1. n \in 0 .. m /\ n \in CrashPoints
      BY <1>0, <1>7, <1>8, <2>1, <2>2 DEF CrashPoints
    <3> QED BY <1>6, <1>7, <3>1 DEF Recovered
  <2>3. CASE ~ n <= m
    <3>1. file' = Append(file, x) /\ x \in {r, Torn} /\ n = m + 1
      BY <1>0, <1>6, <1>7, <1>8, <2>1, <2>3
    <3> QED BY <1>0, <1>5, <1>7, <3>1 DEF Recovered
  <2> QED BY <2>2, <2>3
<1>10. m \in CrashPoints /\ Durable(w) /\ IsLog(w) /\ (~stopped => Reach(w))
  <2>1. m \in CrashPoints
    BY <1>0, <1>7, <1>8 DEF CrashPoints
  <2> QED BY <1>0, <2>1, JournalLogs
<1>11. StoreTypeOK'
  <2>1. Len(queue') <= Capacity
    BY <1>3, <1>4, StoreNumbers, StoreAssumption DEF StoreTypeOK
  <2>2. Len(batch') <= 2 \/ Len(batch') <= Capacity
    <3>1. Len(batch) \in Nat /\ Capacity \in Nat
      BY <1>3, StoreNumbers, StoreAssumption
    <3> QED BY <1>1, <1>4, <3>1
  <2>3. synced' \in 0 .. Len(file')
    BY <1>1, <1>8
  <2> QED BY <1>1, <1>3, <1>4, <1>8, <2>1, <2>2, <2>3 DEF StoreTypeOK
<1>12. Frames' /\ Prefixes' /\ Lengths' /\ Voting'
  BY <1>1, <1>4 DEF StoreIInv, Frames, Prefixes, Lengths, Voting
<1>13. Journal'
  <2> SUFFICES ASSUME NEW n \in CrashPoints', NEW l, l = Recovery(file', n) PROVE Durable(l)'
    BY DEF Journal, Recovered
  <2>1. ASSUME NEW k, Durable(k) PROVE Durable(k)'
    BY <1>1, <1>4, <2>1 DEF Durable
  <2>2. ASSUME l = ApplyRecord(w, r) PROVE Durable(l)'
    BY <2>2, <1>1, <1>4, <1>10, WriteDurable
  <2>3. ASSUME n \in CrashPoints PROVE Durable(Recovered(n))
    BY <2>3 DEF StoreIInv, Journal
  <2> QED BY <1>9, <1>10, <2>1, <2>2, <2>3
<1>14. ASSUME ~stopped' PROVE Live'
  <2>1. Live /\ Reach(w) /\ ~stopped
    BY <1>1, <1>3, <1>10, <1>14
  <2>2. Locked' /\ Memory' /\ Acks' /\ Kept'
    BY <1>1, <1>4, <2>1 DEF Live, Locked, Memory, Acks, Kept
  <2>3. /\ Reach(ApplyRecord(w, r))'
        /\ Carried(w) => Carried(ApplyRecord(w, r))'
    BY <1>1, <1>4, <1>10, <2>1, WriteReach
  <2>4. Reaches'
    <3> SUFFICES ASSUME NEW n \in CrashPoints', NEW l, l = Recovery(file', n) PROVE Reach(l)'
      BY DEF Reaches, Recovered
    <3>1. ASSUME NEW k, Reach(k) PROVE Reach(k)'
      BY <1>1, <1>4, <3>1 DEF Reach
    <3>2. ASSUME n \in CrashPoints PROVE Reach(Recovered(n))
      BY <2>1, <3>2 DEF Live, Reaches
    <3> QED BY <1>9, <2>1, <2>3, <3>1, <3>2
  <2>5. Written'
    <3> SUFFICES ASSUME Clean', NEW l, l = Recovery(file', Len(file'))
                 PROVE  TornFrames(file', Len(file')) = {} /\ Carried(l)'
      BY DEF Written, Recovered
    <3>1. b /\ Clean /\ file' = Append(file, r)
      BY <1>2, <1>4
    <3>2. TornFrames(file, m) = {} /\ Carried(w)
      BY <1>0, <2>1, <3>1 DEF Live, Written
    <3>3. /\ Len(Append(file, r)) = m + 1
          /\ Recovery(Append(file, r), m + 1) = ApplyRecord(w, r)
          /\ TornFrames(Append(file, r), m + 1) = {}
      BY <1>0, <1>3, <1>5, <3>2, WriteRecovers DEF Recovered
    <3> QED BY <2>3, <3>1, <3>2, <3>3
  <2> QED BY <2>2, <2>4, <2>5 DEF Live
<1> QED BY <1>1, <1>3, <1>4, <1>11, <1>12, <1>13, <1>14 DEF StoreIInv

-----------------------------------------------------------------------------
\* The callbacks of a batch.

\* A truncate or purge is the last frame of the batch and of the queue.
LEMMA BatchOrder ==
    ASSUME StoreIInv, batch # <<>>
    PROVE  LET last == batch[Len(batch)].rec
           IN  /\ last \in BatchRecs /\ \A r \in BatchRecs : r = last \/ r.op = "append"
               /\ last.op # "append" => QueueRecs = {}
               /\ \A r, s \in BatchRecs :
                    r.op = "append" /\ s.op = "append" /\ r.index = s.index => r = s
               /\ \A r \in BatchRecs, s \in QueueRecs :
                    r.op = "append" /\ s.op = "append" => r.index < s.index
<1>1. batch \in Seq([rec : Records, ok : BOOLEAN]) /\ Ordered /\ StoreTypeOK
  BY DEF StoreIInv, StoreTypeOK
<1>2. /\ Len(batch) \in Nat /\ Len(batch) > 0 /\ DOMAIN batch = 1 .. Len(batch)
      /\ Len(batch) \in DOMAIN batch
  BY <1>1
<1> DEFINE last == batch[Len(batch)].rec
<1>3. last \in BatchRecs
  BY <1>2 DEF BatchRecs
<1>4. \A r \in BatchRecs : r = last \/ r.op = "append"
  <2> SUFFICES ASSUME NEW k \in DOMAIN batch PROVE batch[k].rec = last \/ batch[k].rec.op = "append"
    BY DEF BatchRecs
  <2>1. k = Len(batch) \/ k < Len(batch)
    BY <1>2
  <2> QED BY <1>1, <1>2, <2>1 DEF Ordered
<1>5. last.op # "append" => QueueRecs = {}
  BY <1>1, <1>2 DEF Ordered, QueueRecs
<1>6. ASSUME NEW r \in BatchRecs, NEW s \in BatchRecs,
             r.op = "append", s.op = "append", r.index = s.index
      PROVE  r = s
  <2>1. PICK j, k \in DOMAIN batch : r = batch[j].rec /\ s = batch[k].rec
    BY DEF BatchRecs
  <2>2. r.index \in Nat
    BY <1>1, FlightTypes DEF Flight
  <2>3. j = k \/ j < k \/ k < j
    BY <1>2
  <2>4. ~ j < k /\ ~ k < j
    BY <1>1, <1>6, <2>1, <2>2 DEF Ordered
  <2> QED BY <2>1, <2>3, <2>4
<1>7. \A r \in BatchRecs, s \in QueueRecs :
         r.op = "append" /\ s.op = "append" => r.index < s.index
  BY <1>1 DEF Ordered, BatchRecs, QueueRecs
<1> HIDE DEF last
<1> QED BY <1>3, <1>4, <1>5, <1>6, <1>7 DEF last

Members(s) == {s[k] : k \in DOMAIN s}

\* What counts as flushed: the appends of the frames and what was acknowledged
\* before, where no truncate ends it and no purge has dropped it.
LEMMA FlushedFacts ==
    ASSUME StoreTypeOK, NEW recs, NEW R, R = Members(recs), R \subseteq Records,
           NEW f, f = Flushed(recs)
    PROVE  /\ \A i : i \in DOMAIN f <=>
                /\ i \in DOMAIN acked \/ \E r \in R : r.op = "append" /\ r.index = i
                /\ \A r \in R \cup QueueRecs : r.op = "truncate" => i < r.index
                /\ \A r \in R : r.op = "purge" => r.index < i
           /\ \A i \in DOMAIN f :
                IF \E r \in R : r.op = "append" /\ r.index = i
                THEN \E r \in R : r.op = "append" /\ r.index = i /\ f[i] = r.term
                ELSE f[i] = acked[i]
           /\ DOMAIN f \subseteq Slots /\ \A i \in DOMAIN f : f[i] \in Terms
<1> DEFINE new  == {r \in R : r.op = "append"}
           cut  == {r \in R \cup QueueRecs : r.op = "truncate"}
           gone == {r \in R : r.op = "purge"}
           kept == {i \in DOMAIN acked \cup {r.index : r \in new} :
                       (\A r \in cut : i < r.index) /\ (\A r \in gone : r.index < i)}
           c(i) == CHOOSE r \in new : r.index = i
<1>1. f = [i \in kept |-> IF \E r \in new : r.index = i THEN c(i).term ELSE acked[i]]
  BY DEF Flushed, QueueRecs, Members
<1>2. ASSUME NEW i, \E r \in new : r.index = i
      PROVE  c(i) \in new /\ c(i).index = i
  BY <1>2
<1> HIDE DEF c
<1>3. DOMAIN f = kept
  BY <1>1
<1>4. \A i : i \in DOMAIN f <=>
        /\ i \in DOMAIN acked \/ \E r \in R : r.op = "append" /\ r.index = i
        /\ \A r \in R \cup QueueRecs : r.op = "truncate" => i < r.index
        /\ \A r \in R : r.op = "purge" => r.index < i
  BY <1>3
<1>5. ASSUME NEW i \in DOMAIN f
      PROVE  /\ IF \E r \in R : r.op = "append" /\ r.index = i
                THEN \E r \in R : r.op = "append" /\ r.index = i /\ f[i] = r.term
                ELSE f[i] = acked[i]
             /\ i \in Slots /\ f[i] \in Terms
  <2>1. i \in kept
    BY <1>3
  <2>2. CASE \E r \in new : r.index = i
    <3>1. c(i) \in new /\ c(i).index = i
      BY <1>2, <2>2
    <3>2. f[i] = c(i).term
      BY <1>1, <2>1, <2>2
    <3>3. c(i).term \in Terms /\ c(i).index \in Slots
      BY <3>1, RecordFacts
    <3> QED BY <3>1, <3>2, <3>3
  <2>3. CASE ~ \E r \in new : r.index = i
    <3>1. f[i] = acked[i] /\ i \in DOMAIN acked
      BY <1>1, <2>1, <2>3
    <3>2. i \in Slots /\ acked[i] \in Terms
      BY <3>1 DEF StoreTypeOK
    <3> QED BY <2>3, <3>1, <3>2
  <2> QED BY <2>2, <2>3
<1> QED BY <1>4, <1>5

LEMMA GoodFacts ==
    ASSUME StoreTypeOK, NEW ok \in BOOLEAN
    PROVE  /\ Good(ok) \in 0 .. Len(batch)
           /\ Good(ok) = Len(batch) => batch = <<>> \/ (ok /\ Clean)
<1> DEFINE bad == {i \in 1..Len(batch) : ~(ok /\ batch[i].ok)}
           c == CHOOSE i \in bad : \A j \in bad : i <= j
<1>1. Len(batch) \in Nat /\ DOMAIN batch = 1 .. Len(batch) /\ (batch # <<>> => Len(batch) > 0)
  <2>1. batch \in Seq([rec : Records, ok : BOOLEAN])
    BY DEF StoreTypeOK
  <2> QED BY <2>1
<1>2. CASE bad = {}
  <2>1. Good(ok) = Len(batch)
    BY <1>2 DEF Good
  <2>2. \A i \in 1 .. Len(batch) : ok /\ batch[i].ok
    BY <1>2
  <2>3. batch # <<>> => ok /\ Clean
    BY <1>1, <2>2 DEF Clean
  <2> QED BY <1>1, <2>1, <2>3
<1>3. CASE bad # {}
  <2>1. bad \subseteq Nat
    OBVIOUS
  <2>2. \E i \in bad : \A j \in bad : i <= j
    BY <1>3, <2>1, Least
  <2>3. c \in bad
    BY <2>2
  <2>4. Good(ok) = c - 1
    BY <1>3 DEF Good
  <2>5. c \in 1 .. Len(batch)
    BY <2>3
  <2> HIDE DEF c
  <2> QED BY <1>1, <2>4, <2>5
<1> QED BY <1>2, <1>3

\* Whatever is reported, the types hold; OpenRaft goes on only when the whole
\* batch was written and synced.
LEMMA DeliverFacts ==
    ASSUME StoreIInv, batch # <<>>, NEW ok \in BOOLEAN, Deliver(ok)
    PROVE  /\ batch' = <<>> /\ IsLog(log') /\ stopped' \in BOOLEAN
           /\ DOMAIN acked' \subseteq Slots /\ \A i \in DOMAIN acked' : acked'[i] \in Terms
           /\ call' \in {"none", call}
           /\ ~stopped' => LET last == batch[Len(batch)].rec
                               recs == [i \in 1 .. Len(batch) |-> batch[i].rec]
                           IN  /\ ~stopped /\ ok /\ Clean
                               /\ acked' = Flushed(recs)
                               /\ Members(recs) = BatchRecs
                               /\ last.op = "append" => call' = call /\ log' = log
                               /\ last.op # "append" => call' = "none" /\ log' = ApplyRecord(log, last)
<1> DEFINE good == IF stopped THEN 0 ELSE Good(ok)
           recs == [i \in 1..good |-> batch[i].rec]
           last == IF good = 0 THEN Torn ELSE recs[good]
           R    == Members(recs)
<1>1. /\ acked' = Flushed(recs)
      /\ call' = IF last.op \in {"truncate", "purge"} THEN "none" ELSE call
      /\ log' = IF last.op \in {"truncate", "purge"} THEN ApplyRecord(log, last) ELSE log
      /\ stopped' = (stopped \/ good < Len(batch))
      /\ batch' = <<>>
  BY DEF Deliver
<1>2. StoreTypeOK /\ IsLog(log) /\ stopped \in BOOLEAN
  BY DEF StoreIInv, StoreTypeOK
<1>3. /\ batch \in Seq([rec : Records, ok : BOOLEAN]) /\ Len(batch) \in Nat /\ Len(batch) > 0
      /\ DOMAIN batch = 1 .. Len(batch)
  <2>1. batch \in Seq([rec : Records, ok : BOOLEAN])
    BY <1>2 DEF StoreTypeOK
  <2> QED BY <2>1
<1>4. good \in 0 .. Len(batch)
  BY <1>2, <1>3, GoodFacts
<1>5. ~stopped /\ good = Len(batch) => ok /\ Clean
  BY <1>2, GoodFacts
<1> HIDE DEF good
<1>6. \A k \in 1 .. Len(batch) : batch[k].rec \in Records /\ batch[k].rec \in BatchRecs
  BY <1>2, <1>3, FlightTypes DEF BatchRecs
<1>7. R \subseteq Records
  BY <1>3, <1>4, <1>6 DEF Members
<1>8. DOMAIN acked' \subseteq Slots /\ \A i \in DOMAIN acked' : acked'[i] \in Terms
  <2>1. R = Members(recs)
    OBVIOUS
  <2> HIDE DEF R, recs
  <2>2. PICK f : f = Flushed(recs)
    OBVIOUS
  <2>3. DOMAIN f \subseteq Slots /\ \A i \in DOMAIN f : f[i] \in Terms
    BY <1>2, <1>7, <2>1, <2>2, FlushedFacts
  <2> QED BY <1>1, <2>2, <2>3
<1>9. IsLog(log')
  <2>1. CASE last.op \in {"truncate", "purge"}
    <3>1. good # 0
      BY <2>1 DEF Torn
    <3>2. last \in Records
      BY <1>3, <1>4, <1>6, <3>1
    <3>3. log' = ApplyRecord(log, last)
      BY <1>1, <2>1
    <3>4. last.index \in 0 .. MaxEntries
      BY <3>2, RecordFacts, StoreAssumption
    <3> HIDE DEF last
    <3>5. CASE last.op = "truncate"
      BY <1>2, <3>2, <3>3, <3>5, ApplyTruncate
    <3>6. CASE last.op = "purge"
      BY <1>2, <3>3, <3>4, <3>6, ApplyPurge
    <3> QED BY <2>1, <3>5, <3>6
  <2>2. CASE last.op \notin {"truncate", "purge"}
    BY <1>1, <1>2, <2>2
  <2> QED BY <2>1, <2>2
<1>10. ASSUME ~stopped'
       PROVE  /\ ~stopped /\ good = Len(batch) /\ ok /\ Clean
              /\ last = batch[Len(batch)].rec /\ R = BatchRecs /\ last \in Records
  <2>0. ~stopped /\ ~(good < Len(batch))
    BY <1>1, <1>10
  <2>5. good = Len(batch)
    <3>1. Len(batch) \in Nat /\ good \in 0 .. Len(batch) /\ ~(good < Len(batch))
      BY <1>3, <1>4, <2>0
    <3> QED BY <3>1
  <2>1. ~stopped /\ good = Len(batch)
    BY <2>0, <2>5
  <2>2. last = batch[Len(batch)].rec
    BY <1>3, <2>1
  <2>3. R = BatchRecs
    BY <1>3, <2>1 DEF BatchRecs, Members
  <2>4. batch[Len(batch)].rec \in Records
    BY <1>3, <1>6
  <2> QED BY <1>5, <2>1, <2>2, <2>3, <2>4
<1>11. call' \in {"none", call} /\ stopped' \in BOOLEAN
  BY <1>1, <1>2
<1>12. ASSUME ~stopped'
       PROVE  /\ acked' = Flushed([i \in 1 .. Len(batch) |-> batch[i].rec])
              /\ last.op = "append" => call' = call /\ log' = log
              /\ last.op # "append" => call' = "none" /\ log' = ApplyRecord(log, last)
  <2>1. last.op \in {"append", "truncate", "purge"}
    BY <1>10, <1>12, RecordFacts
  <2> HIDE DEF last
  <2> QED BY <1>1, <1>10, <1>12, <2>1
<1> QED BY <1>1, <1>8, <1>9, <1>10, <1>11, <1>12

\* The part that holds in whatever state OpenRaft is.
LEMMA DeliverStep ==
    ASSUME StoreIInv, batch # <<>>, NEW ok \in BOOLEAN, Deliver(ok), synced' \in {synced, Len(file)},
           UNCHANGED <<meta, queue, sm, cur, images, half, built, file, dMeta, dState, dSnap,
                       promised, chosen>>
    PROVE  /\ StoreTypeOK' /\ IsLog(log') /\ Ordered' /\ Frames' /\ Journal'
           /\ Prefixes' /\ Lengths' /\ Voting'
<1>1. /\ batch' = <<>> /\ IsLog(log') /\ stopped' \in BOOLEAN
      /\ DOMAIN acked' \subseteq Slots /\ \A i \in DOMAIN acked' : acked'[i] \in Terms
      /\ call' \in {"none", call}
  BY DeliverFacts
<1>2. StoreTypeOK
  BY DEF StoreIInv
<1>3. /\ BatchRecs' = {} /\ QueueRecs' = QueueRecs /\ Flight' \subseteq Flight
  <2>1. BatchRecs' = {}
    BY <1>1 DEF BatchRecs
  <2>2. QueueRecs' = QueueRecs
    BY DEF QueueRecs
  <2> QED BY <2>1, <2>2 DEF Flight
<1>4. StoreTypeOK'
  <2>1. batch' \in Seq([rec : Records, ok : BOOLEAN]) /\ Len(batch') <= 2
    BY <1>1
  <2>2. synced' \in 0 .. Len(file')
    BY <1>2, StoreNumbers
  <2> QED BY <1>1, <1>2, <2>1, <2>2 DEF StoreTypeOK, IsLog
<1>5. Ordered'
  BY <1>1 DEF StoreIInv, Ordered
<1>6. Frames'
  BY <1>3 DEF StoreIInv, Frames
<1>7. Journal'
  <2>1. CrashPoints' \subseteq CrashPoints
    <3>1. Len(file) \in Nat /\ synced \in Nat /\ synced <= Len(file)
      BY <1>2, StoreNumbers
    <3> QED BY <3>1 DEF CrashPoints
  <2>2. \A n : Recovered(n)' = Recovered(n)
    BY DEF Recovered
  <2> QED BY <1>3, <2>1, <2>2 DEF StoreIInv, Journal, Durable
<1>8. Prefixes' /\ Lengths' /\ Voting'
  BY DEF StoreIInv, Prefixes, Lengths, Voting
<1> QED BY <1>1, <1>4, <1>5, <1>6, <1>7, <1>8

LEMMA ActorSyncFailsStep ==
    ASSUME StoreIInv, ActorSyncFails
    PROVE  StoreIInv'
<1>1. /\ batch # <<>> /\ Deliver(FALSE) /\ synced' \in {synced, Len(file)}
      /\ UNCHANGED <<meta, queue, sm, cur, images, half, built, file, dMeta, dState, dSnap,
                     promised, chosen>>
  BY DEF ActorSyncFails
<1>2. stopped'
  BY <1>1, DeliverFacts
<1> QED BY <1>1, <1>2, DeliverStep DEF StoreIInv

\* The sync of a batch that was written whole: what it acknowledges is in the
\* only log that a crash can now leave.
LEMMA SyncLive ==
    ASSUME StoreIInv, ActorSync, ~stopped'
    PROVE  Live'
<1>1. /\ batch # <<>> /\ synced' = Len(file) /\ Deliver(TRUE)
      /\ UNCHANGED <<meta, queue, sm, cur, images, half, built, file, dMeta, dState, dSnap,
                     promised, chosen>>
  BY DEF ActorSync
<1>0. PICK last, R, w : last = batch[Len(batch)].rec /\ R = BatchRecs /\ w = Recovered(Len(file))
  OBVIOUS
<1>2. /\ batch' = <<>> /\ IsLog(log') /\ ~stopped /\ Clean
      /\ last.op = "append" => call' = call /\ log' = log
      /\ last.op # "append" => call' = "none" /\ log' = ApplyRecord(log, last)
  BY <1>0, <1>1, DeliverFacts
<1>3. /\ \A i : i \in DOMAIN acked' <=>
           /\ i \in DOMAIN acked \/ \E r \in R : r.op = "append" /\ r.index = i
           /\ \A r \in R \cup QueueRecs : r.op = "truncate" => i < r.index
           /\ \A r \in R : r.op = "purge" => r.index < i
      /\ \A i \in DOMAIN acked' :
           IF \E r \in R : r.op = "append" /\ r.index = i
           THEN \E r \in R : r.op = "append" /\ r.index = i /\ acked'[i] = r.term
           ELSE acked'[i] = acked[i]
  <2> DEFINE recs == [i \in 1 .. Len(batch) |-> batch[i].rec]
  <2>1. acked' = Flushed(recs) /\ Members(recs) = R
    BY <1>0, <1>1, DeliverFacts
  <2>2. R \subseteq Records /\ StoreTypeOK
    BY <1>0, FlightTypes DEF StoreIInv
  <2> HIDE DEF recs
  <2>3. R = Members(recs)
    BY <2>1
  <2>4. PICK f : f = acked'
    OBVIOUS
  <2>5. f = Flushed(recs)
    BY <2>1, <2>4
  <2>6. /\ \A i : i \in DOMAIN f <=>
             /\ i \in DOMAIN acked \/ \E r \in R : r.op = "append" /\ r.index = i
             /\ \A r \in R \cup QueueRecs : r.op = "truncate" => i < r.index
             /\ \A r \in R : r.op = "purge" => r.index < i
        /\ \A i \in DOMAIN f :
             IF \E r \in R : r.op = "append" /\ r.index = i
             THEN \E r \in R : r.op = "append" /\ r.index = i /\ f[i] = r.term
             ELSE f[i] = acked[i]
    BY <2>2, <2>3, <2>5, FlushedFacts
  <2> QED BY <2>4, <2>6
<1>4. Live /\ StoreTypeOK /\ IsLog(log)
  BY <1>2 DEF StoreIInv
<1>5. /\ last \in R /\ last \in Records /\ \A r \in R : r = last \/ r.op = "append"
      /\ last.op # "append" => QueueRecs = {}
      /\ \A r \in R, s \in QueueRecs : r.op = "append" /\ s.op = "append" => r.index < s.index
      /\ Flight = R \cup QueueRecs
  BY <1>0, <1>1, <1>4, BatchOrder, FlightTypes DEF Flight
<1>6. /\ BatchRecs' = {} /\ QueueRecs' = QueueRecs /\ Flight' = QueueRecs
  <2>1. BatchRecs' = {}
    BY <1>2 DEF BatchRecs
  <2>2. QueueRecs' = QueueRecs
    BY <1>1 DEF QueueRecs
  <2> QED BY <2>1, <2>2 DEF Flight
<1>7. /\ TornFrames(file, Len(file)) = {} /\ Carried(w) /\ Durable(w) /\ IsLog(w) /\ Reach(w)
      /\ w.purged \in Nat /\ DOMAIN w.ents \subseteq Nat
  <2>1. Len(file) \in CrashPoints
    BY <1>4, StoreNumbers DEF CrashPoints
  <2>2. TornFrames(file, Len(file)) = {} /\ Carried(w)
    BY <1>0, <1>2, <1>4 DEF Live, Written
  <2> QED BY <1>0, <1>2, <2>1, <2>2, JournalLogs
<1>8. /\ \A n \in CrashPoints' : n = Len(file)
      /\ \A n : Recovered(n)' = Recovered(n)
      /\ Recovered(Len(file))' = w
  <2>1. CrashPoints' = Len(file) .. Len(file) /\ Len(file) \in Nat
    BY <1>1, <1>4, StoreNumbers DEF CrashPoints
  <2>2. \A n \in CrashPoints' : n = Len(file)
    BY <2>1
  <2> QED BY <1>0, <1>1, <2>2 DEF Recovered
<1>9. Written'
  BY <1>1, <1>6, <1>7, <1>8 DEF Written, Carried
<1>10. Reaches' <=> Reach(w)'
  <2>1. CrashPoints' = {Len(file)}
    BY <1>1, <1>4, StoreNumbers DEF CrashPoints
  <2>2. Reaches' <=> \A n \in CrashPoints' : Reach(Recovered(n))'
    BY DEF Reaches
  <2>3. Recovered(Len(file))' = w /\ Len(file)' = Len(file)
    BY <1>1, <1>8
  <2> QED BY <1>8, <2>1, <2>2, <2>3
<1>11. /\ \A r \in Flight : r.index \in Nat
       /\ last.index \in Nat /\ last.index \in 0 .. MaxEntries
       /\ DOMAIN log.ents \subseteq Nat /\ DOMAIN acked \subseteq Nat
       /\ Len(sm) \in Nat /\ Len(dState) \in Nat /\ log.purged \in Nat /\ dMeta.committed \in Nat
  <2>1. last.index \in Nat /\ last.index <= MaxEntries
    BY <1>5, RecordFacts
  <2>2. \A r \in Flight : r.index \in Nat
    BY <1>4, FlightTypes
  <2>3. /\ DOMAIN log.ents \subseteq Nat /\ DOMAIN acked \subseteq Nat /\ MaxEntries \in Nat
        /\ Len(sm) \in Nat /\ Len(dState) \in Nat /\ log.purged \in Nat /\ dMeta.committed \in Nat
    BY <1>4, StoreNumbers
  <2> QED BY <2>1, <2>2, <2>3
\* An acknowledged entry that stays keeps its value.
<1>12. \A i \in DOMAIN acked : i \in DOMAIN acked' => acked'[i] = acked[i]
  <2>1. \A i \in DOMAIN acked, r \in R : r.op = "append" => i < r.index
    BY <1>4, <1>5 DEF Live, Acks
  <2> QED BY <1>3, <1>5, <1>11, <2>1
<1>13. \A i \in DOMAIN acked' :
          \/ i \in DOMAIN acked /\ acked'[i] = acked[i]
          \/ \E r \in R : r.op = "append" /\ r.index = i /\ acked'[i] = r.term
  BY <1>3
<1>14. last.op \in {"append", "truncate", "purge"}
  BY <1>5, RecordFacts
<1>15. CASE last.op = "append"
  <2>1. \A r \in R : r.op = "append"
    BY <1>5, <1>15
  <2>2. call' = call /\ log' = log
    BY <1>2, <1>15
  <2>3. \A i \in DOMAIN acked : i \in DOMAIN acked'
    BY <1>3, <1>4, <1>5, <2>1 DEF Live, Locked
  <2>4. Locked'
    <3>1. \A r \in QueueRecs : r.op = "truncate" => \A i \in DOMAIN acked' : i < r.index
      BY <1>3
    <3> QED BY <1>1, <1>4, <1>5, <1>6, <2>2, <3>1 DEF Live, Locked
  <2>5. Memory'
    BY <1>1, <1>4, <2>2 DEF Live, Memory
  <2>6. Acks'
    <3>1. ASSUME NEW r \in QueueRecs, r.op = "append"
          PROVE  Holds(log, r.index, r.term) /\ \A i \in DOMAIN acked' : i < r.index
      <4>1. Holds(log, r.index, r.term) /\ \A i \in DOMAIN acked : i < r.index
        BY <1>4, <1>5, <3>1 DEF Live, Acks
      <4>2. \A s \in R : s.op = "append" => s.index < r.index
        BY <1>5, <3>1
      <4> QED BY <1>13, <4>1, <4>2
    <3>2. ASSUME NEW i \in DOMAIN acked'
          PROVE  Holds(log, i, acked'[i]) \/ i <= log.purged
      <4>1. CASE i \in DOMAIN acked /\ acked'[i] = acked[i]
        BY <1>4, <4>1 DEF Live, Acks
      <4>2. CASE \E r \in R : r.op = "append" /\ r.index = i /\ acked'[i] = r.term
        BY <1>4, <1>5, <4>2 DEF Live, Acks
      <4> QED BY <1>13, <4>1, <4>2
    <3>3. ASSUME NEW i \in DOMAIN log.ents
          PROVE  \/ i \in DOMAIN acked'
                 \/ \E r \in QueueRecs : r.op = "append" /\ r.index = i
                 \/ \E r \in QueueRecs : r.op = "truncate" /\ r.index <= i
      <4>1. \/ i \in DOMAIN acked
            \/ \E r \in R \cup QueueRecs : r.op = "append" /\ r.index = i
            \/ \E r \in QueueRecs : r.op = "truncate" /\ r.index <= i
        BY <1>4, <1>5, <2>1 DEF Live, Acks
      <4>2. ASSUME NEW r \in R, r.index = i, ~ \E s \in QueueRecs : s.op = "truncate" /\ s.index <= i
            PROVE  i \in DOMAIN acked'
        <5>1. \A s \in R \cup QueueRecs : s.op = "truncate" => i < s.index
          BY <1>5, <1>11, <2>1, <4>2
        <5> QED BY <1>3, <2>1, <4>2, <5>1
      <4> QED BY <2>3, <4>1, <4>2
    <3> QED BY <1>6, <2>2, <3>1, <3>2, <3>3 DEF Acks
  <2>7. Reach(w)'
    <3>1. w.purged = log.purged
      BY <1>0, <1>7, <2>1 DEF Reach
    <3>2. ASSUME NEW i \in DOMAIN acked', w.purged < i PROVE Holds(w, i, acked'[i])
      <4>1. \A r \in R : w.purged < r.index => Holds(w, r.index, r.term)
        BY <1>0, <1>7, <2>1 DEF Carried
      <4> QED BY <1>7, <1>13, <3>2, <4>1 DEF Reach
    <3> QED BY <1>7, <2>2, <3>1, <3>2 DEF Reach
  <2>8. Kept'
    BY <1>1, <1>4, <1>12, <2>3 DEF Live, Kept
  <2> QED BY <1>9, <1>10, <2>4, <2>5, <2>6, <2>7, <2>8 DEF Live
<1>16. CASE last.op # "append"
  <2>1. /\ QueueRecs = {} /\ Flight' = {} /\ call' = "none" /\ log' = ApplyRecord(log, last)
        /\ Flight = R /\ call = last.op
    <3>1. QueueRecs = {} /\ Flight = R
      BY <1>5, <1>16
    <3>2. call = last.op
      BY <1>4, <1>5, <1>16, <3>1 DEF Live, Locked
    <3> QED BY <1>2, <1>6, <1>16, <3>1, <3>2
  <2>2. Locked'
    <3>1. meta = dMeta /\ \A k \in DOMAIN images : images[k].by # "install"
      BY <1>4, <1>14, <2>1 DEF Live, Locked
    <3> QED BY <1>1, <2>1, <3>1 DEF Locked
  <2>3. CASE last.op = "truncate"
    <3>1. /\ log'.purged = log.purged
          /\ \A i : i \in DOMAIN log'.ents <=> i \in DOMAIN log.ents /\ i < last.index
          /\ \A i \in DOMAIN log'.ents : log'.ents[i] = log.ents[i]
      BY <1>4, <1>5, <2>1, <2>3, ApplyTruncate
    <3>2. /\ Len(sm) < last.index /\ dMeta.committed < last.index
          /\ \A i \in DOMAIN acked : i < last.index
      BY <1>4, <1>5, <2>1, <2>3 DEF Live, Locked, StoreIInv, Frames
    <3>3. \A r \in R : r.op = "truncate" => r = last
      BY <1>5
    <3>4. \A r \in R : r.op # "purge"
      BY <1>5, <2>3
    <3>5. \A i : i \in DOMAIN acked' <=>
             /\ i \in DOMAIN acked \/ \E r \in R : r.op = "append" /\ r.index = i
             /\ i < last.index
      BY <1>3, <1>5, <2>1, <2>3, <3>3, <3>4
    <3>6. Memory'
      BY <1>1, <1>4, <3>1, <3>2 DEF Live, Memory
    <3>7. Acks'
      <4>1. ASSUME NEW i \in DOMAIN acked'
            PROVE  Holds(log', i, acked'[i]) \/ i <= log'.purged
        <5>1. Holds(log, i, acked'[i]) \/ i <= log.purged
          BY <1>4, <1>13, <2>1 DEF Live, Acks
        <5> QED BY <3>1, <3>5, <5>1 DEF Holds
      <4>2. ASSUME NEW i \in DOMAIN log'.ents PROVE i \in DOMAIN acked'
        <5>1. i \in DOMAIN log.ents /\ i < last.index
          BY <3>1
        <5>2. i \in DOMAIN acked \/ \E r \in R : r.op = "append" /\ r.index = i
          BY <1>4, <1>11, <2>1, <3>3, <5>1 DEF Live, Acks
        <5> QED BY <3>5, <5>1, <5>2
      <4> QED BY <2>1, <4>1, <4>2 DEF Acks
    <3>8. Reach(w)'
      <4>1. w.purged = log.purged /\ \A i \in DOMAIN w.ents : i < last.index
        BY <1>0, <1>5, <1>7, <2>3, <3>4 DEF Reach, Carried
      <4>2. ASSUME NEW i \in DOMAIN acked', w.purged < i PROVE Holds(w, i, acked'[i])
        <5>1. \A r \in R : r.op = "append" /\ w.purged < r.index /\ r.index < last.index
                             => Holds(w, r.index, r.term)
          BY <1>0, <1>7, <3>3 DEF Carried
        <5> QED BY <1>7, <1>13, <3>5, <4>2, <5>1 DEF Reach
      <4> QED BY <1>7, <3>1, <4>1, <4>2 DEF Reach, Holds
    <3>9. Kept'
      <4>1. ASSUME NEW i \in 1 .. Len(sm), i \in DOMAIN acked PROVE i \in DOMAIN acked'
        BY <3>2, <3>5, <4>1
      <4> QED BY <1>1, <1>4, <1>12, <4>1 DEF Live, Kept
    <3> QED BY <1>9, <1>10, <2>2, <3>6, <3>7, <3>8, <3>9 DEF Live
  <2>4. CASE last.op = "purge"
    <3>1. /\ log'.purged = last.index
          /\ \A i : i \in DOMAIN log'.ents <=> i \in DOMAIN log.ents /\ last.index < i
          /\ \A i \in DOMAIN log'.ents : log'.ents[i] = log.ents[i]
      BY <1>4, <1>5, <1>11, <2>1, <2>4, ApplyPurge
    <3>2. last.index <= Len(dState) /\ log.purged < last.index /\ Len(dState) <= Len(sm)
      BY <1>4, <1>5, <2>1, <2>4 DEF Live, Locked, StoreIInv, Frames, Lengths
    <3>3. \A r \in R : r.op # "truncate"
      BY <1>5, <2>4
    <3>4. \A r \in R : r.op = "purge" => r = last
      BY <1>5
    <3>5. \A i : i \in DOMAIN acked' <=>
             /\ i \in DOMAIN acked \/ \E r \in R : r.op = "append" /\ r.index = i
             /\ last.index < i
      BY <1>3, <1>5, <2>1, <2>4, <3>3, <3>4
    <3>6. Memory'
      BY <1>1, <1>4, <1>11, <3>1, <3>2 DEF Live, Memory
    <3>7. Acks'
      <4>1. ASSUME NEW i \in DOMAIN acked'
            PROVE  Holds(log', i, acked'[i])
        <5>1. Holds(log, i, acked'[i]) \/ i <= log.purged
          BY <1>4, <1>13, <2>1 DEF Live, Acks
        <5>2. last.index < i /\ i \in Nat
          BY <1>5, <1>11, <3>5
        <5> QED BY <1>11, <3>1, <3>2, <5>1, <5>2 DEF Holds
      <4>2. ASSUME NEW i \in DOMAIN log'.ents PROVE i \in DOMAIN acked'
        <5>1. i \in DOMAIN log.ents /\ last.index < i
          BY <3>1
        <5>2. i \in DOMAIN acked \/ \E r \in R : r.op = "append" /\ r.index = i
          BY <1>4, <2>1, <3>3, <5>1 DEF Live, Acks
        <5> QED BY <3>5, <5>1, <5>2
      <4> QED BY <2>1, <4>1, <4>2 DEF Acks
    <3>8. Reach(w)'
      <4>1. w.purged = last.index /\ \A i \in DOMAIN w.ents : last.index < i
        BY <1>0, <1>5, <1>7, <2>4 DEF Carried, Durable
      <4>2. ASSUME NEW i \in DOMAIN acked', w.purged < i PROVE Holds(w, i, acked'[i])
        <5>1. \A r \in R : r.op = "append" /\ w.purged < r.index => Holds(w, r.index, r.term)
          BY <1>0, <1>7, <3>3 DEF Carried
        <5> QED BY <1>7, <1>13, <4>2, <5>1 DEF Reach
      <4> QED BY <1>7, <3>1, <4>1, <4>2 DEF Reach, Holds
    <3>9. Kept'
      <4>1. ASSUME NEW i \in 1 .. Len(sm), i \in DOMAIN acked
            PROVE  i <= Len(dState) \/ i \in DOMAIN acked'
        BY <1>11, <3>2, <3>5, <4>1
      <4> QED BY <1>1, <1>4, <1>12, <4>1 DEF Live, Kept
    <3> QED BY <1>9, <1>10, <2>2, <3>6, <3>7, <3>8, <3>9 DEF Live
  <2> QED BY <1>14, <1>16, <2>3, <2>4
<1> QED BY <1>15, <1>16

LEMMA ActorSyncStep ==
    ASSUME StoreIInv, ActorSync
    PROVE  StoreIInv'
<1>1. /\ batch # <<>> /\ Deliver(TRUE) /\ synced' \in {synced, Len(file)}
      /\ UNCHANGED <<meta, queue, sm, cur, images, half, built, file, dMeta, dState, dSnap,
                     promised, chosen>>
  BY DEF ActorSync
<1> QED BY <1>1, SyncLive, DeliverStep DEF StoreIInv

-----------------------------------------------------------------------------
\* The state machine.

LEMMA ImageTypes ==
    ASSUME StoreTypeOK
    PROVE  /\ images \in Seq([by : {"build", "install"}, data : States])
           /\ Len(images) \in Nat /\ DOMAIN images = 1 .. Len(images)
           /\ \A k \in DOMAIN images : /\ images[k] \in [by : {"build", "install"}, data : States]
                                       /\ images[k].data \in States /\ Len(images[k].data) \in Nat
<1>1. images \in Seq([by : {"build", "install"}, data : States])
  BY DEF StoreTypeOK
<1>2. /\ Len(images) \in Nat /\ DOMAIN images = 1 .. Len(images)
      /\ \A k \in DOMAIN images : images[k] \in [by : {"build", "install"}, data : States]
  BY <1>1, Elements
<1>3. \A s \in States : Len(s) \in Nat
  BY DEF States
<1> QED BY <1>1, <1>2, <1>3

LEMMA ApplyStep ==
    ASSUME StoreIInv, Apply
    PROVE  StoreIInv'
<1> DEFINE i == Len(sm) + 1
<1>1. /\ ~stopped /\ i <= meta.committed /\ i \in DOMAIN log.ents
      /\ sm' = Append(sm, log.ents[i])
      /\ UNCHANGED <<log, meta, call, queue, batch, cur, images, half, built, stopped, file, synced,
                     dMeta, dState, dSnap, acked, promised, chosen>>
  BY DEF Apply, diskVars, histVars
<1>2. Live /\ StoreTypeOK /\ IsLog(log)
  BY <1>1 DEF StoreIInv
<1>3. /\ Len(sm) \in Nat /\ i \in Nat /\ meta.committed \in Nat /\ dMeta.committed \in Nat
      /\ i <= dMeta.committed /\ dMeta.committed <= Len(chosen) /\ i <= Len(chosen)
      /\ Len(chosen) <= MaxEntries /\ i <= MaxEntries /\ log.ents[i] \in Terms
  <2>1. /\ Len(sm) \in Nat /\ meta.committed \in Nat /\ dMeta.committed \in Nat /\ Len(chosen) \in Nat
        /\ Len(chosen) <= MaxEntries /\ MaxEntries \in Nat
    BY <1>2, StoreNumbers
  <2>2. meta.committed <= dMeta.committed /\ dMeta.committed <= Len(chosen)
    BY DEF StoreIInv, Lengths
  <2>3. log.ents[i] \in Terms
    BY <1>1, <1>2 DEF StoreTypeOK
  <2> QED BY <1>1, <2>1, <2>2, <2>3
<1>4. log.ents[i] = chosen[i]
  BY <1>1, <1>2, <1>3 DEF Live, Memory
<1>5. /\ sm' \in Seq(Terms) /\ Len(sm') = i /\ sm'[i] = log.ents[i]
      /\ \A j \in 1 .. Len(sm) : sm'[j] = sm[j]
  <2>1. sm \in Seq(Terms)
    BY <1>2 DEF StoreTypeOK, States
  <2> QED BY <1>1, <1>3, <2>1
<1>6. sm' \in States
  BY <1>3, <1>5 DEF States
<1> HIDE DEF i
<1>7. /\ CrashPoints' = CrashPoints /\ \A n : Recovered(n)' = Recovered(n)
      /\ Recovered(Len(file))' = Recovered(Len(file))
      /\ TornFrames(file, Len(file))' = TornFrames(file, Len(file))
  BY <1>1, SameFile
<1>8. BatchRecs' = BatchRecs /\ QueueRecs' = QueueRecs /\ Flight' = Flight /\ Clean' = Clean
  BY <1>1 DEF BatchRecs, QueueRecs, Flight, Clean
<1>9. StoreTypeOK' /\ IsLog(log')
  BY <1>1, <1>2, <1>6 DEF StoreTypeOK
<1>10. Ordered' /\ Frames' /\ Voting'
  BY <1>1, <1>8 DEF StoreIInv, Ordered, Frames, Voting
<1>11. Journal'
  BY <1>1, <1>7, <1>8 DEF StoreIInv, Journal, Durable
<1>12. Prefixes'
  <2>1. PrefixOf(sm, chosen)
    BY DEF StoreIInv, Prefixes
  <2>2. ASSUME NEW j \in 1 .. Len(sm') PROVE sm'[j] = chosen[j]
    <3>1. j \in 1 .. Len(sm) \/ j = i
      BY <1>3, <1>5 DEF i
    <3> QED BY <1>4, <1>5, <2>1, <3>1 DEF PrefixOf
  <2>3. PrefixOf(sm', chosen')
    BY <1>1, <1>3, <1>5, <2>2 DEF PrefixOf
  <2> QED BY <1>1, <2>3 DEF StoreIInv, Prefixes
<1>13. Lengths'
  <2>1. Len(sm) <= Len(sm') /\ Len(sm') \in Nat
    BY <1>3, <1>5 DEF i
  <2>2. /\ Len(dState) \in Nat /\ \A k \in DOMAIN images : Len(images[k].data) \in Nat
    BY <1>2, StoreNumbers, ImageTypes
  <2>3. /\ Len(dState) <= Len(sm')
        /\ \A k \in DOMAIN images : Len(images[k].data) <= Len(sm')
    BY <1>3, <2>1, <2>2 DEF StoreIInv, Lengths
  <2> QED BY <1>1, <2>3 DEF StoreIInv, Lengths
<1>14. \A r \in Flight : r.op # "purge" => i < r.index
  <2>1. \A r \in Flight : r.index \in Nat
    BY <1>2, FlightTypes
  <2> QED BY <1>3, <2>1 DEF StoreIInv, Frames
<1>15. Locked'
  BY <1>1, <1>2, <1>5, <1>8, <1>14 DEF Live, Locked
<1>16. Memory'
  BY <1>1, <1>2, <1>3, <1>5 DEF Live, Memory, i
<1>17. Acks'
  BY <1>1, <1>2, <1>8 DEF Live, Acks
<1>18. Reaches' /\ Written'
  BY <1>1, <1>2, <1>7, <1>8 DEF Live, Reaches, Reach, Written, Carried
<1>19. Kept'
  <2>1. i \in DOMAIN acked
    <3>1. \A r \in Flight : r.index \in Nat
      BY <1>2, FlightTypes
    <3>2. \/ i \in DOMAIN acked
          \/ \E r \in Flight : r.op = "append" /\ r.index = i
          \/ \E r \in Flight : r.op = "truncate" /\ r.index <= i
      BY <1>1, <1>2 DEF Live, Acks
    <3> QED BY <1>3, <1>14, <3>1, <3>2
  <2>2. acked[i] = log.ents[i]
    <3>1. log.purged < i /\ log.purged \in Nat
      BY <1>1, <1>2, StoreNumbers DEF Live, Memory
    <3> QED BY <1>2, <1>3, <2>1, <3>1 DEF Live, Acks, Holds
  <2>3. ASSUME NEW j \in 1 .. Len(sm')
        PROVE  \/ j <= Len(dState)
               \/ j \in DOMAIN acked /\ acked[j] = sm'[j]
               \/ \E k \in DOMAIN images : images[k].by = "install" /\ j <= Len(images[k].data)
    <3>1. j \in 1 .. Len(sm) \/ j = i
      BY <1>3, <1>5 DEF i
    <3> QED BY <1>2, <1>5, <2>1, <2>2, <3>1 DEF Live, Kept
  <2> QED BY <1>1, <2>3 DEF Kept
<1> QED BY <1>9, <1>10, <1>11, <1>12, <1>13, <1>15, <1>16, <1>17, <1>18, <1>19 DEF StoreIInv, Live

\* One more image at the end of the queue, as long as the applied state.
LEMMA ImageQueued ==
    ASSUME StoreTypeOK, NEW x \in [by : {"build", "install"}, data : States],
           images' = Append(images, x)
    PROVE  /\ images' \in Seq([by : {"build", "install"}, data : States])
           /\ DOMAIN images' = DOMAIN images \cup {Len(images) + 1}
           /\ Len(images) + 1 \notin DOMAIN images
           /\ \A k \in DOMAIN images : images'[k] = images[k] /\ k < Len(images) + 1
           /\ images'[Len(images) + 1] = x /\ images' # <<>>
           /\ images # <<>> => 1 \in DOMAIN images
<1>1. /\ images \in Seq([by : {"build", "install"}, data : States])
      /\ Len(images) \in Nat /\ DOMAIN images = 1 .. Len(images)
  BY ImageTypes
<1> QED BY <1>1

LEMMA BuildSnapshotStep ==
    ASSUME StoreIInv, BuildSnapshot
    PROVE  StoreIInv'
<1>0. PICK x : x = [by |-> "build", data |-> sm]
  OBVIOUS
<1>1. /\ ~stopped /\ images' = Append(images, x)
      /\ UNCHANGED <<log, meta, call, queue, batch, sm, cur, half, built, stopped, file, synced,
                     dMeta, dState, dSnap, acked, promised, chosen>>
  BY <1>0 DEF BuildSnapshot, diskVars, histVars
<1>2. Live /\ StoreTypeOK /\ IsLog(log)
  BY <1>1 DEF StoreIInv
<1>3. x \in [by : {"build", "install"}, data : States] /\ x.by = "build" /\ x.data = sm
  BY <1>0, <1>2 DEF StoreTypeOK
<1>4. /\ images' \in Seq([by : {"build", "install"}, data : States])
      /\ DOMAIN images' = DOMAIN images \cup {Len(images) + 1}
      /\ Len(images) + 1 \notin DOMAIN images
      /\ \A k \in DOMAIN images : images'[k] = images[k] /\ k < Len(images) + 1
      /\ images'[Len(images) + 1] = x /\ images' # <<>>
      /\ images # <<>> => 1 \in DOMAIN images
  BY <1>1, <1>2, <1>3, ImageQueued
<1>5. /\ CrashPoints' = CrashPoints /\ \A n : Recovered(n)' = Recovered(n)
      /\ Recovered(Len(file))' = Recovered(Len(file))
      /\ TornFrames(file, Len(file))' = TornFrames(file, Len(file))
  BY <1>1, SameFile
<1>6. BatchRecs' = BatchRecs /\ QueueRecs' = QueueRecs /\ Flight' = Flight /\ Clean' = Clean
  BY <1>1 DEF BatchRecs, QueueRecs, Flight, Clean
<1>7. StoreTypeOK' /\ IsLog(log')
  BY <1>1, <1>2, <1>4 DEF StoreTypeOK
<1>8. Ordered' /\ Frames' /\ Voting'
  BY <1>1, <1>6 DEF StoreIInv, Ordered, Frames, Voting
<1>9. Journal'
  BY <1>1, <1>5, <1>6 DEF StoreIInv, Journal, Durable
<1>10. Prefixes'
  <2>1. \A k \in DOMAIN images' : PrefixOf(images'[k].data, chosen)
    BY <1>3, <1>4 DEF StoreIInv, Prefixes
  <2> QED BY <1>1, <2>1 DEF StoreIInv, Prefixes
<1>11. Lengths'
  <2>1. /\ Len(sm) \in Nat /\ Len(images) \in Nat
        /\ DOMAIN images = 1 .. Len(images)
    BY <1>2, StoreNumbers, ImageTypes
  <2>2. \A k \in DOMAIN images' : /\ Len(dState) <= Len(images'[k].data)
                                  /\ Len(images'[k].data) <= Len(sm)
    BY <1>3, <1>4, <2>1 DEF StoreIInv, Lengths
  <2>3. \A j, k \in DOMAIN images' : j < k => Len(images'[j].data) <= Len(images'[k].data)
    BY <1>3, <1>4, <2>1 DEF StoreIInv, Lengths
  <2>4. half => images' # <<>> /\ dState = images'[1].data
    BY <1>4 DEF StoreIInv, Lengths
  <2> QED BY <1>1, <2>2, <2>3, <2>4 DEF StoreIInv, Lengths
<1>12. Locked'
  BY <1>1, <1>2, <1>3, <1>4, <1>6 DEF Live, Locked
<1>13. Memory' /\ Acks'
  BY <1>1, <1>2, <1>6 DEF Live, Memory, Acks
<1>14. Reaches' /\ Written'
  BY <1>1, <1>2, <1>5, <1>6 DEF Live, Reaches, Reach, Written, Carried
<1>15. Kept'
  BY <1>1, <1>2, <1>4 DEF Live, Kept
<1> QED BY <1>7, <1>8, <1>9, <1>10, <1>11, <1>12, <1>13, <1>14, <1>15 DEF StoreIInv, Live

LEMMA InstallSnapshotStep ==
    ASSUME StoreIInv, NEW i \in Slots, NEW t \in Terms, InstallSnapshot(i, t)
    PROVE  StoreIInv'
<1>0. PICK data, x : /\ data = [j \in 1..i |-> IF j <= Len(chosen) THEN chosen[j] ELSE t]
                     /\ x = [by |-> "install", data |-> data]
  OBVIOUS
<1>1. /\ Ready /\ Len(sm) < i
      /\ \A k \in 1..Len(images) : images[k].by = "build"
      /\ images' = Append(images, x) /\ sm' = data
      /\ chosen' = IF i <= Len(chosen) THEN chosen ELSE data
      /\ call' = "install"
      /\ UNCHANGED <<log, meta, queue, batch, cur, half, built, stopped, file, synced,
                     dMeta, dState, dSnap, acked, promised>>
  BY <1>0 DEF InstallSnapshot, diskVars
<1>2. Live /\ StoreTypeOK /\ IsLog(log) /\ call = "none"
  BY <1>1 DEF StoreIInv, Ready
<1>3. i \in Nat /\ i > 0 /\ i <= MaxEntries
  BY StoreAssumption DEF Slots
<1>4. /\ data \in States /\ Len(data) = i
      /\ chosen' \in States /\ PrefixOf(chosen, chosen') /\ PrefixOf(data, chosen')
      /\ \A j \in 1 .. Len(chosen) : chosen'[j] = chosen[j]
  <2>1. Len(chosen) \in Nat /\ chosen \in Seq(Terms) /\ chosen \in States
    BY <1>2 DEF StoreTypeOK, States
  <2>2. \A j \in 1 .. i : data[j] \in Terms /\ (j <= Len(chosen) => data[j] = chosen[j])
    BY <1>0, <1>3, <2>1
  <2>3. data \in Seq(Terms) /\ Len(data) = i
    BY <1>0, <1>3, <2>2
  <2>4. data \in States
    BY <1>3, <2>3 DEF States
  <2>5. CASE i <= Len(chosen)
    BY <1>1, <1>3, <2>1, <2>2, <2>3, <2>4, <2>5 DEF PrefixOf
  <2>6. CASE ~ i <= Len(chosen)
    BY <1>1, <1>3, <2>1, <2>2, <2>3, <2>4, <2>6 DEF PrefixOf
  <2> QED BY <2>5, <2>6
<1>5. x \in [by : {"build", "install"}, data : States] /\ x.by = "install" /\ x.data = data
  BY <1>0, <1>4
<1>6. /\ images' \in Seq([by : {"build", "install"}, data : States])
      /\ DOMAIN images' = DOMAIN images \cup {Len(images) + 1}
      /\ Len(images) + 1 \notin DOMAIN images
      /\ \A k \in DOMAIN images : images'[k] = images[k] /\ k < Len(images) + 1
      /\ images'[Len(images) + 1] = x /\ images' # <<>>
      /\ images # <<>> => 1 \in DOMAIN images
  BY <1>1, <1>2, <1>5, ImageQueued
<1>7. /\ CrashPoints' = CrashPoints /\ \A n : Recovered(n)' = Recovered(n)
      /\ Recovered(Len(file))' = Recovered(Len(file))
      /\ TornFrames(file, Len(file))' = TornFrames(file, Len(file))
  BY <1>1, SameFile
<1>8. BatchRecs' = BatchRecs /\ QueueRecs' = QueueRecs /\ Flight' = Flight /\ Clean' = Clean
  BY <1>1 DEF BatchRecs, QueueRecs, Flight, Clean
<1>9. StoreTypeOK' /\ IsLog(log')
  BY <1>1, <1>2, <1>4, <1>6 DEF StoreTypeOK
<1>10. Ordered' /\ Frames' /\ Voting'
  BY <1>1, <1>8 DEF StoreIInv, Ordered, Frames, Voting
<1>11. \A j \in Nat : j > 0 /\ j <= dMeta.committed => chosen'[j] = chosen[j]
  <2>1. dMeta.committed <= Len(chosen) /\ dMeta.committed \in Nat /\ Len(chosen) \in Nat
    BY <1>2, StoreNumbers DEF StoreIInv, Lengths
  <2>2. \A j \in Nat : j > 0 /\ j <= dMeta.committed => j \in 1 .. Len(chosen)
    BY <2>1
  <2> QED BY <1>4, <2>2
<1>12. Journal'
  <2> SUFFICES ASSUME NEW n \in CrashPoints PROVE Durable(Recovered(n))'
    BY <1>7 DEF Journal
  <2>0. PICK l : l = Recovered(n)
    OBVIOUS
  <2>1. Durable(l) /\ \A j \in DOMAIN l.ents : j \in Nat /\ j > 0
    <3>1. Durable(l) /\ IsLog(l)
      BY <2>0, JournalLogs
    <3> QED BY <3>1, StoreAssumption DEF IsLog, Slots
  <2>2. Recovered(n)' = l
    BY <1>7, <2>0
  <2>3. \A j \in DOMAIN l.ents : j <= dMeta.committed => l.ents[j] = chosen'[j]
    BY <1>11, <2>1 DEF Durable
  <2> QED BY <1>1, <1>8, <2>1, <2>2, <2>3 DEF Durable
<1>13. Prefixes'
  <2>1. ASSUME NEW s \in States, PrefixOf(s, chosen) PROVE PrefixOf(s, chosen')
    <3>1. Len(s) \in Nat /\ Len(chosen) \in Nat /\ Len(chosen') \in Nat
      <4>1. chosen \in States
        BY <1>2 DEF StoreTypeOK
      <4> QED BY <1>4, <4>1 DEF States
    <3> QED BY <1>4, <2>1, <3>1 DEF PrefixOf
  <2>2. \A k \in DOMAIN images' : PrefixOf(images'[k].data, chosen')
    BY <1>2, <1>4, <1>5, <1>6, <2>1, ImageTypes DEF StoreIInv, Prefixes
  <2> QED BY <1>1, <1>2, <1>4, <2>1, <2>2 DEF StoreIInv, StoreTypeOK, Prefixes
<1>14. Lengths'
  <2>1. /\ Len(sm) \in Nat /\ Len(images) \in Nat /\ Len(dState) \in Nat /\ Len(chosen) \in Nat
        /\ DOMAIN images = 1 .. Len(images) /\ \A k \in DOMAIN images : Len(images[k].data) \in Nat
        /\ dMeta.committed \in Nat
    BY <1>2, StoreNumbers, ImageTypes
  <2>2. /\ Len(dState) <= Len(sm) /\ Len(dState) <= i
        /\ \A k \in DOMAIN images : Len(images[k].data) <= i
    BY <1>1, <1>3, <2>1 DEF StoreIInv, Lengths
  <2>3. \A k \in DOMAIN images' : /\ Len(dState) <= Len(images'[k].data)
                                  /\ Len(images'[k].data) <= Len(sm')
    BY <1>1, <1>4, <1>5, <1>6, <1>3, <2>1, <2>2 DEF StoreIInv, Lengths
  <2>4. \A j, k \in DOMAIN images' : j < k => Len(images'[j].data) <= Len(images'[k].data)
    <3> SUFFICES ASSUME NEW j \in DOMAIN images', NEW k \in DOMAIN images', j < k
                 PROVE  Len(images'[j].data) <= Len(images'[k].data)
      OBVIOUS
    <3>1. j \in DOMAIN images
      BY <1>6, <2>1
    <3>2. CASE k \in DOMAIN images
      BY <1>6, <3>1, <3>2 DEF StoreIInv, Lengths
    <3>3. CASE k = Len(images) + 1
      BY <1>4, <1>5, <1>6, <2>2, <3>1, <3>3
    <3> QED BY <1>6, <3>2, <3>3
  <2>5. half => images' # <<>> /\ dState = images'[1].data
    BY <1>6 DEF StoreIInv, Lengths
  <2>6. dMeta.committed <= Len(chosen')
    <3>1. Len(chosen) <= Len(chosen') /\ Len(chosen') \in Nat /\ dMeta.committed <= Len(chosen)
      BY <1>4 DEF PrefixOf, States, StoreIInv, Lengths
    <3> QED BY <2>1, <3>1
  <2>7. Len(dState) <= Len(sm')
    BY <1>1, <1>4, <2>2
  <2> QED BY <1>1, <2>3, <2>4, <2>5, <2>6, <2>7 DEF StoreIInv, Lengths
<1>15. Locked'
  <2>1. \A r \in Flight : r.op = "append"
    BY <1>2, FlightTypes DEF Live, Locked
  <2>2. \A k \in DOMAIN images : images[k].by # "install"
    BY <1>2 DEF Live, Locked
  <2>3. \A j, k \in DOMAIN images' :
           images'[j].by = "install" /\ images'[k].by = "install" => j = k
    BY <1>6, <2>2
  <2>4. meta = dMeta
    BY <1>2 DEF Live, Locked
  <2> QED BY <1>1, <1>8, <2>1, <2>3, <2>4 DEF Locked
<1>16. Memory'
  <2>1. \A j \in DOMAIN log.ents : j \in Nat /\ j > 0
    BY <1>2, StoreAssumption DEF IsLog, Slots
  <2>2. dMeta.committed <= Len(sm) => dMeta.committed <= Len(sm')
    BY <1>1, <1>2, <1>3, <1>4, StoreNumbers
  <2> QED BY <1>1, <1>2, <1>11, <2>1, <2>2 DEF Live, Memory
<1>17. Acks'
  BY <1>1, <1>2, <1>8 DEF Live, Acks
<1>18. Reaches' /\ Written'
  BY <1>1, <1>2, <1>7, <1>8 DEF Live, Reaches, Reach, Written, Carried
<1>19. Kept'
  <2>1. \A j \in 1 .. Len(sm') : \E k \in DOMAIN images' :
           images'[k].by = "install" /\ j <= Len(images'[k].data)
    BY <1>1, <1>3, <1>4, <1>5, <1>6
  <2> QED BY <2>1 DEF Kept
<1> QED BY <1>9, <1>10, <1>12, <1>13, <1>14, <1>15, <1>16, <1>17, <1>18, <1>19 DEF StoreIInv, Live

\* The state image grows.
LEMMA ImageStateStep ==
    ASSUME StoreIInv, ImageState
    PROVE  StoreIInv'
<1>1. /\ images # <<>> /\ dState' = images[1].data /\ half' = TRUE
      /\ UNCHANGED <<log, meta, call, queue, batch, sm, cur, images, built, stopped, file, synced,
                     dMeta, dSnap, acked, promised, chosen>>
  BY DEF ImageState, histVars
<1>2. StoreTypeOK /\ IsLog(log) /\ (~stopped => Live)
  BY DEF StoreIInv
<1>3. /\ Len(images) \in Nat /\ DOMAIN images = 1 .. Len(images) /\ 1 \in DOMAIN images
      /\ dState' \in States /\ Len(dState') \in Nat
      /\ \A k \in DOMAIN images : Len(images[k].data) \in Nat
  <2>1. images \in Seq([by : {"build", "install"}, data : States])
    BY <1>2, ImageTypes
  <2>2. 1 \in DOMAIN images
    BY <1>1, <2>1
  <2> QED BY <1>1, <1>2, <2>2, ImageTypes
<1>4. /\ Len(dState) \in Nat /\ Len(dState) <= Len(dState') /\ Len(dState') <= Len(sm)
      /\ \A k \in DOMAIN images : Len(dState') <= Len(images[k].data)
  <2>1. Len(dState) <= Len(dState') /\ Len(dState') <= Len(sm)
    BY <1>1, <1>3 DEF StoreIInv, Lengths
  <2>2. ASSUME NEW k \in DOMAIN images PROVE Len(dState') <= Len(images[k].data)
    <3>1. k = 1 \/ 1 < k
      BY <1>3
    <3> QED BY <1>1, <1>3, <3>1 DEF StoreIInv, Lengths
  <2> QED BY <1>2, <2>1, <2>2, StoreNumbers
<1>5. /\ CrashPoints' = CrashPoints /\ \A n : Recovered(n)' = Recovered(n)
      /\ Recovered(Len(file))' = Recovered(Len(file))
      /\ TornFrames(file, Len(file))' = TornFrames(file, Len(file))
  BY <1>1, SameFile
<1>6. BatchRecs' = BatchRecs /\ QueueRecs' = QueueRecs /\ Flight' = Flight /\ Clean' = Clean
  BY <1>1 DEF BatchRecs, QueueRecs, Flight, Clean
<1>7. StoreTypeOK' /\ IsLog(log')
  BY <1>1, <1>2, <1>3 DEF StoreTypeOK
<1>8. Ordered' /\ Voting'
  BY <1>1 DEF StoreIInv, Ordered, Voting
<1>9. Frames'
  <2>1. \A r \in Flight : r.index \in Nat
    BY <1>2, FlightTypes
  <2> QED BY <1>1, <1>3, <1>4, <1>6, <2>1 DEF StoreIInv, Frames
<1>10. Journal'
  <2> SUFFICES ASSUME NEW n \in CrashPoints PROVE Durable(Recovered(n))'
    BY <1>5 DEF Journal
  <2>0. PICK l : l = Recovered(n)
    OBVIOUS
  <2>1. Durable(l) /\ l.purged \in Nat
    BY <2>0, JournalLogs
  <2>2. Recovered(n)' = l
    BY <1>5, <2>0
  <2>3. meta.committed \in Nat /\ dMeta.committed \in Nat
    BY <1>2, StoreNumbers
  <2>4. l.purged <= Len(dState')
    BY <1>3, <1>4, <2>1 DEF Durable
  <2>5. /\ meta.committed <= Len(dState') \/ meta.committed \in DOMAIN l.ents
        /\ dMeta.committed <= Len(dState') \/ dMeta.committed \in DOMAIN l.ents
    BY <1>3, <1>4, <2>1, <2>3 DEF Durable
  <2> QED BY <1>1, <1>6, <2>1, <2>2, <2>4, <2>5 DEF Durable
<1>11. Prefixes'
  BY <1>1, <1>3 DEF StoreIInv, Prefixes
<1>12. Lengths'
  <2>1. /\ Len(cur) \in Nat /\ Len(dSnap) \in Nat /\ \A s \in built : Len(s) \in Nat
    BY <1>2, StoreNumbers DEF StoreTypeOK, States
  <2>2. /\ Len(cur) <= Len(dState') /\ Len(dSnap) <= Len(dState')
        /\ \A s \in built : Len(s) <= Len(dState')
    BY <1>3, <1>4, <2>1 DEF StoreIInv, Lengths
  <2> QED BY <1>1, <1>4, <2>2 DEF StoreIInv, Lengths
<1>13. ASSUME ~stopped' PROVE Live'
  <2>1. Live
    BY <1>1, <1>2, <1>13
  <2>2. Locked' /\ Acks'
    BY <1>1, <1>6, <2>1 DEF Live, Locked, Acks
  <2>3. Memory'
    <3>1. log.purged <= Len(dState')
      BY <1>2, <1>3, <1>4, <2>1, StoreNumbers DEF Live, Memory
    <3> QED BY <1>1, <2>1, <3>1 DEF Live, Memory
  <2>4. Reaches' /\ Written'
    BY <1>1, <1>5, <1>6, <2>1 DEF Live, Reaches, Reach, Written, Carried
  <2>5. Kept'
    <3>1. \A i \in 1 .. Len(sm) : i <= Len(dState) => i <= Len(dState')
      BY <1>3, <1>4
    <3> QED BY <1>1, <2>1, <3>1 DEF Live, Kept
  <2> QED BY <2>2, <2>3, <2>4, <2>5 DEF Live
<1> QED BY <1>7, <1>8, <1>9, <1>10, <1>11, <1>12, <1>13 DEF StoreIInv

\* The head of the image queue is done with.
LEMMA ImageDone ==
    ASSUME StoreTypeOK, images # <<>>, images' = Tail(images)
    PROVE  /\ images' \in Seq([by : {"build", "install"}, data : States])
           /\ 1 \in DOMAIN images /\ Head(images) = images[1]
           /\ \A k \in DOMAIN images' : k + 1 \in DOMAIN images /\ images'[k] = images[k + 1] /\ k \in Nat
           /\ \A k \in DOMAIN images : k = 1 \/ (k - 1 \in DOMAIN images' /\ images'[k - 1] = images[k])
           /\ DOMAIN images \subseteq Nat
<1>1. images \in Seq([by : {"build", "install"}, data : States])
  BY ImageTypes
<1>2. /\ images' \in Seq([by : {"build", "install"}, data : States])
      /\ Len(images) \in Nat /\ Len(images) > 0 /\ DOMAIN images = 1 .. Len(images)
      /\ DOMAIN images' = 1 .. (Len(images) - 1) /\ Head(images) = images[1]
      /\ \A k \in DOMAIN images' : images'[k] = images[k + 1]
  BY <1>1
<1>3. ASSUME NEW k \in DOMAIN images, k # 1
      PROVE  k - 1 \in DOMAIN images' /\ images'[k - 1] = images[k]
  <2>1. k - 1 \in DOMAIN images' /\ (k - 1) + 1 = k
    BY <1>2, <1>3
  <2> QED BY <1>2, <2>1
<1> QED BY <1>2, <1>3

LEMMA ImageSnapshotStep ==
    ASSUME StoreIInv, ImageSnapshot
    PROVE  StoreIInv'
<1>1. /\ half /\ half' = FALSE /\ images' = Tail(images) /\ dSnap' = Head(images).data
      /\ \/ Head(images).by = "install" /\ cur' = dSnap' /\ call' = "none" /\ built' = built
         \/ Head(images).by # "install" /\ built' = {dSnap'} /\ cur' = cur /\ call' = call
      /\ UNCHANGED <<log, meta, queue, batch, sm, stopped, file, synced, dMeta, dState,
                     acked, promised, chosen>>
  BY DEF ImageSnapshot, histVars
<1>2. StoreTypeOK /\ IsLog(log) /\ (~stopped => Live)
  BY DEF StoreIInv
<1>3. images # <<>> /\ dState = images[1].data
  BY <1>1 DEF StoreIInv, Lengths
<1>4. /\ images' \in Seq([by : {"build", "install"}, data : States])
      /\ 1 \in DOMAIN images /\ Head(images) = images[1]
      /\ \A k \in DOMAIN images' : k + 1 \in DOMAIN images /\ images'[k] = images[k + 1] /\ k \in Nat
      /\ \A k \in DOMAIN images : k = 1 \/ (k - 1 \in DOMAIN images' /\ images'[k - 1] = images[k])
      /\ DOMAIN images \subseteq Nat
  BY <1>1, <1>2, <1>3, ImageDone
<1>5. dSnap' = dState /\ dState \in States /\ Len(dState) \in Nat
  BY <1>1, <1>2, <1>3, <1>4, StoreNumbers DEF StoreTypeOK
<1>6. /\ CrashPoints' = CrashPoints /\ \A n : Recovered(n)' = Recovered(n)
      /\ Recovered(Len(file))' = Recovered(Len(file))
      /\ TornFrames(file, Len(file))' = TornFrames(file, Len(file))
  BY <1>1, SameFile
<1>7. BatchRecs' = BatchRecs /\ QueueRecs' = QueueRecs /\ Flight' = Flight /\ Clean' = Clean
  BY <1>1 DEF BatchRecs, QueueRecs, Flight, Clean
<1>8. StoreTypeOK' /\ IsLog(log')
  <2>1. cur' \in States /\ built' \subseteq States
    BY <1>1, <1>2, <1>5 DEF StoreTypeOK
  <2>2. call' \in {"none", "truncate", "purge", "meta", "install"}
    BY <1>1, <1>2 DEF StoreTypeOK
  <2> QED BY <1>1, <1>2, <1>4, <1>5, <2>1, <2>2 DEF StoreTypeOK
<1>9. Ordered' /\ Frames' /\ Voting'
  BY <1>1, <1>7 DEF StoreIInv, Ordered, Frames, Voting
<1>10. Journal'
  BY <1>1, <1>6, <1>7 DEF StoreIInv, Journal, Durable
<1>11. Prefixes'
  <2>1. \A k \in DOMAIN images' : PrefixOf(images'[k].data, chosen)
    BY <1>4 DEF StoreIInv, Prefixes
  <2>2. PrefixOf(cur', chosen) /\ PrefixOf(dSnap', chosen) /\ \A s \in built' : PrefixOf(s, chosen)
    BY <1>1, <1>5 DEF StoreIInv, Prefixes
  <2> QED BY <1>1, <2>1, <2>2 DEF StoreIInv, Prefixes
<1>12. Lengths'
  <2>1. \A k \in DOMAIN images' : /\ Len(dState) <= Len(images'[k].data)
                                  /\ Len(images'[k].data) <= Len(sm)
    BY <1>4 DEF StoreIInv, Lengths
  <2>2. ASSUME NEW j \in DOMAIN images', NEW k \in DOMAIN images', j < k
        PROVE  Len(images'[j].data) <= Len(images'[k].data)
    <3>1. j + 1 \in DOMAIN images /\ k + 1 \in DOMAIN images /\ j + 1 < k + 1
      BY <1>4, <2>2
    <3> QED BY <1>4, <3>1 DEF StoreIInv, Lengths
  <2>3. /\ Len(cur') <= Len(dState) /\ Len(dSnap') <= Len(dState)
        /\ \A s \in built' : Len(s) <= Len(dState)
    BY <1>1, <1>5 DEF StoreIInv, Lengths
  <2> QED BY <1>1, <2>1, <2>2, <2>3 DEF StoreIInv, Lengths
<1>13. ASSUME ~stopped' PROVE Live'
  <2>1. Live
    BY <1>1, <1>2, <1>13
  <2>2. Locked'
    <3>1. \A j, k \in DOMAIN images' :
             images'[j].by = "install" /\ images'[k].by = "install" => j = k
      <4> SUFFICES ASSUME NEW j \in DOMAIN images', NEW k \in DOMAIN images',
                          images'[j].by = "install", images'[k].by = "install"
                   PROVE  j = k
        OBVIOUS
      <4>1. j + 1 = k + 1
        BY <1>4, <2>1 DEF Live, Locked
      <4> QED BY <1>4, <4>1
    <3>2. CASE Head(images).by = "install"
      <4>1. call = "install" /\ call' = "none"
        BY <1>1, <1>4, <2>1, <3>2 DEF Live, Locked
      <4>2. \A r \in Flight : r.op = "append"
        BY <1>2, <2>1, <4>1, FlightTypes DEF Live, Locked
      <4>3. ASSUME NEW k \in DOMAIN images' PROVE images'[k].by # "install"
        <5>1. k + 1 # 1
          BY <1>4
        <5> QED BY <1>4, <2>1, <3>2, <5>1 DEF Live, Locked
      <4>4. meta = dMeta
        BY <2>1, <4>1 DEF Live, Locked
      <4> QED BY <1>1, <1>7, <4>1, <4>2, <4>3, <4>4 DEF Locked
    <3>3. CASE Head(images).by # "install"
      <4>1. call' = call
        BY <1>1, <3>3
      <4>2. \A k \in DOMAIN images' : images'[k].by = "install" => call = "install"
        BY <1>4, <2>1 DEF Live, Locked
      <4> QED BY <1>1, <1>7, <2>1, <3>1, <4>1, <4>2 DEF Live, Locked
    <3> QED BY <3>2, <3>3
  <2>3. Memory' /\ Acks'
    BY <1>1, <1>7, <2>1 DEF Live, Memory, Acks
  <2>4. Reaches' /\ Written'
    BY <1>1, <1>6, <1>7, <2>1 DEF Live, Reaches, Reach, Written, Carried
  <2>5. Kept'
    <3>1. ASSUME NEW k \in DOMAIN images, images[k].by = "install",
                 NEW i \in 1 .. Len(sm), i <= Len(images[k].data)
          PROVE  \/ i <= Len(dState)
                 \/ \E j \in DOMAIN images' : images'[j].by = "install" /\ i <= Len(images'[j].data)
      <4>1. CASE k = 1
        BY <1>3, <3>1, <4>1
      <4>2. CASE k # 1
        <5>1. k - 1 \in DOMAIN images' /\ images'[k - 1] = images[k]
          BY <1>4, <4>2
        <5> QED BY <3>1, <5>1
      <4> QED BY <4>1, <4>2
    <3> QED BY <1>1, <2>1, <3>1 DEF Live, Kept
  <2> QED BY <2>2, <2>3, <2>4, <2>5 DEF Live
<1> QED BY <1>8, <1>9, <1>10, <1>11, <1>12, <1>13 DEF StoreIInv

LEMMA ImageFailsStep ==
    ASSUME StoreIInv, ImageFails
    PROVE  StoreIInv'
<1>1. /\ images # <<>> /\ half' = FALSE /\ images' = Tail(images) /\ stopped' = TRUE
      /\ UNCHANGED <<log, meta, call, queue, batch, sm, cur, built, file, synced, dMeta, dState,
                     dSnap, acked, promised, chosen>>
  BY DEF ImageFails, diskVars
<1>2. StoreTypeOK /\ IsLog(log)
  BY DEF StoreIInv
<1>3. /\ images' \in Seq([by : {"build", "install"}, data : States])
      /\ \A k \in DOMAIN images' : k + 1 \in DOMAIN images /\ images'[k] = images[k + 1] /\ k \in Nat
  BY <1>1, <1>2, ImageDone
<1>4. CrashPoints' = CrashPoints /\ \A n : Recovered(n)' = Recovered(n)
  BY <1>1, SameFile
<1>5. BatchRecs' = BatchRecs /\ QueueRecs' = QueueRecs /\ Flight' = Flight
  BY <1>1 DEF BatchRecs, QueueRecs, Flight
<1>6. StoreTypeOK' /\ IsLog(log')
  BY <1>1, <1>2, <1>3 DEF StoreTypeOK
<1>7. Ordered' /\ Frames' /\ Voting'
  BY <1>1, <1>5 DEF StoreIInv, Ordered, Frames, Voting
<1>8. Journal'
  BY <1>1, <1>4, <1>5 DEF StoreIInv, Journal, Durable
<1>9. Prefixes'
  <2>1. \A k \in DOMAIN images' : PrefixOf(images'[k].data, chosen)
    BY <1>3 DEF StoreIInv, Prefixes
  <2> QED BY <1>1, <2>1 DEF StoreIInv, Prefixes
<1>10. Lengths'
  <2>1. \A k \in DOMAIN images' : /\ Len(dState) <= Len(images'[k].data)
                                  /\ Len(images'[k].data) <= Len(sm)
    BY <1>3 DEF StoreIInv, Lengths
  <2>2. ASSUME NEW j \in DOMAIN images', NEW k \in DOMAIN images', j < k
        PROVE  Len(images'[j].data) <= Len(images'[k].data)
    <3>1. j + 1 \in DOMAIN images /\ k + 1 \in DOMAIN images /\ j + 1 < k + 1
      BY <1>3, <2>2
    <3> QED BY <1>3, <3>1 DEF StoreIInv, Lengths
  <2> QED BY <1>1, <2>1, <2>2 DEF StoreIInv, Lengths
<1> QED BY <1>1, <1>6, <1>7, <1>8, <1>9, <1>10 DEF StoreIInv

LEMMA BuildReturnsStep ==
    ASSUME StoreIInv, BuildReturns
    PROVE  StoreIInv'
<1>1. /\ cur' \in built /\ built' = {}
      /\ UNCHANGED <<log, meta, call, queue, batch, sm, images, half, stopped, file, synced,
                     dMeta, dState, dSnap, acked, promised, chosen>>
  BY DEF BuildReturns, diskVars, histVars
<1>2. StoreTypeOK /\ IsLog(log) /\ (~stopped => Live)
  BY DEF StoreIInv
<1>3. /\ CrashPoints' = CrashPoints /\ \A n : Recovered(n)' = Recovered(n)
      /\ Recovered(Len(file))' = Recovered(Len(file))
      /\ TornFrames(file, Len(file))' = TornFrames(file, Len(file))
  BY <1>1, SameFile
<1>4. BatchRecs' = BatchRecs /\ QueueRecs' = QueueRecs /\ Flight' = Flight /\ Clean' = Clean
  BY <1>1 DEF BatchRecs, QueueRecs, Flight, Clean
<1>5. StoreTypeOK' /\ IsLog(log')
  BY <1>1, <1>2 DEF StoreTypeOK
<1>6. Ordered' /\ Frames' /\ Voting' /\ Prefixes' /\ Lengths'
  BY <1>1, <1>4 DEF StoreIInv, Ordered, Frames, Voting, Prefixes, Lengths
<1>7. Journal'
  BY <1>1, <1>3, <1>4 DEF StoreIInv, Journal, Durable
<1>8. ASSUME ~stopped' PROVE Live'
  <2>1. Live
    BY <1>1, <1>2, <1>8
  <2>2. Locked' /\ Memory' /\ Acks' /\ Kept'
    BY <1>1, <1>4, <2>1 DEF Live, Locked, Memory, Acks, Kept
  <2>3. Reaches' /\ Written'
    BY <1>1, <1>3, <1>4, <2>1 DEF Live, Reaches, Reach, Written, Carried
  <2> QED BY <2>2, <2>3 DEF Live
<1> QED BY <1>5, <1>6, <1>7, <1>8 DEF StoreIInv

-----------------------------------------------------------------------------
\* A crash.

\* The file as it is reopened recovers to the log in memory, from one point.
LEMMA ReopenedFile ==
    ASSUME StoreIInv, NEW n \in CrashPoints, Reopened(n)
    PROVE  /\ file' \in Seq(Records \cup {Torn}) /\ Len(file') \in Nat
           /\ TornFrames(file', Len(file')) = {} /\ Recovery(file', Len(file')) = log'
           /\ IsLog(log') /\ \A i \in DOMAIN log'.ents : log'.purged < i
           /\ log'.purged <= Len(dState)
           /\ dMeta.committed <= Len(dState) \/ dMeta.committed \in DOMAIN log'.ents
           /\ \A i \in DOMAIN log'.ents : i <= dMeta.committed => log'.ents[i] = chosen[i]
<1> DEFINE F == Records \cup {Torn}
<1>0. PICK rec, kept, purge :
         /\ rec = Recovered(n) /\ kept = SubSeq(file, 1, Complete(file, n))
         /\ purge = [op |-> "purge", index |-> Len(dState)]
  OBVIOUS
<1>1. /\ file' = IF LastIndex(rec) < Len(dState) THEN Append(kept, purge) ELSE kept
      /\ log' = IF LastIndex(rec) < Len(dState) THEN ApplyRecord(rec, purge) ELSE rec
  BY <1>0 DEF Reopened
<1>2. StoreTypeOK /\ Durable(rec) /\ file \in Seq(F)
  BY <1>0, JournalLogs DEF StoreIInv, StoreTypeOK
<1>3. /\ kept \in Seq(F) /\ Len(kept) \in Nat
      /\ TornFrames(kept, Len(kept)) = {} /\ Recovery(kept, Len(kept)) = rec
  <2>1. n \in 0 .. Len(file)
    BY <1>2, StoreNumbers DEF CrashPoints
  <2> DEFINE g == SubSeq(file, 1, Complete(file, n))
  <2>2. /\ g \in Seq(F) /\ Len(g) \in 0 .. n
        /\ TornFrames(g, Len(g)) = {} /\ Recovery(g, Len(g)) = Recovery(file, n)
    BY <1>2, <2>1, CutRecovers
  <2>3. kept = g
    BY <1>0
  <2> HIDE DEF g
  <2>4. Len(g) \in Nat
    BY <2>1, <2>2
  <2> QED BY <1>0, <2>2, <2>3, <2>4 DEF Recovered
<1>4. /\ IsLog(rec) /\ \A i \in DOMAIN rec.ents : rec.purged < i
      /\ rec.purged <= Len(dState)
      /\ dMeta.committed <= Len(dState) \/ dMeta.committed \in DOMAIN rec.ents
      /\ \A i \in DOMAIN rec.ents : i <= dMeta.committed => rec.ents[i] = chosen[i]
  BY <1>2 DEF Durable
<1>5. CASE ~ LastIndex(rec) < Len(dState)
  BY <1>1, <1>3, <1>4, <1>5
<1>6. CASE LastIndex(rec) < Len(dState)
  <2>1. /\ LastIndex(rec) \in 0 .. MaxEntries /\ \A i \in DOMAIN rec.ents : i <= LastIndex(rec)
        /\ DOMAIN rec.ents \subseteq Nat
    BY <1>4, LastIndexFacts, StoreAssumption DEF IsLog, Slots
  <2>2. Len(dState) \in Nat /\ Len(dState) <= MaxEntries /\ MaxEntries \in Nat
    BY <1>2, StoreAssumption DEF StoreTypeOK, States
  <2>3. Len(dState) \in 1 .. MaxEntries /\ Len(dState) \in 0 .. MaxEntries
    BY <1>6, <2>1, <2>2
  <2>4. purge \in Records /\ purge.op = "purge" /\ purge.index = Len(dState) /\ purge # Torn
    <3>1. purge \in Records /\ purge.op = "purge" /\ purge.index = Len(dState)
      BY <1>0, <2>3 DEF Records, Slots
    <3> QED BY <3>1, RecordFacts
  <2>5. file' = Append(kept, purge) /\ log' = ApplyRecord(rec, purge)
    BY <1>1, <1>6
  <2>6. /\ Append(kept, purge) \in Seq(F) /\ Len(Append(kept, purge)) = Len(kept) + 1
        /\ Recovery(Append(kept, purge), Len(kept) + 1) = ApplyRecord(Recovery(kept, Len(kept)), purge)
        /\ TornFrames(Append(kept, purge), Len(kept) + 1) = {}
    BY <1>3, <2>4, WriteRecovers
  <2>7. /\ IsLog(log') /\ log'.purged = Len(dState)
        /\ \A i : i \in DOMAIN log'.ents <=> i \in DOMAIN rec.ents /\ Len(dState) < i
        /\ \A i \in DOMAIN log'.ents : log'.ents[i] = rec.ents[i]
    BY <1>4, <2>3, <2>4, <2>5, ApplyPurge
  <2>8. dMeta.committed <= Len(dState)
    <3>1. dMeta.committed \in Nat
      BY <1>2, StoreNumbers
    <3>2. dMeta.committed \in DOMAIN rec.ents => dMeta.committed <= Len(dState)
      BY <1>6, <2>1, <2>2, <3>1
    <3> QED BY <1>4, <3>2
  <2>9. Len(file') \in Nat /\ TornFrames(file', Len(file')) = {} /\ Recovery(file', Len(file')) = log'
    BY <1>3, <2>5, <2>6
  <2> QED BY <1>4, <2>2, <2>5, <2>6, <2>7, <2>8, <2>9
<1> QED BY <1>5, <1>6

LEMMA CrashStep ==
    ASSUME StoreIInv, NEW n \in 0 .. Len(file), Crash(n)
    PROVE  StoreIInv'
<1>1. /\ n \in CrashPoints
      /\ call' = "none" /\ queue' = <<>> /\ batch' = <<>>
      /\ images' = <<>> /\ half' = FALSE /\ built' = {}
      /\ sm' = dState /\ cur' = dSnap
      /\ UNCHANGED <<dState, dSnap, chosen>>
  BY DEF Crash, CrashPoints
<1>2. StoreTypeOK /\ IsLog(log)
  BY DEF StoreIInv
<1>3. BatchRecs' = {} /\ QueueRecs' = {} /\ Flight' = {}
  BY <1>1 DEF BatchRecs, QueueRecs, Flight
<1>4. /\ queue' \in Seq(Records) /\ Len(queue') <= Capacity
      /\ batch' \in Seq([rec : Records, ok : BOOLEAN]) /\ Len(batch') <= 2
      /\ images' \in Seq([by : {"build", "install"}, data : States])
      /\ sm' \in States /\ cur' \in States /\ built' \subseteq States /\ half' \in BOOLEAN
      /\ call' \in {"none", "truncate", "purge", "meta", "install"}
      /\ dState' \in States /\ dSnap' \in States /\ chosen' \in States
  <2>1. /\ queue' = <<>> /\ Len(queue') = 0 /\ batch' = <<>> /\ Len(batch') = 0 /\ images' = <<>>
        /\ half' = FALSE /\ built' = {} /\ call' = "none"
    BY <1>1
  <2>2. Len(queue') <= Capacity /\ Len(batch') <= 2
    BY <2>1, StoreAssumption
  <2>3. /\ sm' \in States /\ cur' \in States
        /\ dState' \in States /\ dSnap' \in States /\ chosen' \in States
    BY <1>1, <1>2 DEF StoreTypeOK
  <2>4. /\ queue' \in Seq(Records) /\ batch' \in Seq([rec : Records, ok : BOOLEAN])
        /\ images' \in Seq([by : {"build", "install"}, data : States])
    BY <2>1
  <2>5. built' \subseteq States /\ half' \in BOOLEAN
        /\ call' \in {"none", "truncate", "purge", "meta", "install"}
    BY <2>1
  <2> QED BY <2>2, <2>3, <2>4, <2>5
<1>5. Ordered' /\ Frames'
  BY <1>1, <1>3 DEF Ordered, Frames
<1>6. Prefixes'
  BY <1>1 DEF StoreIInv, Prefixes
<1>7. /\ Len(dState) \in Nat /\ Len(dSnap) <= Len(dState)
      /\ meta.committed \in Nat /\ dMeta.committed \in Nat
  BY <1>2, StoreNumbers DEF StoreIInv, Lengths
<1>8. CASE Reopened(n)
  <2>0. PICK nv : nv = IF dMeta.vote.led THEN [term |-> dMeta.vote.term + 1, led |-> FALSE]
                       ELSE dMeta.vote
    OBVIOUS
  <2>1. /\ synced' = Len(file') /\ dMeta' = [dMeta EXCEPT !.vote = nv] /\ meta' = dMeta'
        /\ promised' = nv /\ acked' = log'.ents /\ stopped' = FALSE
    BY <1>8, <2>0 DEF Reopened
  <2>2. /\ file' \in Seq(Records \cup {Torn}) /\ Len(file') \in Nat
        /\ TornFrames(file', Len(file')) = {} /\ Recovery(file', Len(file')) = log'
        /\ IsLog(log') /\ \A i \in DOMAIN log'.ents : log'.purged < i
        /\ log'.purged <= Len(dState)
        /\ dMeta.committed <= Len(dState) \/ dMeta.committed \in DOMAIN log'.ents
        /\ \A i \in DOMAIN log'.ents : i <= dMeta.committed => log'.ents[i] = chosen[i]
    BY <1>1, <1>8, ReopenedFile
  <2>3. /\ nv \in Votes /\ dMeta' \in [vote : Votes, committed : 0..MaxEntries]
        /\ dMeta'.vote = nv /\ dMeta'.committed = dMeta.committed
    <3>1. dMeta \in [vote : Votes, committed : 0..MaxEntries]
      BY <1>2 DEF StoreTypeOK
    <3>2. nv \in Votes
      BY <2>0, <3>1 DEF Votes
    <3> QED BY <2>1, <3>1, <3>2
  <2>4. StoreTypeOK'
    <3>1. synced' \in 0 .. Len(file')
      BY <2>1, <2>2
    <3> QED BY <1>4, <2>1, <2>2, <2>3, <3>1 DEF StoreTypeOK, IsLog
  <2>5. CrashPoints' = {Len(file')}
    BY <2>1, <2>2 DEF CrashPoints
  <2>6. Recovered(Len(file))' = log' /\ TornFrames(file, Len(file))' = {}
        /\ \A k \in CrashPoints' : Recovered(k)' = log'
    BY <2>2, <2>5 DEF Recovered
  <2>7. PICK l : l = log'
    OBVIOUS
  <2>8. Durable(l)'
    BY <1>1, <1>3, <2>1, <2>2, <2>3, <2>7 DEF Durable
  <2>9. Journal'
    BY <2>6, <2>7, <2>8 DEF Journal
  <2>10. Lengths' /\ Voting'
    <3>1. dMeta'.committed <= Len(chosen)
      BY <2>3 DEF StoreIInv, Lengths
    <3> QED BY <1>1, <1>7, <2>1, <2>3, <3>1, AtMostItself DEF Lengths, Voting
  <2>11. Locked' /\ Memory' /\ Acks' /\ Kept'
    BY <1>1, <1>3, <1>7, <2>1, <2>2, <2>3 DEF Locked, Memory, Acks, Kept, Holds
  <2>12. Reach(l)' /\ Carried(l)'
    BY <1>3, <2>1, <2>2, <2>7 DEF Reach, Carried, Holds
  <2>13. Reaches' /\ Written'
    BY <2>6, <2>7, <2>12 DEF Reaches, Written
  <2> QED BY <1>5, <1>6, <2>2, <2>4, <2>9, <2>10, <2>11, <2>13 DEF StoreIInv, Live
<1>9. CASE /\ stopped' = TRUE
           /\ UNCHANGED <<log, meta, file, synced, dMeta, acked, promised>>
  <2>1. StoreTypeOK' /\ IsLog(log')
    BY <1>2, <1>4, <1>9 DEF StoreTypeOK
  <2>2. CrashPoints' = CrashPoints /\ \A k : Recovered(k)' = Recovered(k)
    BY <1>9, SameFile
  <2>3. Journal'
    BY <1>1, <1>3, <1>9, <2>2 DEF StoreIInv, Journal, Durable
  <2>4. Lengths' /\ Voting'
    BY <1>1, <1>7, <1>9 DEF StoreIInv, Lengths, Voting
  <2> QED BY <1>5, <1>6, <1>9, <2>1, <2>3, <2>4 DEF StoreIInv
<1> QED BY <1>8, <1>9 DEF Crash

-----------------------------------------------------------------------------
LEMMA StoreStutter ==
    ASSUME StoreIInv, UNCHANGED storeVars
    PROVE  StoreIInv'
<1>1. UNCHANGED <<log, meta, call, queue, batch, sm, cur, images, half, built, stopped, file, synced,
                  dMeta, dState, dSnap, acked, promised, chosen>>
  BY DEF storeVars, memVars, diskVars, histVars
<1>2. /\ CrashPoints' = CrashPoints /\ \A n : Recovered(n)' = Recovered(n)
      /\ Recovered(Len(file))' = Recovered(Len(file))
      /\ TornFrames(file, Len(file))' = TornFrames(file, Len(file))
  BY <1>1, SameFile
<1>3. BatchRecs' = BatchRecs /\ QueueRecs' = QueueRecs /\ Flight' = Flight /\ Clean' = Clean
  BY <1>1 DEF BatchRecs, QueueRecs, Flight, Clean
<1>4. StoreTypeOK' /\ IsLog(log')
  BY <1>1 DEF StoreIInv, StoreTypeOK
<1>5. Ordered' /\ Frames' /\ Voting' /\ Prefixes' /\ Lengths'
  BY <1>1, <1>3 DEF StoreIInv, Ordered, Frames, Voting, Prefixes, Lengths
<1>6. Journal'
  BY <1>1, <1>2, <1>3 DEF StoreIInv, Journal, Durable
<1>7. ASSUME ~stopped' PROVE Live'
  <2>1. Live
    BY <1>1, <1>7 DEF StoreIInv
  <2>2. Locked' /\ Memory' /\ Acks' /\ Kept'
    BY <1>1, <1>3, <2>1 DEF Live, Locked, Memory, Acks, Kept
  <2>3. Reaches' /\ Written'
    BY <1>1, <1>2, <1>3, <2>1 DEF Live, Reaches, Reach, Written, Carried
  <2> QED BY <2>2, <2>3 DEF Live
<1> QED BY <1>4, <1>5, <1>6, <1>7 DEF StoreIInv

LEMMA StoreNextIInv == StoreIInv /\ [StoreNext]_storeVars => StoreIInv'
<1> SUFFICES ASSUME StoreIInv, [StoreNext]_storeVars PROVE StoreIInv'
  OBVIOUS
<1>1. ASSUME NEW t \in Terms, AppendEntry(t) PROVE StoreIInv'
  BY <1>1, AppendEntryStep
<1>2. CASE AppendRefused
  BY <1>2, AppendRefusedStep
<1>3. ASSUME NEW i \in Slots, Truncate(i) \/ Purge(i) \/ SaveCommitted(i) PROVE StoreIInv'
  BY <1>3, TruncateStep, PurgeStep, SaveCommittedStep
<1>4. ASSUME NEW t \in VoteTerms, NEW led \in BOOLEAN, SaveVote([term |-> t, led |-> led])
      PROVE  StoreIInv'
  <2>1. [term |-> t, led |-> led] \in Votes
    BY StoreAssumption DEF Votes
  <2> QED BY <1>4, <2>1, SaveVoteStep
<1>5. CASE MetaReturn \/ MetaFails
  BY <1>5, MetaReturnStep, MetaFailsStep
<1>6. CASE ActorWrite \/ ActorSync \/ ActorSyncFails
  BY <1>6, ActorWriteStep, ActorSyncStep, ActorSyncFailsStep
<1>7. CASE Apply \/ BuildSnapshot
  BY <1>7, ApplyStep, BuildSnapshotStep
<1>8. ASSUME NEW i \in Slots, NEW t \in Terms, InstallSnapshot(i, t) PROVE StoreIInv'
  BY <1>8, InstallSnapshotStep
<1>9. CASE ImageState \/ ImageSnapshot \/ ImageFails \/ BuildReturns
  BY <1>9, ImageStateStep, ImageSnapshotStep, ImageFailsStep, BuildReturnsStep
<1>10. ASSUME NEW n \in 0 .. Len(file), Crash(n) PROVE StoreIInv'
  BY <1>10, CrashStep
<1>11. CASE UNCHANGED storeVars
  BY <1>11, StoreStutter
<1> QED BY <1>1, <1>2, <1>3, <1>4, <1>5, <1>6, <1>7, <1>8, <1>9, <1>10, <1>11 DEF StoreNext

\* The invariant of the store holds in every behaviour.
LEMMA StoreInvariance == StoreSpec => []StoreIInv
BY StoreInitIInv, StoreNextIInv, PTL DEF StoreSpec

\* Log, frames, votes, images and counters keep their types.
THEOREM StoreTypes == StoreSpec => []StoreTypeOK
<1>1. StoreIInv => StoreTypeOK
  BY DEF StoreIInv
<1> QED BY <1>1, StoreInvariance, PTL

\* An entry whose flush callback succeeded is in every log that a crash may
\* leave, or was purged from it.
THEOREM AckedEntriesRecovered == StoreSpec => []AckedRecovered
<1>1. StoreIInv => AckedRecovered
  <2> SUFFICES ASSUME StoreIInv, ~stopped, NEW n \in CrashPoints, NEW i \in DOMAIN acked,
                      i > Recovered(n).purged
               PROVE  i \in DOMAIN Recovered(n).ents /\ Recovered(n).ents[i] = acked[i]
    BY DEF AckedRecovered
  <2>1. Reach(Recovered(n)) /\ Recovered(n).purged \in Nat /\ i \in Nat
    BY JournalLogs, StoreNumbers DEF StoreIInv
  <2>2. Recovered(n).purged < i
    BY <2>1
  <2> QED BY <2>1, <2>2 DEF Reach, Holds
<1> QED BY <1>1, StoreInvariance, PTL

\* State image and recovered log together hold everything that was applied,
\* with no gap between them.
THEOREM AppliedStateRecoverable == StoreSpec => []AppliedRecoverable
<1>1. StoreIInv => AppliedRecoverable
  <2> SUFFICES ASSUME StoreIInv, ~stopped, call # "install", NEW n \in CrashPoints
               PROVE  /\ Recovered(n).purged <= Len(dState)
                      /\ \A i \in 1..Len(sm) :
                           \/ i <= Len(dState) /\ dState[i] = sm[i]
                           \/ i \in DOMAIN Recovered(n).ents /\ Recovered(n).ents[i] = sm[i]
    BY DEF AppliedRecoverable
  <2>0. PICK l : l = Recovered(n)
    OBVIOUS
  <2>1. Live /\ StoreTypeOK /\ Durable(l) /\ Reach(l) /\ l.purged \in Nat
    BY <2>0, JournalLogs DEF StoreIInv
  <2>2. l.purged <= Len(dState) /\ Len(dState) \in Nat /\ Len(sm) \in Nat
    BY <2>1, StoreNumbers DEF Durable
  <2>3. ASSUME NEW i \in 1..Len(sm)
        PROVE  \/ i <= Len(dState) /\ dState[i] = sm[i]
               \/ i \in DOMAIN l.ents /\ l.ents[i] = sm[i]
    <3>1. CASE i <= Len(dState)
      <4>1. i \in 1 .. Len(dState) /\ i \in 1 .. Len(sm)
        BY <2>2, <3>1
      <4>2. dState[i] = chosen[i] /\ sm[i] = chosen[i]
        BY <4>1 DEF StoreIInv, Prefixes, PrefixOf
      <4> QED BY <3>1, <4>2
    <3>2. CASE ~ i <= Len(dState)
      <4>1. \A k \in DOMAIN images : images[k].by # "install"
        BY <2>1 DEF Live, Locked
      <4>2. i \in DOMAIN acked /\ acked[i] = sm[i]
        BY <2>1, <3>2, <4>1 DEF Live, Kept
      <4>3. l.purged < i
        BY <2>1, <2>2, <3>2
      <4> QED BY <2>1, <4>2, <4>3 DEF Reach, Holds
    <3> QED BY <3>1, <3>2
  <2> QED BY <2>0, <2>2, <2>3
<1> QED BY <1>1, StoreInvariance, PTL

\* Votes are ordered.
LEMMA AtMostOrder ==
    ASSUME NEW u \in Votes, NEW v \in Votes, NEW w \in Votes, AtMost(u, v), AtMost(v, w)
    PROVE  AtMost(u, w)
<1>1. u.term \in Nat /\ v.term \in Nat /\ w.term \in Nat
  BY DEF Votes
<1> QED BY <1>1 DEF AtMost

LEMMA StoreVotes ==
    ASSUME StoreIInv
    PROVE  /\ promised \in Votes /\ meta.vote \in Votes /\ dMeta.vote \in Votes
           /\ AtMost(promised, dMeta.vote)
<1>1. promised \in Votes /\ meta.vote \in Votes /\ dMeta.vote \in Votes
  BY DEF StoreIInv, StoreTypeOK
<1>2. AtMost(promised, meta.vote) /\ AtMost(meta.vote, dMeta.vote)
  BY DEF StoreIInv, Voting
<1> QED BY <1>1, <1>2, AtMostOrder

\* A promised vote is on disk.
THEOREM PromisedVoteKept == StoreSpec => []VoteKept
<1>1. StoreIInv => VoteKept
  BY StoreVotes DEF VoteKept
<1> QED BY <1>1, StoreInvariance, PTL

\* A promise is never taken back, by a later call or by a restart.
THEOREM PromisesGrow == StoreSpec => [][AtMost(promised, promised')]_storeVars
<1>1. StoreIInv /\ [StoreNext]_storeVars => [AtMost(promised, promised')]_storeVars
  <2> SUFFICES ASSUME StoreIInv, StoreNext PROVE AtMost(promised, promised')
    BY DEF storeVars
  <2>1. /\ promised \in Votes /\ dMeta.vote \in Votes /\ AtMost(promised, dMeta.vote)
    BY StoreVotes
  <2>2. CASE promised' = promised
    BY <2>2, AtMostItself
  <2>3. CASE MetaReturn
    BY <2>1, <2>3 DEF MetaReturn
  <2>4. ASSUME NEW n \in 0 .. Len(file), Crash(n) PROVE AtMost(promised, promised')
    <3>1. CASE Reopened(n)
      <4>0. PICK v : v = dMeta.vote
        OBVIOUS
      <4>1. promised' = IF v.led THEN [term |-> v.term + 1, led |-> FALSE] ELSE v
        BY <3>1, <4>0 DEF Reopened
      <4>2. CASE v.led
        <5>1. promised' \in Votes /\ AtMost(v, promised')
          BY <2>1, <4>0, <4>1, <4>2 DEF Votes, AtMost
        <5> QED BY <2>1, <4>0, <5>1, AtMostOrder
      <4>3. CASE ~ v.led
        BY <2>1, <4>0, <4>1, <4>3
      <4> QED BY <4>2, <4>3
    <3>2. CASE promised' = promised
      BY <3>2, AtMostItself
    <3> QED BY <2>4, <3>1, <3>2 DEF Crash
  <2>5. \/ promised' = promised \/ MetaReturn \/ \E n \in 0 .. Len(file) : Crash(n)
    BY DEF StoreNext, AppendEntry, AppendRefused, Truncate, Purge, SaveCommitted, SaveVote, MetaFails,
           ActorWrite, ActorSync, ActorSyncFails, Apply, BuildSnapshot, InstallSnapshot, ImageState,
           ImageSnapshot, ImageFails, BuildReturns, histVars
  <2> QED BY <2>2, <2>3, <2>4, <2>5
<1> QED BY <1>1, StoreInvariance, PTL DEF StoreSpec

=============================================================================

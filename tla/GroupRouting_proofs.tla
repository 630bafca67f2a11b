-------------------------- MODULE GroupRouting_proofs --------------------------
(***************************************************************************)
(* Theorems about GroupRouting, for every set of replicas and writers and  *)
(* any number of appends, elections, lost calls and timeouts.              *)
(***************************************************************************)
EXTENDS GroupRouting, SequenceTheorems, FunctionTheorems, FiniteSetTheorems, TLAPS

Kinds == {"None", "WalArchiveBinding", "TimelineOpen", "ArchiveCheckpoint", "ReleaseWal",
          "WriterLease", "Wal", "ReleaseWriter"}
Outcomes == Replied \cup {"ConflictingRetry", "StaleWriterEpoch", "WalGap", "InvalidArchiveCheckpoint"}
TwoBuckets == {NoBucket, Bucket}
Hashes == (Writers \cup TwoBuckets) \X Nat \X Nat
AnyRequest == (Writers \cup {"control", "archive"}) \X Nat
Headers == [request : AnyRequest, kind : Kinds, hash : Hashes, epoch : Nat,
            lo : Nat, hi : Nat, bucket : TwoBuckets]
Identities == [index : Nat, kind : Kinds, hash : Hashes, epoch : Nat, wal_end : Nat]
Machines == [writer_epoch : Nat, writer_active : BOOLEAN, bucket : TwoBuckets,
             initialized : BOOLEAN, wal_end : Nat, archive_lsn : Nat,
             committed : SUBSET [index : Nat, header : Headers],
             retries : [Requests -> Identities], outcome : Outcomes]
Calls == [at : {"idle", "send", "propose", "wait"}, target : Nodes \cup {Free}, try : Nat, epoch : Nat]

(* The state without the bounds that TypeOK counts out. *)
Types ==
    /\ machine \in Machines
    /\ pending \in Seq([header : Headers, try : Nat])
    /\ log \in Seq({log[i] : i \in DOMAIN log})
    /\ \A i \in DOMAIN log : /\ log[i].header \in Headers /\ log[i].outcome \in Outcomes
                             /\ log[i].epoch \in Nat
    /\ applied \in [Nodes -> Nat] /\ \A n \in Nodes : applied[n] <= Len(log)
    /\ leader \in Nodes
    /\ lock \in [Nodes -> Writers \cup {Free}]
    /\ call \in [Writers -> Calls]
    /\ session \in [Writers -> [step : 0 .. Over, epoch : Nat, first : Nat]]
    /\ answer \in [Writers \X Steps -> Answers]
    /\ faults \in 0 .. MaxFaults

-----------------------------------------------------------------------------
(* The invariant.  Its parts take the machine m, the sessions ss and the   *)
(* answers an as arguments, so that a step can change one of them.         *)

Ident(m, w, k) == m.retries[<<w, k>>]
Has(m, w, k) == Ident(m, w, k).index > 0

(* An epoch that no append can use any more. *)
Lost(m, e) == e < m.writer_epoch \/ (e = m.writer_epoch /\ ~m.writer_active)

(* The append k of w is not applied and cannot be. *)
Barred(m, ss, w, k) ==
    /\ ~Has(m, w, k)
    /\ Lost(m, ss[w].epoch) \/ ss[w].first + k - 1 < m.wal_end

(* submit_with_timeout: a session is at a step only after its earlier steps *)
(* were answered, and its requests carry the epoch it was given.            *)
Sessions ==
    \A w \in Writers :
      /\ call[w].at # "idle" => session[w].step # Over /\ call[w].target \in Nodes
      /\ session[w].step # Over => \A j \in Steps : j < session[w].step => Told(w, j, Replied)
      /\ call[w].at \in {"propose", "wait"} /\ session[w].step > 0 => call[w].epoch = session[w].epoch
      /\ call[w].at \in {"propose", "wait"} /\ session[w].step = 0 => lock[call[w].target] = w

(* What the callers of the group may have put in a header. *)
BuiltBy(ss, an, w, k, h) ==
    /\ h.request = <<w, k>>
    /\ k <= ss[w].step
    /\ \A j \in Steps : j < k => an[<<w, j>>] \in Replied
    /\ k = 0 => h.kind = "WriterLease"
    /\ k \in Appends => /\ h.kind = "Wal" /\ h.hash = <<w, 0, 1>> /\ h.epoch = ss[w].epoch
                        /\ h.lo = ss[w].first + k - 1 /\ h.hi = h.lo + 1
    /\ k = MaxAppends + 1 => h.kind = "ReleaseWriter" /\ h.epoch = ss[w].epoch

ByControl(h) ==
    \/ h.request = <<"control", 1>> /\ h.kind = "WalArchiveBinding" /\ h.bucket = Bucket
    \/ h.request = <<"control", 2>> /\ h.kind = "TimelineOpen"
ByArchiver(h) == h.request[1] = "archive" /\ h.kind \in {"ArchiveCheckpoint", "ReleaseWal"}

Built(ss, an, h) ==
    \/ ByControl(h)
    \/ ByArchiver(h)
    \/ \E w \in Writers, k \in Steps : BuiltBy(ss, an, w, k, h)

Headed ==
    /\ \A i \in DOMAIN pending : Built(session, answer, pending[i].header)
    /\ \A i \in DOMAIN log : Built(session, answer, log[i].header)

(* What the log says of a request: it is applied at most once, every answer *)
(* with success carries the identity of that time, and an append that was   *)
(* refused cannot be applied later.                                         *)
Entry(m, ss, w, k, e, i) ==
    /\ e.outcome \in Replied => Has(m, w, k) /\ e.identity = Ident(m, w, k)
    /\ e.outcome = "Committed" => Ident(m, w, k).index = i
    /\ k \in Appends => \/ e.outcome \in Replied
                        \/ e.outcome \in {"StaleWriterEpoch", "WalGap"} /\ Barred(m, ss, w, k)

Logged ==
    /\ \A w \in Writers, k \in Steps : Has(machine, w, k) =>
         /\ Ident(machine, w, k).index \in DOMAIN log
         /\ log[Ident(machine, w, k).index].header.request = <<w, k>>
         /\ log[Ident(machine, w, k).index].outcome = "Committed"
    /\ \A w \in Writers, k \in Steps, i \in DOMAIN log :
         log[i].header.request = <<w, k>> => Entry(machine, session, w, k, log[i], i)

(* What the retry identities say of leases and appends. *)
LeaseAt(m, w) == /\ Ident(m, w, 0).epoch <= m.writer_epoch
                 /\ Ident(m, w, 0).wal_end <= m.wal_end
AppendAt(m, ss, an, w, k) ==
    /\ Ident(m, w, k).kind = "Wal" /\ Ident(m, w, k).hash = <<w, 0, 1>>
    /\ an[<<w, 0>>] \in Replied /\ Ident(m, w, k).epoch = ss[w].epoch
    /\ Ident(m, w, k).wal_end = ss[w].first + k /\ Ident(m, w, k).wal_end <= m.wal_end

Granted ==
    /\ \A w \in Writers : Has(machine, w, 0) => LeaseAt(machine, w)
    /\ \A v, w \in Writers : v # w /\ Has(machine, v, 0) /\ Has(machine, w, 0)
                             => Ident(machine, v, 0).epoch # Ident(machine, w, 0).epoch
    /\ \A w \in Writers, k \in Appends :
         Has(machine, w, k) => AppendAt(machine, session, answer, w, k)
    /\ \A v, w \in Writers, k \in Appends :
         Has(machine, v, k) /\ Has(machine, w, 0) /\ Ident(machine, v, k).epoch < Ident(machine, w, 0).epoch
         => Ident(machine, v, k).wal_end <= Ident(machine, w, 0).wal_end

(* The writers' answers are those of the log. *)
Refusals == {"ConflictingRetry", "StaleWriterEpoch", "WalGap"}
Truthful ==
    /\ \A w \in Writers, k \in Steps : Told(w, k, Replied) => Has(machine, w, k)
    /\ \A w \in Writers : Told(w, 0, Replied) => /\ session[w].epoch = Ident(machine, w, 0).epoch
                                                 /\ session[w].first = Ident(machine, w, 0).wal_end
                                                 /\ session[w].step > 0
    /\ \A w \in Writers, k \in Appends :
         Told(w, k, Refusals) => Barred(machine, session, w, k) /\ Told(w, 0, Replied)

IsLease(c) == c.header.kind = "WriterLease"
EpochAt(l, i) == IF i = 0 THEN 0 ELSE l[i].epoch

(* The epoch after the last lease of the log is the current one. *)
Epochs ==
    \A i \in 0 .. Len(log) :
       (\A j \in (i + 1) .. Len(log) : ~IsLease(log[j])) => EpochAt(log, i) = machine.writer_epoch

(* The two creation commands are ahead of every lease. *)
Opening(m, p) ==
    \/ m.initialized
    \/ /\ Len(p) >= 1 /\ p[1].header.kind = "TimelineOpen"
       /\ m.bucket # NoBucket /\ m.retries[<<"control", 2>>].index = 0
    \/ /\ Len(p) >= 2 /\ p[1].header.kind = "WalArchiveBinding"
       /\ p[2].header.kind = "TimelineOpen"
       /\ m.retries[<<"control", 1>>].index = 0 /\ m.retries[<<"control", 2>>].index = 0

(* writer_lock: as long as nothing fails, a lease that the leader has not   *)
(* applied belongs to the one acquisition that holds the leader's lock.     *)
CalmCall(w) ==
    /\ call[w].try = 0
    /\ call[w].at = "wait" => /\ call[w].target = leader
                              /\ \/ \E i \in DOMAIN log : Mine(w, log[i])
                                 \/ \E i \in DOMAIN pending : Mine(w, pending[i])
    /\ call[w].at = "propose" /\ session[w].step = 0 /\ call[w].target = leader
         => call[w].epoch = machine.writer_epoch + 1
    /\ ~Told(w, 0, {"ConflictingRetry", "StaleWriterEpoch"})
CalmPending(w, i) ==
    /\ call[w].at = "wait" /\ session[w].step = 0
    /\ pending[i].header.epoch = machine.writer_epoch + 1 /\ ~Has(machine, w, 0)
    /\ \A j \in DOMAIN pending : IsLease(pending[j]) => j = i
CalmLog(w, i) ==
    /\ log[i].outcome = "Committed"
    /\ session[w].step = 0 => call[w].at = "wait"
    /\ i > applied[leader] => session[w].step = 0

Calm ==
    faults = 0 =>
      /\ Opening(machine, pending)
      /\ \A w \in Writers : CalmCall(w)
      /\ \A w \in Writers, i \in DOMAIN pending :
            pending[i].header.request = <<w, 0>> => CalmPending(w, i)
      /\ \A w \in Writers, i \in DOMAIN log :
            log[i].header.request = <<w, 0>> => CalmLog(w, i)

IInv == Types /\ Sessions /\ Headed /\ Logged /\ Granted /\ Truthful /\ Epochs /\ Calm

-----------------------------------------------------------------------------
(* Apply. *)

Taken(s, h) == h.kind # "ReleaseWal" /\ Outcome(s, h) = "Committed"

LEMMA Names ==
    ASSUME NEW w \in Writers
    PROVE  w # "control" /\ w # "archive" /\ w # Free
BY RoutingAssumption DEF Free

LEMMA StepNumbers ==
    /\ MaxAppends \in Nat /\ MaxFaults \in Nat
    /\ Steps \subseteq Nat /\ Appends \subseteq Steps
    /\ 0 \in Steps /\ 0 \notin Appends /\ MaxAppends + 1 \in Steps /\ Over \in Nat
    /\ \A k \in Steps : k = 0 \/ k \in Appends \/ k = MaxAppends + 1
    /\ \A k \in 0 .. Over : k \in Steps \/ k = Over
BY RoutingAssumption DEF Steps, Appends, Over

LEMMA RequestNames ==
    /\ \A w \in Writers, k \in Steps : <<w, k>> \in Requests
    /\ <<"control", 1>> \in Requests /\ <<"control", 2>> \in Requests
BY DEF Requests

LEMMA ReplyEndType ==
    ASSUME NEW s \in Machines, NEW h \in Headers
    PROVE  /\ ReplyEnd(s, h) \in Nat
           /\ h.kind = "Wal" => ReplyEnd(s, h) = h.hi
           /\ h.kind = "WriterLease" => ReplyEnd(s, h) = s.wal_end
BY DEF ReplyEnd, Machines, Headers

LEMMA OutcomeCases ==
    ASSUME NEW s \in Machines, NEW h \in Headers
    PROVE  /\ Outcome(s, h) \in Outcomes
           /\ Outcome(s, h) = "Committed" =>
                /\ ~(s.retries[h.request].index > 0) /\ EpochValid(s, h)
                /\ h.kind = "Wal" => h.lo = s.wal_end
           /\ Outcome(s, h) = "Duplicate" => s.retries[h.request].index > 0
           /\ ~(s.retries[h.request].index > 0) => Outcome(s, h) # "ConflictingRetry"
           /\ s.retries[h.request].index > 0 =>
                Outcome(s, h) = IF Same(s.retries[h.request], h) THEN "Duplicate" ELSE "ConflictingRetry"
           /\ Outcome(s, h) = "StaleWriterEpoch" => ~EpochValid(s, h)
           /\ Outcome(s, h) = "WalGap" => h.kind = "Wal" /\ h.lo # s.wal_end
           /\ Outcome(s, h) = "InvalidArchiveCheckpoint" => h.kind = "ArchiveCheckpoint"
           /\ /\ ~(s.retries[h.request].index > 0) /\ EpochValid(s, h)
              /\ h.kind # "Wal" /\ h.kind # "ArchiveCheckpoint"
              => Outcome(s, h) = "Committed"
BY DEF Outcome, Outcomes, Replied

LEMMA EpochValidCases ==
    ASSUME NEW s \in Machines, NEW h \in Headers
    PROVE  /\ h.kind = "TimelineOpen" => (EpochValid(s, h) <=> s.bucket # NoBucket)
           /\ h.kind = "WriterLease" =>
                (EpochValid(s, h) <=> s.initialized /\ h.epoch = s.writer_epoch + 1)
           /\ h.kind \in {"Wal", "ReleaseWriter"} =>
                (EpochValid(s, h) <=> s.writer_active /\ h.epoch = s.writer_epoch)
           /\ h.kind \in {"WalArchiveBinding", "ArchiveCheckpoint"} => EpochValid(s, h)
BY DEF EpochValid, Machines

(* The machine t after the command of h, taken at index i or not. *)
Takes(s, h, i, t) ==
    /\ t.outcome = "Committed"
    /\ t.writer_epoch = IF h.kind = "WriterLease" THEN h.epoch ELSE s.writer_epoch
    /\ t.writer_active = ((s.writer_active \/ h.kind = "WriterLease") /\ h.kind # "ReleaseWriter")
    /\ t.bucket = IF h.kind = "WalArchiveBinding" THEN h.bucket ELSE s.bucket
    /\ t.initialized = (s.initialized \/ h.kind = "TimelineOpen")
    /\ t.wal_end = IF h.kind = "Wal" THEN h.hi ELSE s.wal_end
    /\ \A r \in Requests : t.retries[r] =
         IF r = h.request THEN [index |-> i, kind |-> h.kind, hash |-> h.hash,
                                epoch |-> h.epoch, wal_end |-> ReplyEnd(s, h)]
         ELSE s.retries[r]
Leaves(s, h, t) ==
    /\ t.outcome = IF h.kind = "ReleaseWal" THEN "Committed" ELSE Outcome(s, h)
    /\ t.writer_epoch = s.writer_epoch /\ t.writer_active = s.writer_active
    /\ t.bucket = s.bucket /\ t.initialized = s.initialized
    /\ t.wal_end = s.wal_end /\ t.retries = s.retries

LEMMA ApplyTaken ==
    ASSUME NEW s \in Machines, NEW h \in Headers, NEW i \in Nat, Taken(s, h)
    PROVE  Apply(s, h, i) \in Machines /\ Takes(s, h, i, Apply(s, h, i))
<1> DEFINE id == [index |-> i, kind |-> h.kind, hash |-> h.hash,
                  epoch |-> h.epoch, wal_end |-> ReplyEnd(s, h)]
           ret == [s.retries EXCEPT ![h.request] = id]
           com == s.committed \cup {[index |-> i, header |-> h]}
           t == Apply(s, h, i)
<1>1. t = Accepted(s, h, i)
  BY DEF Apply, Taken
<1>2. id \in Identities
  BY ReplyEndType DEF Identities, Headers
<1>3. s.retries \in [Requests -> Identities]
  BY DEF Machines
<1>4. ret \in [Requests -> Identities] /\ \A r \in Requests : ret[r] = IF r = h.request THEN id ELSE s.retries[r]
  BY <1>2, <1>3
<1>5. com \in SUBSET [index : Nat, header : Headers]
  BY DEF Machines
<1> HIDE DEF id, ret, com, t
<1>6. t = [s EXCEPT !.outcome = "Committed", !.committed = com, !.retries = ret,
        !.bucket        = IF h.kind = "WalArchiveBinding" THEN h.bucket ELSE @,
        !.initialized   = @ \/ h.kind = "TimelineOpen",
        !.writer_epoch  = IF h.kind = "WriterLease" THEN h.epoch ELSE @,
        !.writer_active = (@ \/ h.kind = "WriterLease") /\ h.kind # "ReleaseWriter",
        !.wal_end       = IF h.kind = "Wal" THEN h.hi ELSE @,
        !.archive_lsn   = IF h.kind = "ArchiveCheckpoint" THEN h.hi ELSE @]
  BY <1>1 DEF Accepted, id, ret, com
<1>7. /\ t.outcome = "Committed" /\ t.retries = ret /\ t.committed = com
      /\ t.writer_epoch = IF h.kind = "WriterLease" THEN h.epoch ELSE s.writer_epoch
      /\ t.bucket = IF h.kind = "WalArchiveBinding" THEN h.bucket ELSE s.bucket
      /\ t.wal_end = IF h.kind = "Wal" THEN h.hi ELSE s.wal_end
      /\ t.archive_lsn = IF h.kind = "ArchiveCheckpoint" THEN h.hi ELSE s.archive_lsn
  BY <1>6 DEF Machines
<1>8. /\ t.writer_active = ((s.writer_active \/ h.kind = "WriterLease") /\ h.kind # "ReleaseWriter")
      /\ t.initialized = (s.initialized \/ h.kind = "TimelineOpen")
  BY <1>6 DEF Machines
<1>9. t \in Machines
  <2>1. /\ t.writer_epoch \in Nat /\ t.writer_active \in BOOLEAN /\ t.bucket \in TwoBuckets
        /\ t.initialized \in BOOLEAN /\ t.wal_end \in Nat /\ t.archive_lsn \in Nat
        /\ t.committed \in SUBSET [index : Nat, header : Headers]
        /\ t.retries \in [Requests -> Identities] /\ t.outcome \in Outcomes
    BY <1>4, <1>5, <1>7, <1>8 DEF Machines, Headers, Outcomes, Replied
  <2>2. t = [writer_epoch |-> t.writer_epoch, writer_active |-> t.writer_active, bucket |-> t.bucket,
             initialized |-> t.initialized, wal_end |-> t.wal_end, archive_lsn |-> t.archive_lsn,
             committed |-> t.committed, retries |-> t.retries, outcome |-> t.outcome]
    BY <1>6 DEF Machines
  <2> QED
    BY <2>1, <2>2 DEF Machines
<1> QED
  BY <1>4, <1>7, <1>8, <1>9 DEF id, Takes, t

LEMMA ApplyNotTaken ==
    ASSUME NEW s \in Machines, NEW h \in Headers, NEW i \in Nat, ~Taken(s, h)
    PROVE  Apply(s, h, i) \in Machines /\ Leaves(s, h, Apply(s, h, i))
<1> DEFINE t == Apply(s, h, i)
<1> SUFFICES t \in Machines /\ Leaves(s, h, t)
  OBVIOUS
<1>1. CASE h.kind = "ReleaseWal"
  <2>1. PICK com \in SUBSET [index : Nat, header : Headers] :
            t = [s EXCEPT !.outcome = "Committed", !.committed = com]
    BY <1>1 DEF Apply, Machines
  <2> HIDE DEF t
  <2> QED
    BY <2>1, <1>1 DEF Machines, Outcomes, Replied, Leaves
<1>2. CASE h.kind # "ReleaseWal"
  <2>1. t = [s EXCEPT !.outcome = Outcome(s, h)]
    BY <1>2 DEF Apply, Taken
  <2>2. Outcome(s, h) \in Outcomes
    BY OutcomeCases
  <2> HIDE DEF t
  <2> QED
    BY <2>1, <2>2, <1>2 DEF Machines, Leaves
<1> QED
  BY <1>1, <1>2

(* What a machine keeps when a command is applied to it. *)
Grows(m, t) ==
    /\ \A r \in Requests : m.retries[r].index > 0 => t.retries[r] = m.retries[r]
    /\ m.writer_epoch <= t.writer_epoch /\ m.wal_end <= t.wal_end
    /\ \A e \in Nat : Lost(m, e) => Lost(t, e)

LEMMA ApplyGrows ==
    ASSUME NEW s \in Machines, NEW h \in Headers, NEW i \in Nat, NEW t, t = Apply(s, h, i),
           h.kind = "Wal" => h.hi = h.lo + 1
    PROVE  Grows(s, t)
<1>0. s.writer_epoch \in Nat /\ s.wal_end \in Nat /\ h.epoch \in Nat /\ h.lo \in Nat /\ s.writer_active \in BOOLEAN
  BY DEF Machines, Headers
<1>1. CASE ~Taken(s, h)
  <2>1. Leaves(s, h, t)
    BY <1>1, ApplyNotTaken
  <2> QED
    BY <1>0, <2>1 DEF Grows, Lost, Leaves
<1>2. CASE Taken(s, h)
  <2>0. Takes(s, h, i, t)
    BY <1>2, ApplyTaken
  <2>1. ~(s.retries[h.request].index > 0) /\ EpochValid(s, h) /\ (h.kind = "Wal" => h.lo = s.wal_end)
    BY <1>2, OutcomeCases DEF Taken
  <2>2. \A r \in Requests : s.retries[r].index > 0 => t.retries[r] = s.retries[r]
    BY <2>0, <2>1 DEF Takes
  <2>3. s.wal_end <= t.wal_end
    BY <1>0, <2>0, <2>1 DEF Takes
  <2>4. CASE h.kind = "WriterLease"
    <3>1. h.epoch = s.writer_epoch + 1
      BY <2>1, <2>4, EpochValidCases
    <3>2. t.writer_epoch = s.writer_epoch + 1
      BY <2>0, <2>4, <3>1 DEF Takes
    <3> QED
      BY <1>0, <2>2, <2>3, <3>2 DEF Grows, Lost
  <2>5. CASE h.kind = "ReleaseWriter"
    <3>1. t.writer_epoch = s.writer_epoch /\ ~t.writer_active
      BY <2>0, <2>5 DEF Takes
    <3> QED
      BY <1>0, <2>2, <2>3, <3>1 DEF Grows, Lost
  <2>6. CASE h.kind # "WriterLease" /\ h.kind # "ReleaseWriter"
    <3>1. t.writer_epoch = s.writer_epoch /\ t.writer_active = s.writer_active
      BY <1>0, <2>0, <2>6 DEF Takes
    <3> QED
      BY <1>0, <2>2, <2>3, <3>1 DEF Grows, Lost
  <2> QED
    BY <2>4, <2>5, <2>6
<1> QED
  BY <1>1, <1>2

-----------------------------------------------------------------------------
(* Headers. *)

LEMMA BuiltRequest ==
    ASSUME NEW ss, NEW an, NEW h \in Headers, Built(ss, an, h),
           NEW w \in Writers, NEW k \in Steps, h.request = <<w, k>>
    PROVE  BuiltBy(ss, an, w, k, h)
<1>1. w # "control" /\ w # "archive"
  BY Names
<1>2. ~ByControl(h) /\ ~ByArchiver(h)
  BY <1>1 DEF ByControl, ByArchiver
<1>3. PICK v \in Writers, j \in Steps : BuiltBy(ss, an, v, j, h)
  BY <1>2 DEF Built
<1>4. v = w /\ j = k
  BY <1>3 DEF BuiltBy
<1> QED
  BY <1>3, <1>4

LEMMA BuiltKinds ==
    ASSUME NEW ss, NEW an, NEW h \in Headers, Built(ss, an, h)
    PROVE  /\ h.kind = "Wal" => h.hi = h.lo + 1
           /\ h.kind = "WriterLease" => \E w \in Writers : h.request = <<w, 0>>
           /\ \A w \in Writers : h.request = <<w, 0>> => h.kind = "WriterLease"
           /\ h.kind = "WalArchiveBinding" => h.request = <<"control", 1>> /\ h.bucket = Bucket
           /\ h.kind = "TimelineOpen" => h.request = <<"control", 2>>
           /\ \/ h.kind \in {"WalArchiveBinding", "TimelineOpen", "ArchiveCheckpoint", "ReleaseWal"}
              \/ \E w \in Writers, k \in Steps : h.request = <<w, k>>
           /\ h.kind \in {"WalArchiveBinding", "TimelineOpen", "ArchiveCheckpoint", "ReleaseWal"}
                => \A w \in Writers, k \in Steps : h.request # <<w, k>>
<1>1. CASE ByControl(h)
  BY <1>1, Names DEF ByControl
<1>2. CASE ByArchiver(h)
  <2>1. \A w \in Writers, k \in Nat : h.request # <<w, k>>
    BY <1>2, Names DEF ByArchiver
  <2> QED
    BY <1>2, <2>1, StepNumbers DEF ByArchiver
<1>3. ASSUME NEW w \in Writers, NEW k \in Steps, BuiltBy(ss, an, w, k, h)
      PROVE  /\ h.request = <<w, k>>
             /\ h.kind \in {"Wal", "WriterLease", "ReleaseWriter"}
             /\ h.kind = "Wal" => h.hi = h.lo + 1
             /\ h.kind = "WriterLease" <=> k = 0
  BY <1>3, StepNumbers DEF BuiltBy
<1> QED
  BY <1>1, <1>2, <1>3 DEF Built

LEMMA LogLength ==
    ASSUME Types
    PROVE  Len(log) \in Nat /\ DOMAIN log = 1 .. Len(log)
<1> DEFINE S == {log[i] : i \in DOMAIN log}
<1>1. log \in Seq(S)
  BY DEF Types
<1> HIDE DEF S
<1> QED
  BY <1>1, LenProperties

LEMMA CommitEffect ==
    ASSUME Types, Commit
    PROVE  /\ 1 \in DOMAIN pending /\ Head(pending) = pending[1]
           /\ pending[1].header \in Headers /\ pending[1].try \in Nat
           /\ Len(log) \in Nat /\ DOMAIN log = 1 .. Len(log)
           /\ Len(log') = Len(log) + 1 /\ DOMAIN log' = 1 .. Len(log) + 1
           /\ \A i \in DOMAIN log : log'[i] = log[i]
           /\ machine' = Apply(machine, pending[1].header, Len(log) + 1)
           /\ log'[Len(log) + 1].header = pending[1].header /\ log'[Len(log) + 1].try = pending[1].try
           /\ log'[Len(log) + 1].outcome = machine'.outcome
           /\ log'[Len(log) + 1].identity = machine'.retries[pending[1].header.request]
           /\ log'[Len(log) + 1].epoch = machine'.writer_epoch
           /\ log' \in Seq({log'[i] : i \in DOMAIN log'})
           /\ pending' \in Seq([header : Headers, try : Nat])
           /\ Len(pending) \in Nat /\ Len(pending') = Len(pending) - 1
           /\ DOMAIN pending = 1 .. Len(pending) /\ DOMAIN pending' = 1 .. (Len(pending) - 1)
           /\ \A i \in DOMAIN pending' : i + 1 \in DOMAIN pending /\ pending'[i] = pending[i + 1]
           /\ UNCHANGED <<applied, leader, lock, call, session, answer, faults>>
<1> DEFINE C == [header : Headers, try : Nat]
           h == Head(pending).header
           next == Apply(machine, h, Len(log) + 1)
           e == [header |-> h, try |-> Head(pending).try, outcome |-> next.outcome,
                 identity |-> next.retries[h.request], epoch |-> next.writer_epoch]
           S == {log[i] : i \in DOMAIN log}
           T == {log'[i] : i \in DOMAIN log'}
<1>1. pending \in Seq(C) /\ pending # <<>> /\ log \in Seq(S)
  BY DEF Commit, Types
<1>2. /\ 1 \in DOMAIN pending /\ Head(pending) = pending[1] /\ pending[1] \in C
      /\ Len(pending) \in Nat /\ DOMAIN pending = 1 .. Len(pending)
  <2> HIDE DEF C
  <2> QED BY <1>1
<1>3. /\ Tail(pending) \in Seq(C) /\ Len(Tail(pending)) = Len(pending) - 1
      /\ \A i \in 1 .. (Len(pending) - 1) : Tail(pending)[i] = pending[i + 1]
  <2> HIDE DEF C
  <2> QED BY <1>1
<1>4. DOMAIN Tail(pending) = 1 .. (Len(pending) - 1)
  <2> HIDE DEF C
  <2> QED BY <1>3
<1>5. pending' = Tail(pending) /\ machine' = next /\ log' = Append(log, e)
      /\ UNCHANGED <<applied, leader, lock, call, session, answer, faults>>
  BY DEF Commit
<1>6. Len(log) \in Nat /\ DOMAIN log = 1 .. Len(log)
  <2> HIDE DEF S
  <2> QED BY <1>1
<1>7. /\ Len(log') = Len(log) + 1 /\ DOMAIN log' = 1 .. Len(log) + 1
      /\ \A i \in DOMAIN log : log'[i] = log[i]
      /\ log'[Len(log) + 1] = e
  <2> SUFFICES ASSUME NEW x, log' = Append(log, x)
               PROVE  /\ Len(log') = Len(log) + 1 /\ DOMAIN log' = 1 .. Len(log) + 1
                      /\ \A i \in DOMAIN log : log'[i] = log[i]
                      /\ log'[Len(log) + 1] = x
    BY <1>5
  <2> HIDE DEF S
  <2>1. log \in Seq(S \cup {x})
    BY <1>1
  <2> QED BY <2>1, <1>6
<1>8. log' \in Seq(T)
  <2> SUFFICES ASSUME NEW x, log' = Append(log, x), log'[Len(log) + 1] = x PROVE log' \in Seq(T)
    BY <1>5, <1>7
  <2>1. S \cup {x} \subseteq T
    <3> SUFFICES ASSUME NEW y \in S \cup {x} PROVE \E i \in DOMAIN log' : y = log'[i]
      OBVIOUS
    <3>0. /\ Len(log) + 1 \in DOMAIN log'
          /\ \A i \in DOMAIN log : i \in DOMAIN log' /\ log'[i] = log[i]
      <4> HIDE DEF e, next, S, T
      <4> QED BY <1>6, <1>7
    <3>1. CASE y = x
      BY <3>0, <3>1
    <3>2. CASE y \in S
      <4>1. PICK i \in DOMAIN log : y = log[i]
        BY <3>2
      <4> QED
        BY <3>0, <4>1
    <3> QED
      BY <3>1, <3>2
  <2> HIDE DEF S, T
  <2>2. log \in Seq(S \cup {x})
    BY <1>1
  <2>3. log' \in Seq(S \cup {x})
    BY <2>2
  <2> QED BY <2>1, <2>3, SeqMonotonic
<1>9. log'[Len(log) + 1].header = h /\ log'[Len(log) + 1].try = Head(pending).try
      /\ log'[Len(log) + 1].outcome = next.outcome
      /\ log'[Len(log) + 1].identity = next.retries[h.request]
      /\ log'[Len(log) + 1].epoch = next.writer_epoch
  BY <1>7
<1>10. pending[1].header \in Headers /\ pending[1].try \in Nat
  BY <1>2
<1>11. /\ pending' \in Seq(C) /\ Len(pending') = Len(pending) - 1
       /\ DOMAIN pending' = 1 .. (Len(pending) - 1)
       /\ \A i \in DOMAIN pending' : i + 1 \in DOMAIN pending /\ pending'[i] = pending[i + 1]
  <2> HIDE DEF C
  <2> QED BY <1>2, <1>3, <1>4, <1>5
<1>12. /\ machine' = Apply(machine, pending[1].header, Len(log) + 1)
       /\ log'[Len(log) + 1].header = pending[1].header /\ log'[Len(log) + 1].try = pending[1].try
       /\ log'[Len(log) + 1].outcome = machine'.outcome
       /\ log'[Len(log) + 1].identity = machine'.retries[pending[1].header.request]
       /\ log'[Len(log) + 1].epoch = machine'.writer_epoch
  BY <1>2, <1>5, <1>9
<1> HIDE DEF h, next, e, S
<1> QED
  BY <1>2, <1>5, <1>6, <1>7, <1>8, <1>10, <1>11, <1>12

(* What committing the first proposal does to the machine. *)
LEMMA CommitGrows ==
    ASSUME Types, Headed, Commit
    PROVE  machine' \in Machines /\ Grows(machine, machine') /\ Built(session, answer, pending[1].header)
<1>1. machine \in Machines /\ Len(log) + 1 \in Nat
  BY CommitEffect DEF Types
<1>2. Built(session, answer, pending[1].header)
  BY CommitEffect DEF Headed
<1>3. Grows(machine, machine')
  BY <1>1, <1>2, CommitEffect, BuiltKinds, ApplyGrows
<1>4. machine' \in Machines
  BY <1>1, CommitEffect, ApplyTaken, ApplyNotTaken
<1> QED
  BY <1>2, <1>3, <1>4

LEMMA CommitMachine ==
    ASSUME Types, Commit
    PROVE  \/ Taken(machine, pending[1].header) /\ Takes(machine, pending[1].header, Len(log) + 1, machine')
           \/ ~Taken(machine, pending[1].header) /\ Leaves(machine, pending[1].header, machine')
<1>1. machine \in Machines /\ Len(log) + 1 \in Nat /\ pending[1].header \in Headers
  BY CommitEffect DEF Types
<1>2. machine' = Apply(machine, pending[1].header, Len(log) + 1)
  BY CommitEffect
<1> QED
  BY <1>1, <1>2, ApplyTaken, ApplyNotTaken

LEMMA CommitRetries ==
    ASSUME Types, Commit
    PROVE  /\ \A r \in Requests : r # pending[1].header.request \/ ~Taken(machine, pending[1].header)
                                  => machine'.retries[r] = machine.retries[r]
           /\ Taken(machine, pending[1].header) /\ pending[1].header.request \in Requests =>
                machine'.retries[pending[1].header.request] =
                  [index |-> Len(log) + 1, kind |-> pending[1].header.kind, hash |-> pending[1].header.hash,
                   epoch |-> pending[1].header.epoch, wal_end |-> ReplyEnd(machine, pending[1].header)]
<1>1. CASE Taken(machine, pending[1].header) /\ Takes(machine, pending[1].header, Len(log) + 1, machine')
  BY <1>1 DEF Takes
<1>2. CASE ~Taken(machine, pending[1].header) /\ Leaves(machine, pending[1].header, machine')
  BY <1>2 DEF Leaves
<1> QED
  BY <1>1, <1>2, CommitMachine

-----------------------------------------------------------------------------
(* The other steps, by what they change. *)

(* The call of w becomes c. *)
Turns(w, c) ==
    /\ c \in Calls /\ call' \in [Writers -> Calls]
    /\ call'[w] = c /\ \A v \in Writers \ {w} : call'[v] = call[v]

LEMMA TurnsCall ==
    ASSUME Types, NEW w \in Writers, NEW c \in Calls, call' = [call EXCEPT ![w] = c]
    PROVE  Turns(w, c)
BY DEF Types, Turns

LEMMA SameCall ==
    ASSUME NEW c \in Calls, NEW d \in Calls,
           c.at = d.at, c.target = d.target, c.try = d.try, c.epoch = d.epoch
    PROVE  c = d
BY DEF Calls

LEMMA CallFields ==
    ASSUME Types, NEW w \in Writers
    PROVE  /\ call[w].at \in {"idle", "send", "propose", "wait"} /\ call[w].target \in Nodes \cup {Free}
           /\ call[w].try \in Nat /\ call[w].epoch \in Nat
           /\ session[w].step \in 0 .. Over /\ session[w].epoch \in Nat /\ session[w].first \in Nat
BY DEF Types, Calls

LEMMA StartEffect ==
    ASSUME Types, NEW w \in Writers, Start(w)
    PROVE  /\ call[w].at = "idle" /\ session[w].step # Over
           /\ \E n \in Nodes : Turns(w, [at |-> "send", target |-> n, try |-> 0, epoch |-> 0])
           /\ UNCHANGED <<log, machine, pending, applied, leader, lock, session, answer, faults>>
<1>1. PICK n \in Nodes : call' = [call EXCEPT ![w] = [NoCall EXCEPT !.at = "send", !.target = n]]
  BY DEF Start
<1>2. [at |-> "send", target |-> n, try |-> 0, epoch |-> 0] \in Calls
  BY DEF Calls
<1>3. [NoCall EXCEPT !.at = "send", !.target = n] = [at |-> "send", target |-> n, try |-> 0, epoch |-> 0]
  <2>1. [NoCall EXCEPT !.at = "send", !.target = n] \in Calls
    BY DEF NoCall, Calls
  <2> QED
    BY <1>2, <2>1, SameCall DEF NoCall
<1>4. Turns(w, [at |-> "send", target |-> n, try |-> 0, epoch |-> 0])
  BY <1>1, <1>2, <1>3, TurnsCall
<1> QED
  BY <1>4 DEF Start

LEMMA EpochOnType ==
    ASSUME Types, NEW n \in Nodes
    PROVE  EpochOn(n) \in Nat /\ EpochOn(n) = EpochAt(log, applied[n]) /\ applied[n] \in 0 .. Len(log)
<1>1. applied[n] \in Nat /\ applied[n] <= Len(log)
  BY DEF Types
<1>2. Len(log) \in Nat /\ DOMAIN log = 1 .. Len(log)
  BY DEF Types
<1>3. applied[n] = 0 \/ applied[n] \in DOMAIN log
  BY <1>1, <1>2
<1> QED
  BY <1>1, <1>2, <1>3 DEF EpochOn, EpochAt, Types

LEMMA DeliverEffect ==
    ASSUME Types, Sessions, NEW w \in Writers, Deliver(w)
    PROVE  /\ call[w].at = "send" /\ call[w].target \in Nodes /\ session[w].step # Over
           /\ session[w].step = 0 => lock[call[w].target] = Free
           /\ lock' = IF session[w].step = 0 THEN [lock EXCEPT ![call[w].target] = w] ELSE lock
           /\ Turns(w, [at |-> "propose", target |-> call[w].target, try |-> call[w].try,
                        epoch |-> IF session[w].step = 0 THEN EpochOn(call[w].target) + 1
                                  ELSE session[w].epoch])
           /\ UNCHANGED <<log, machine, pending, applied, leader, session, answer, faults>>
<1> DEFINE e == IF session[w].step = 0 THEN EpochOn(call[w].target) + 1 ELSE session[w].epoch
           c == [at |-> "propose", target |-> call[w].target, try |-> call[w].try, epoch |-> e]
<1>1. call[w].at = "send" /\ call[w].target \in Nodes /\ session[w].step # Over
  BY DEF Deliver, Sessions
<1>2. e \in Nat
  BY <1>1, EpochOnType, CallFields
<1>3. call' = [call EXCEPT ![w].at = "propose", ![w].epoch = e]
  BY DEF Deliver
<1> HIDE DEF e
<1>4. c \in Calls
  BY <1>1, <1>2, CallFields DEF Calls
<1>6. Turns(w, c)
  <2>1. call \in [Writers -> Calls]
    BY DEF Types
  <2>2. call' \in [Writers -> Calls]
    BY <2>1, <1>2, <1>3 DEF Calls
  <2>3. \A v \in Writers \ {w} : call'[v] = call[v]
    BY <2>1, <1>2, <1>3
  <2>4. call'[w] = c
    BY <2>1, <1>2, <1>3 DEF Calls
  <2> QED
    BY <2>2, <2>3, <2>4, <1>4 DEF Turns
<1> QED
  BY <1>1, <1>6 DEF Deliver, e

LEMMA ProposeEffect ==
    ASSUME Types, Sessions, NEW w \in Writers, Propose(w)
    PROVE  /\ call[w].at = "propose" /\ call[w].target = leader /\ session[w].step # Over
           /\ pending' = Append(pending, Command(HeaderFor(w, call[w].epoch), call[w].try))
           /\ Turns(w, [at |-> "wait", target |-> call[w].target, try |-> call[w].try, epoch |-> call[w].epoch])
           /\ UNCHANGED <<log, machine, applied, leader, lock, session, answer, faults>>
<1> DEFINE c == [at |-> "wait", target |-> call[w].target, try |-> call[w].try, epoch |-> call[w].epoch]
<1>1. call[w].at = "propose" /\ session[w].step # Over
  BY DEF Propose, Sessions
<1>2. c \in Calls
  BY CallFields DEF Calls
<1>3. call' = [call EXCEPT ![w].at = "wait"]
  BY DEF Propose
<1>4. Turns(w, c)
  <2>1. call \in [Writers -> Calls]
    BY DEF Types
  <2>2. call' \in [Writers -> Calls]
    BY <2>1, <1>3 DEF Calls
  <2>3. \A v \in Writers \ {w} : call'[v] = call[v]
    BY <2>1, <1>3
  <2>4. call'[w] = c
    BY <2>1, <1>3 DEF Calls
  <2> QED
    BY <2>2, <2>3, <2>4, <1>2 DEF Turns
<1> QED
  BY <1>1, <1>4 DEF Propose

(* Unlock frees what w holds and nothing else. *)
Frees(w) ==
    /\ lock' \in [Nodes -> Writers \cup {Free}]
    /\ \A n \in Nodes : lock[n] # w => lock'[n] = lock[n]

LEMMA UnlockFrees ==
    ASSUME Types, NEW w \in Writers, Unlock(w)
    PROVE  Frees(w)
BY DEF Types, Unlock, Frees

LEMMA NotLeaderEffect ==
    ASSUME Types, NEW w \in Writers, NotLeader(w)
    PROVE  /\ \/ call[w].at = "propose" /\ call[w].target # leader
              \/ /\ call[w].at = "wait"
                 /\ \A i \in DOMAIN log : ~Mine(w, log[i])
                 /\ \A i \in DOMAIN pending : ~Mine(w, pending[i])
           /\ \E n \in Nodes :
                Turns(w, [at |-> "send", target |-> n, try |-> call[w].try, epoch |-> call[w].epoch])
           /\ Frees(w)
           /\ UNCHANGED <<log, machine, pending, applied, leader, session, answer, faults>>
<1>1. PICK n \in Nodes : call' = [call EXCEPT ![w].at = "send", ![w].target = n]
  BY DEF NotLeader
<1> DEFINE c == [at |-> "send", target |-> n, try |-> call[w].try, epoch |-> call[w].epoch]
<1>2. c \in Calls
  BY CallFields DEF Calls
<1>4. Turns(w, c)
  <2>1. call \in [Writers -> Calls]
    BY DEF Types
  <2>2. call' \in [Writers -> Calls]
    BY <2>1, <1>1 DEF Calls
  <2>3. \A v \in Writers \ {w} : call'[v] = call[v]
    BY <2>1, <1>1
  <2>4. call'[w] = c
    BY <2>1, <1>1 DEF Calls
  <2> QED
    BY <2>2, <2>3, <2>4, <1>2 DEF Turns
<1> QED
  BY <1>4, UnlockFrees DEF NotLeader

LEMMA UnreachableEffect ==
    ASSUME Types, NEW w \in Writers, Unreachable(w)
    PROVE  /\ call[w].at # "idle" /\ faults' = faults + 1 /\ faults' \in 0 .. MaxFaults /\ faults' # 0
           /\ \E n \in Nodes :
                Turns(w, [at |-> "send", target |-> n, try |-> call[w].try + 1, epoch |-> call[w].epoch])
           /\ Frees(w)
           /\ UNCHANGED <<log, machine, pending, applied, leader, session, answer>>
<1>1. PICK n \in Nodes : call' = [call EXCEPT ![w].at = "send", ![w].target = n, ![w].try = @ + 1]
  BY DEF Unreachable
<1> DEFINE c == [at |-> "send", target |-> n, try |-> call[w].try + 1, epoch |-> call[w].epoch]
<1>2. c \in Calls
  BY CallFields DEF Calls
<1>4. Turns(w, c)
  <2>1. call \in [Writers -> Calls]
    BY DEF Types
  <2>2. call' \in [Writers -> Calls]
    BY <2>1, <1>1 DEF Calls
  <2>3. \A v \in Writers \ {w} : call'[v] = call[v]
    BY <2>1, <1>1
  <2>4. call'[w] = c
    BY <2>1, <1>1 DEF Calls
  <2> QED
    BY <2>2, <2>3, <2>4, <1>2 DEF Turns
<1>5. faults' = faults + 1 /\ faults' \in 0 .. MaxFaults /\ faults' # 0
  BY StepNumbers DEF Types, Unreachable
<1> QED
  BY <1>4, <1>5, UnlockFrees DEF Unreachable

(* The call of w ends with the answer `what`; its session then has the epoch *)
(* e and the first position f.                                               *)
Concluded(w, what, e, f) ==
    /\ call[w].at # "idle" /\ session[w].step \in Steps
    /\ answer' = [answer EXCEPT ![<<w, session[w].step>>] = what]
    /\ session' = [session EXCEPT ![w] = [step |-> IF what \in Replied THEN session[w].step + 1 ELSE Over,
                                          epoch |-> e, first |-> f]]
    /\ Turns(w, NoCall) /\ Frees(w)
    /\ UNCHANGED <<log, machine, pending, applied, leader>>

(* ... which the log justifies. *)
Grounds(w, what, e, f) ==
    /\ what \in Answers /\ e \in Nat /\ f \in Nat
    /\ session[w].step > 0 => e = session[w].epoch /\ f = session[w].first
    /\ what \in Replied => Has(machine, w, session[w].step)
    /\ what \in Replied /\ session[w].step = 0 =>
         e = Ident(machine, w, 0).epoch /\ f = Ident(machine, w, 0).wal_end
    /\ what \in Refusals /\ session[w].step \in Appends => Barred(machine, session, w, session[w].step)

LEMMA NoCallType == NoCall \in Calls
BY DEF NoCall, Calls

LEMMA GiveUpEffect ==
    ASSUME Types, Sessions, NEW w \in Writers, GiveUp(w)
    PROVE  /\ faults' \in 0 .. MaxFaults /\ faults' # 0
           /\ \E what, e, f : Concluded(w, what, e, f) /\ Grounds(w, what, e, f)
<1>1. call[w].at # "idle" /\ session[w].step \in Steps /\ session[w].step # Over
  BY CallFields, StepNumbers DEF GiveUp, Sessions
<1>2. Turns(w, NoCall) /\ Frees(w)
  BY NoCallType, TurnsCall, UnlockFrees DEF GiveUp
<1>3. session' = [session EXCEPT ![w] = [step |-> Over, epoch |-> session[w].epoch, first |-> session[w].first]]
  <2>1. session \in [Writers -> [step : 0 .. Over, epoch : Nat, first : Nat]]
    BY DEF Types
  <2>2. session' = [session EXCEPT ![w].step = Over]
    BY DEF GiveUp
  <2>3. [session[w] EXCEPT !.step = Over] = [step |-> Over, epoch |-> session[w].epoch, first |-> session[w].first]
    BY <2>1
  <2> QED
    BY <2>1, <2>2, <2>3
<1>4. Concluded(w, "Unknown", session[w].epoch, session[w].first)
  BY <1>1, <1>2, <1>3 DEF GiveUp, Concluded, Replied
<1>5. Grounds(w, "Unknown", session[w].epoch, session[w].first)
  BY CallFields DEF Grounds, Answers, Replied, Refusals
<1>6. faults' \in 0 .. MaxFaults /\ faults' # 0
  BY StepNumbers DEF GiveUp, Types
<1> QED
  BY <1>4, <1>5, <1>6

LEMMA ReplyEffect ==
    ASSUME Types, Sessions, Logged, NEW w \in Writers, Reply(w)
    PROVE  /\ faults' = faults /\ call[w].at = "wait"
           /\ \E i \in DOMAIN log : \E what, e, f :
                /\ Concluded(w, what, e, f) /\ Grounds(w, what, e, f)
                /\ i <= applied[call[w].target] /\ log[i].header.request = <<w, session[w].step>>
                /\ what = log[i].outcome \/ what = "NotCommitted"
<1>1. call[w].at = "wait" /\ session[w].step \in Steps /\ session[w].step # Over /\ call[w].target \in Nodes
  BY CallFields, StepNumbers DEF Reply, Sessions
<1>2. PICK i \in 1 .. applied[call[w].target] :
          /\ Mine(w, log[i])
          /\ Answered(w, IF log[i].outcome \in Replied /\ Pruned(log[i].header, call[w].target)
                         THEN "NotCommitted" ELSE log[i].outcome,
                      log[i].identity)
  BY DEF Reply
<1>3. i \in DOMAIN log /\ i <= applied[call[w].target]
  BY <1>1 DEF Types
<1>4. PICK what : /\ what = log[i].outcome \/ what = "NotCommitted"
                  /\ Answered(w, what, log[i].identity)
  BY <1>2
<1>5. what \in Answers
  BY <1>3, <1>4 DEF Types, Outcomes, Answers
<1>6. log[i].header.request = <<w, session[w].step>>
  BY <1>2 DEF Mine
<1>7. Entry(machine, session, w, session[w].step, log[i], i)
  BY <1>1, <1>3, <1>6 DEF Logged
<1>8. what \in Replied => what = log[i].outcome
  BY <1>4 DEF Replied
<1>9. what \in Replied => /\ Has(machine, w, session[w].step)
                          /\ log[i].identity = Ident(machine, w, session[w].step)
  BY <1>7, <1>8 DEF Entry
<1>10. what \in Refusals /\ session[w].step \in Appends => Barred(machine, session, w, session[w].step)
  BY <1>4, <1>7 DEF Entry, Refusals, Replied
<1>11. Turns(w, NoCall) /\ Frees(w) /\ faults' = faults
  BY <1>4, NoCallType, TurnsCall, UnlockFrees DEF Answered
<1>12. <<w, session[w].step>> \in Requests
  BY <1>1, RequestNames
<1>13. Ident(machine, w, session[w].step) \in Identities
  BY <1>12 DEF Types, Machines, Ident
<1> DEFINE new == what \in Replied /\ session[w].step = 0
           e == IF new THEN log[i].identity.epoch ELSE session[w].epoch
           f == IF new THEN log[i].identity.wal_end ELSE session[w].first
<1>14. e \in Nat /\ f \in Nat
  BY <1>9, <1>13, CallFields DEF Identities
<1>15. session' = [session EXCEPT ![w] = [step |-> IF what \in Replied THEN session[w].step + 1 ELSE Over,
                                          epoch |-> e, first |-> f]]
  <2>1. session \in [Writers -> [step : 0 .. Over, epoch : Nat, first : Nat]]
    BY DEF Types
  <2>2. session' = [session EXCEPT ![w] =
          IF what \notin Replied THEN [session[w] EXCEPT !.step = Over]
          ELSE IF session[w].step = 0
               THEN [step |-> 1, epoch |-> log[i].identity.epoch, first |-> log[i].identity.wal_end]
               ELSE [session[w] EXCEPT !.step = session[w].step + 1]]
    BY <1>4 DEF Answered
  <2>3. CASE what \notin Replied
    <3>1. [session[w] EXCEPT !.step = Over] = [step |-> Over, epoch |-> session[w].epoch, first |-> session[w].first]
      BY <2>1
    <3> QED
      BY <2>2, <2>3, <3>1
  <2>4. CASE what \in Replied /\ session[w].step = 0
    BY <2>1, <2>2, <2>4
  <2>5. CASE what \in Replied /\ session[w].step # 0
    <3>1. [session[w] EXCEPT !.step = session[w].step + 1] =
             [step |-> session[w].step + 1, epoch |-> session[w].epoch, first |-> session[w].first]
      BY <2>1
    <3> QED
      BY <2>2, <2>5, <3>1
  <2> QED
    BY <2>3, <2>4, <2>5
<1>16. session[w].step > 0 => ~new
  OBVIOUS
<1>17. Grounds(w, what, e, f)
  BY <1>5, <1>9, <1>10, <1>14, <1>16 DEF Grounds
<1> HIDE DEF e, f
<1>18. Concluded(w, what, e, f)
  BY <1>1, <1>4, <1>11, <1>15 DEF Concluded, Answered
<1> QED
  BY <1>1, <1>3, <1>4, <1>6, <1>11, <1>17, <1>18

-----------------------------------------------------------------------------
(* The leader's proposals. *)

Proposals == [header : Headers, try : Nat]

LEMMA HeaderForBuilt ==
    ASSUME Types, Sessions, NEW w \in Writers, call[w].at = "propose"
    PROVE  /\ HeaderFor(w, call[w].epoch) \in Headers
           /\ BuiltBy(session, answer, w, session[w].step, HeaderFor(w, call[w].epoch))
           /\ session[w].step \in Steps
           /\ HeaderFor(w, call[w].epoch).epoch = call[w].epoch
<1> DEFINE k == session[w].step
           h == HeaderFor(w, call[w].epoch)
<1>1. k \in Steps /\ k # Over /\ k \in Nat /\ session[w].first \in Nat /\ call[w].epoch \in Nat
  BY CallFields, StepNumbers DEF Sessions
<1>2. \A j \in Steps : j < k => answer[<<w, j>>] \in Replied
  BY <1>1 DEF Sessions, Told
<1>3. k > 0 => call[w].epoch = session[w].epoch
  BY <1>1 DEF Sessions
<1>4. <<w, k>> \in AnyRequest
  BY <1>1 DEF AnyRequest
<1>5. <<w, 0, 0>> \in Hashes /\ <<w, 0, 1>> \in Hashes /\ EmptyHash \in Hashes
  BY DEF Hashes, EmptyHash, TwoBuckets
<1>6. CASE k = 0
  <2>1. h = HeaderOf(<<w, k>>, "WriterLease", <<w, 0, 0>>, call[w].epoch, 0, 0, NoBucket)
    BY <1>6 DEF HeaderFor
  <2>2. k \notin Appends /\ k # MaxAppends + 1
    BY <1>6, StepNumbers
  <2> HIDE DEF h
  <2>3. h \in Headers /\ h.epoch = call[w].epoch
    BY <1>1, <1>4, <1>5, <2>1 DEF HeaderOf, Headers, Kinds, TwoBuckets
  <2>4. h.request = <<w, k>> /\ h.kind = "WriterLease"
    BY <2>1 DEF HeaderOf
  <2>5. BuiltBy(session, answer, w, k, h)
    BY <1>1, <1>2, <1>6, <2>2, <2>4 DEF BuiltBy
  <2> QED
    BY <1>1, <2>3, <2>5 DEF h
<1>7. CASE k \in Appends
  <2>0. k > 0 /\ k # MaxAppends + 1 /\ k # 0
    BY <1>7, StepNumbers DEF Appends
  <2>1. h = HeaderOf(<<w, k>>, "Wal", <<w, 0, 1>>, call[w].epoch, session[w].first + k - 1,
                     session[w].first + k - 1 + 1, NoBucket)
    BY <1>7, <2>0 DEF HeaderFor, Appends
  <2>2. session[w].first + k - 1 \in Nat
    BY <1>1, <2>0
  <2> HIDE DEF h
  <2>3. h \in Headers /\ h.epoch = call[w].epoch
    BY <1>1, <1>4, <1>5, <2>1, <2>2 DEF HeaderOf, Headers, Kinds, TwoBuckets
  <2>4. /\ h.request = <<w, k>> /\ h.kind = "Wal" /\ h.hash = <<w, 0, 1>>
        /\ h.lo = session[w].first + k - 1 /\ h.hi = h.lo + 1 /\ h.epoch = session[w].epoch
    BY <1>3, <2>0, <2>1 DEF HeaderOf
  <2>5. BuiltBy(session, answer, w, k, h)
    BY <1>1, <1>2, <1>7, <2>0, <2>4 DEF BuiltBy
  <2> QED
    BY <1>1, <2>3, <2>5 DEF h
<1>8. CASE k = MaxAppends + 1
  <2>0. k > 0 /\ k # 0 /\ k \notin 1 .. MaxAppends
    BY <1>8, StepNumbers
  <2>1. h = HeaderOf(<<w, k>>, "ReleaseWriter", EmptyHash, call[w].epoch, 0, 0, NoBucket)
    BY <1>8, <2>0 DEF HeaderFor
  <2> HIDE DEF h
  <2>3. h \in Headers /\ h.epoch = call[w].epoch
    BY <1>1, <1>4, <1>5, <2>1 DEF HeaderOf, Headers, Kinds, TwoBuckets
  <2>4. h.request = <<w, k>> /\ h.kind = "ReleaseWriter" /\ h.epoch = session[w].epoch
    BY <1>3, <2>0, <2>1 DEF HeaderOf
  <2>5. BuiltBy(session, answer, w, k, h)
    BY <1>1, <1>2, <1>8, <2>0, <2>4 DEF BuiltBy, Appends
  <2> QED
    BY <1>1, <2>3, <2>5 DEF h
<1> QED
  BY <1>1, <1>6, <1>7, <1>8, StepNumbers

(* The proposals grow by c. *)
Proposes(c) ==
    /\ c \in Proposals /\ pending' \in Seq(Proposals)
    /\ Len(pending) \in Nat /\ Len(pending') = Len(pending) + 1
    /\ DOMAIN pending = 1 .. Len(pending) /\ DOMAIN pending' = 1 .. Len(pending) + 1
    /\ \A i \in DOMAIN pending : pending'[i] = pending[i]
    /\ pending'[Len(pending) + 1] = c

LEMMA AppendProposes ==
    ASSUME Types, NEW c \in Proposals, pending' = Append(pending, c)
    PROVE  Proposes(c)
<1>1. pending \in Seq(Proposals)
  BY DEF Types, Proposals
<1> QED
  BY <1>1 DEF Proposes

LEMMA ProposeProposes ==
    ASSUME Types, Sessions, NEW w \in Writers, Propose(w)
    PROVE  Proposes(Command(HeaderFor(w, call[w].epoch), call[w].try))
<1>1. Command(HeaderFor(w, call[w].epoch), call[w].try) \in Proposals
  BY HeaderForBuilt, CallFields, ProposeEffect DEF Command, Proposals
<1> QED
  BY <1>1, AppendProposes, ProposeEffect

LEMMA ArchiverProposes ==
    ASSUME Types, Checkpoint \/ Release
    PROVE  \E h \in Headers : ByArchiver(h) /\ Proposes(Command(h, 0))
<1>1. machine.wal_end \in Nat /\ machine.archive_lsn \in Nat
  BY DEF Types, Machines
<1>2. CASE Checkpoint
  <2> DEFINE h == HeaderOf(<<"archive", machine.wal_end>>, "ArchiveCheckpoint",
                           <<NoBucket, machine.archive_lsn, machine.wal_end>>, 0,
                           machine.archive_lsn, machine.wal_end, NoBucket)
  <2>1. h \in Headers /\ ByArchiver(h)
    BY <1>1 DEF HeaderOf, Headers, ByArchiver, AnyRequest, Hashes, TwoBuckets, Kinds
  <2>2. pending' = Append(pending, Command(h, 0))
    BY <1>2 DEF Checkpoint
  <2> HIDE DEF h
  <2>3. Command(h, 0) \in Proposals
    BY <2>1 DEF Command, Proposals
  <2> QED
    BY <2>1, <2>2, <2>3, AppendProposes
<1>3. CASE Release
  <2> DEFINE h == HeaderOf(<<"archive", machine.archive_lsn>>, "ReleaseWal", EmptyHash, 0,
                           machine.archive_lsn, machine.archive_lsn, NoBucket)
  <2>1. h \in Headers /\ ByArchiver(h)
    BY <1>1 DEF HeaderOf, Headers, ByArchiver, AnyRequest, Hashes, TwoBuckets, Kinds, EmptyHash
  <2>2. pending' = Append(pending, Command(h, 0))
    BY <1>3 DEF Release
  <2> HIDE DEF h
  <2>3. Command(h, 0) \in Proposals
    BY <2>1 DEF Command, Proposals
  <2> QED
    BY <2>1, <2>2, <2>3, AppendProposes
<1> QED
  BY <1>2, <1>3

LEMMA ElectEffect ==
    ASSUME Types, NEW n \in Nodes, Elect(n)
    PROVE  /\ leader' \in Nodes /\ faults' \in 0 .. MaxFaults /\ faults' # 0
           /\ pending' \in Seq(Proposals)
           /\ \A i \in DOMAIN pending' : i \in DOMAIN pending /\ pending'[i] = pending[i]
           /\ UNCHANGED <<log, machine, applied, lock, call, session, answer>>
<1>1. pending \in Seq(Proposals)
  BY DEF Types, Proposals
<1>2. PICK kept \in 0 .. Len(pending) : pending' = SubSeq(pending, 1, kept)
  BY DEF Elect
<1>3. /\ pending' \in Seq(Proposals)
      /\ \A i \in DOMAIN pending' : i \in DOMAIN pending /\ pending'[i] = pending[i]
  BY <1>1, <1>2
<1>4. faults' \in 0 .. MaxFaults /\ faults' # 0
  BY StepNumbers DEF Types, Elect
<1> QED
  BY <1>3, <1>4 DEF Elect

-----------------------------------------------------------------------------
(* What every step does. *)

LEMMA FrameStep ==
    ASSUME Next
    PROVE  Commit \/ UNCHANGED <<log, machine>>
<1>1. ASSUME NEW w \in Writers, Start(w) \/ Deliver(w) \/ Propose(w) PROVE UNCHANGED <<log, machine>>
  BY <1>1 DEF Start, Deliver, Propose
<1>2. ASSUME NEW w \in Writers, NotLeader(w) \/ Unreachable(w) PROVE UNCHANGED <<log, machine>>
  BY <1>2 DEF NotLeader, Unreachable
<1>3. ASSUME NEW w \in Writers, GiveUp(w) \/ Reply(w) PROVE UNCHANGED <<log, machine>>
  BY <1>3 DEF GiveUp, Reply, Answered
<1>4. ASSUME NEW n \in Nodes, ApplyNext(n) \/ Elect(n) PROVE UNCHANGED <<log, machine>>
  BY <1>4 DEF ApplyNext, Elect
<1>5. ASSUME Checkpoint \/ Release PROVE UNCHANGED <<log, machine>>
  BY <1>5 DEF Checkpoint, Release
<1> QED
  BY <1>1, <1>2, <1>3, <1>4, <1>5 DEF Next

LEMMA AnswerStep ==
    ASSUME Types, Sessions, Logged, Next
    PROVE  \/ UNCHANGED <<session, answer>>
           \/ \E w \in Writers : \E what, e, f : Concluded(w, what, e, f) /\ Grounds(w, what, e, f)
<1>1. ASSUME NEW w \in Writers, GiveUp(w)
      PROVE  \E what, e, f : Concluded(w, what, e, f) /\ Grounds(w, what, e, f)
  BY <1>1, GiveUpEffect
<1>2. ASSUME NEW w \in Writers, Reply(w)
      PROVE  \E what, e, f : Concluded(w, what, e, f) /\ Grounds(w, what, e, f)
  BY <1>2, ReplyEffect
<1>3. \/ \E w \in Writers : GiveUp(w) \/ Reply(w)
      \/ UNCHANGED <<session, answer>>
  BY DEF Next, Start, Deliver, Propose, NotLeader, Unreachable,
         Commit, ApplyNext, Elect, Checkpoint, Release
<1> QED
  BY <1>1, <1>2, <1>3

(* The sessions and answers after it. *)
Settles(w, what, e, f) ==
    /\ session' \in [Writers -> [step : 0 .. Over, epoch : Nat, first : Nat]]
    /\ answer' \in [Writers \X Steps -> Answers]
    /\ session'[w].step = IF what \in Replied THEN session[w].step + 1 ELSE Over
    /\ session'[w].epoch = e /\ session'[w].first = f
    /\ \A v \in Writers \ {w} : session'[v] = session[v]
    /\ answer'[<<w, session[w].step>>] = what
    /\ \A v \in Writers, k \in Steps :
         v # w \/ k # session[w].step => answer'[<<v, k>>] = answer[<<v, k>>]

LEMMA ConcludedState ==
    ASSUME Types, NEW w \in Writers, NEW what, NEW e, NEW f,
           Concluded(w, what, e, f), Grounds(w, what, e, f)
    PROVE  Settles(w, what, e, f)
<1> DEFINE new == [step |-> IF what \in Replied THEN session[w].step + 1 ELSE Over, epoch |-> e, first |-> f]
<1>1. /\ session \in [Writers -> [step : 0 .. Over, epoch : Nat, first : Nat]]
      /\ answer \in [Writers \X Steps -> Answers]
  BY DEF Types
<1>2. session[w].step \in Steps /\ what \in Answers /\ e \in Nat /\ f \in Nat
  BY DEF Concluded, Grounds
<1>3. new \in [step : 0 .. Over, epoch : Nat, first : Nat]
  <2>1. session[w].step + 1 \in 0 .. Over /\ Over \in 0 .. Over
    BY <1>2, StepNumbers DEF Steps, Over
  <2> QED
    BY <2>1, <1>2
<1>4. session' = [session EXCEPT ![w] = new] /\ answer' = [answer EXCEPT ![<<w, session[w].step>>] = what]
  BY DEF Concluded
<1>5. new.step = (IF what \in Replied THEN session[w].step + 1 ELSE Over) /\ new.epoch = e /\ new.first = f
  OBVIOUS
<1> HIDE DEF new
<1>6. /\ session' \in [Writers -> [step : 0 .. Over, epoch : Nat, first : Nat]]
      /\ session'[w] = new /\ \A v \in Writers \ {w} : session'[v] = session[v]
  BY <1>1, <1>3, <1>4
<1>7. <<w, session[w].step>> \in Writers \X Steps
  BY <1>2
<1>8. /\ answer' \in [Writers \X Steps -> Answers]
      /\ answer'[<<w, session[w].step>>] = what
  BY <1>1, <1>2, <1>4, <1>7
<1>9. ASSUME NEW v \in Writers, NEW k \in Steps, v # w \/ k # session[w].step
      PROVE  answer'[<<v, k>>] = answer[<<v, k>>]
  <2>1. <<v, k>> \in Writers \X Steps /\ <<v, k>> # <<w, session[w].step>>
    BY <1>9
  <2> QED
    BY <1>1, <1>4, <2>1
<1> QED
  BY <1>5, <1>6, <1>8, <1>9 DEF Settles

(* Sessions only move on, and what they were told stays. *)
Progress ==
    \A w \in Writers :
      /\ session'[w].step \in Nat /\ session[w].step <= session'[w].step
      /\ session[w].step > 0 => session'[w].epoch = session[w].epoch /\ session'[w].first = session[w].first
      /\ \A k \in Steps : k < session[w].step => answer'[<<w, k>>] = answer[<<w, k>>]

LEMMA ProgressStep ==
    ASSUME Types, Sessions, Logged, Next
    PROVE  /\ Progress
           /\ session' \in [Writers -> [step : 0 .. Over, epoch : Nat, first : Nat]]
           /\ answer' \in [Writers \X Steps -> Answers]
<1>1. CASE UNCHANGED <<session, answer>>
  BY <1>1, CallFields, StepNumbers DEF Progress, Types
<1>2. ASSUME NEW w \in Writers, NEW what, NEW e, NEW f,
             Concluded(w, what, e, f), Grounds(w, what, e, f)
      PROVE  /\ Progress
             /\ session' \in [Writers -> [step : 0 .. Over, epoch : Nat, first : Nat]]
             /\ answer' \in [Writers \X Steps -> Answers]
  <2>0. Settles(w, what, e, f)
    BY <1>2, ConcludedState
  <2>1. session[w].step \in Steps /\ (session[w].step > 0 => e = session[w].epoch /\ f = session[w].first)
    BY <1>2 DEF Concluded, Grounds
  <2>2. session'[w].step \in Nat /\ session[w].step <= session'[w].step
    BY <2>0, <2>1, StepNumbers DEF Over, Steps, Settles
  <2>3. session'[w].epoch = e /\ session'[w].first = f
    BY <2>0 DEF Settles
  <2>4. ASSUME NEW k \in Steps, k < session[w].step
        PROVE  answer'[<<w, k>>] = answer[<<w, k>>]
    <3>1. k # session[w].step
      BY <2>1, <2>4, StepNumbers
    <3> QED
      BY <2>0, <3>1 DEF Settles
  <2>5. ASSUME NEW v \in Writers, v # w
        PROVE  /\ session'[v] = session[v]
               /\ \A k \in Steps : answer'[<<v, k>>] = answer[<<v, k>>]
    BY <2>0, <2>5 DEF Settles
  <2>6. \A v \in Writers : session[v].step \in Nat
    BY CallFields, StepNumbers
  <2>7. Progress
    BY <2>1, <2>2, <2>3, <2>4, <2>5, <2>6 DEF Progress
  <2> QED
    BY <2>0, <2>7 DEF Settles
<1> QED
  BY <1>1, <1>2, AnswerStep

LEMMA BuiltStable ==
    ASSUME Types, Progress, NEW h, Built(session, answer, h)
    PROVE  Built(session', answer', h)
<1>1. ASSUME NEW w \in Writers, NEW k \in Steps, BuiltBy(session, answer, w, k, h)
      PROVE  BuiltBy(session', answer', w, k, h)
  <2>1. /\ session[w].step \in Nat /\ k <= session[w].step /\ k \in Nat
    BY <1>1, CallFields, StepNumbers DEF BuiltBy, Progress
  <2>2. k > 0 => session'[w].epoch = session[w].epoch /\ session'[w].first = session[w].first
    BY <2>1 DEF Progress
  <2>3. \A j \in Steps : j < k => answer'[<<w, j>>] \in Replied
    <3>1. \A j \in Steps : j < k => j < session[w].step
      BY <2>1, StepNumbers
    <3> QED
      BY <1>1, <3>1 DEF BuiltBy, Progress
  <2>4. k \in Appends \/ k = MaxAppends + 1 => k > 0
    BY StepNumbers DEF Appends
  <2>5. k <= session'[w].step
    BY <1>1, <2>1, CallFields, StepNumbers DEF Progress
  <2> QED
    BY <1>1, <2>2, <2>3, <2>4, <2>5 DEF BuiltBy
<1> QED
  BY <1>1 DEF Built

LEMMA PendingStep ==
    ASSUME Types, Sessions, Next
    PROVE  /\ pending' \in Seq(Proposals)
           /\ \A i \in DOMAIN pending' : \/ \E j \in DOMAIN pending : pending'[i] = pending[j]
                                         \/ Built(session, answer, pending'[i].header)
<1> DEFINE Goal == /\ pending' \in Seq(Proposals)
                   /\ \A i \in DOMAIN pending' : \/ \E j \in DOMAIN pending : pending'[i] = pending[j]
                                                 \/ Built(session, answer, pending'[i].header)
<1>1. CASE UNCHANGED pending
  BY <1>1 DEF Types, Proposals
<1>2. CASE Commit
  BY <1>2, CommitEffect DEF Proposals
<1>3. ASSUME NEW h \in Headers, NEW try \in Nat, Built(session, answer, h), Proposes(Command(h, try))
      PROVE  Goal
  <2>1. \A i \in DOMAIN pending' : i \in DOMAIN pending \/ i = Len(pending) + 1
    BY <1>3 DEF Proposes
  <2>2. pending'[Len(pending) + 1].header = h
    BY <1>3 DEF Proposes, Command
  <2> QED
    BY <1>3, <2>1, <2>2 DEF Proposes
<1>4. ASSUME NEW w \in Writers, Propose(w)
      PROVE  Goal
  <2>1. HeaderFor(w, call[w].epoch) \in Headers /\ call[w].try \in Nat
    BY <1>4, ProposeEffect, HeaderForBuilt, CallFields
  <2>2. Built(session, answer, HeaderFor(w, call[w].epoch))
    BY <1>4, ProposeEffect, HeaderForBuilt DEF Built
  <2>3. Proposes(Command(HeaderFor(w, call[w].epoch), call[w].try))
    BY <1>4, ProposeProposes
  <2> QED
    BY <1>3, <2>1, <2>2, <2>3
<1>5. CASE Checkpoint \/ Release
  <2>1. PICK h \in Headers : ByArchiver(h) /\ Proposes(Command(h, 0))
    BY <1>5, ArchiverProposes
  <2>2. Built(session, answer, h)
    BY <2>1 DEF Built
  <2> QED
    BY <1>3, <2>1, <2>2
<1>6. ASSUME NEW n \in Nodes, Elect(n)
      PROVE  Goal
  BY <1>6, ElectEffect
<1>7. \/ Commit \/ Checkpoint \/ Release \/ UNCHANGED pending
      \/ \E w \in Writers : Propose(w)
      \/ \E n \in Nodes : Elect(n)
  BY DEF Next, Start, Deliver, NotLeader, Unreachable, GiveUp, Reply, Answered, ApplyNext
<1> QED
  BY <1>1, <1>2, <1>4, <1>5, <1>6, <1>7

LEMMA LogStep ==
    ASSUME Types, Headed, Next
    PROVE  /\ machine' \in Machines
           /\ Len(log') \in Nat /\ DOMAIN log' = 1 .. Len(log') /\ Len(log) <= Len(log')
           /\ Len(log) \in Nat /\ DOMAIN log = 1 .. Len(log)
           /\ log' \in Seq({log'[i] : i \in DOMAIN log'})
           /\ \A i \in DOMAIN log' : /\ log'[i].header \in Headers /\ log'[i].outcome \in Outcomes
                                     /\ log'[i].epoch \in Nat
           /\ \A i \in DOMAIN log' : \/ i \in DOMAIN log /\ log'[i] = log[i]
                                     \/ Commit /\ i = Len(log) + 1
<1>0. Len(log) \in Nat /\ DOMAIN log = 1 .. Len(log)
  BY LogLength
<1>1. CASE UNCHANGED <<log, machine>>
  BY <1>0, <1>1 DEF Types
<1>2. CASE Commit
  <2>1. machine' \in Machines
    BY <1>2, CommitGrows
  <2>2. machine'.outcome \in Outcomes /\ machine'.writer_epoch \in Nat
    BY <2>1 DEF Machines
  <2>3. /\ Len(log') = Len(log) + 1 /\ DOMAIN log' = 1 .. Len(log) + 1
        /\ \A i \in DOMAIN log : log'[i] = log[i]
        /\ log' \in Seq({log'[i] : i \in DOMAIN log'})
    BY <1>2, CommitEffect
  <2>4. \A i \in DOMAIN log' : i \in DOMAIN log \/ i = Len(log) + 1
    BY <1>0, <2>3
  <2>5. /\ log'[Len(log) + 1].header \in Headers /\ log'[Len(log) + 1].outcome \in Outcomes
        /\ log'[Len(log) + 1].epoch \in Nat
    BY <1>2, <2>2, CommitEffect
  <2>6. \A i \in DOMAIN log : /\ log[i].header \in Headers /\ log[i].outcome \in Outcomes
                              /\ log[i].epoch \in Nat
    BY DEF Types
  <2>7. \A i \in DOMAIN log' : /\ log'[i].header \in Headers /\ log'[i].outcome \in Outcomes
                               /\ log'[i].epoch \in Nat
    BY <2>3, <2>4, <2>5, <2>6
  <2> QED
    BY <1>0, <1>2, <2>1, <2>3, <2>4, <2>7
<1> QED
  BY <1>1, <1>2, FrameStep

LEMMA TypesStep ==
    ASSUME Types, Sessions, Headed, Logged, Next
    PROVE  Types'
<1>1. /\ machine' \in Machines
      /\ log' \in Seq({log'[i] : i \in DOMAIN log'})
      /\ \A i \in DOMAIN log' : /\ log'[i].header \in Headers /\ log'[i].outcome \in Outcomes
                                /\ log'[i].epoch \in Nat
      /\ Len(log') \in Nat /\ Len(log) \in Nat /\ Len(log) <= Len(log')
  BY LogStep
<1>2. pending' \in Seq([header : Headers, try : Nat])
  BY PendingStep DEF Proposals
<1>3. /\ session' \in [Writers -> [step : 0 .. Over, epoch : Nat, first : Nat]]
      /\ answer' \in [Writers \X Steps -> Answers]
  BY ProgressStep
<1>4. applied' \in [Nodes -> Nat] /\ \A n \in Nodes : applied'[n] <= Len(log')
  <2>1. applied \in [Nodes -> Nat] /\ \A n \in Nodes : applied[n] <= Len(log)
    BY DEF Types
  <2>2. CASE UNCHANGED applied
    BY <1>1, <2>1, <2>2
  <2>3. ASSUME NEW n \in Nodes, ApplyNext(n)
        PROVE  applied' \in [Nodes -> Nat] /\ \A m \in Nodes : applied'[m] <= Len(log')
    <3>1. applied[n] < Len(log) /\ applied' = [applied EXCEPT ![n] = @ + 1] /\ log' = log
      BY <2>3 DEF ApplyNext
    <3> QED
      BY <1>1, <2>1, <3>1
  <2>4. UNCHANGED applied \/ \E n \in Nodes : ApplyNext(n)
    BY DEF Next, Start, Deliver, Propose, NotLeader, Unreachable, GiveUp, Reply, Answered, Commit,
           Elect, Checkpoint, Release
  <2> QED
    BY <2>2, <2>3, <2>4
<1>5. leader' \in Nodes
  BY DEF Types, Next, Start, Deliver, Propose, NotLeader, Unreachable, GiveUp, Reply, Answered, Commit,
         ApplyNext, Elect, Checkpoint, Release
<1>6. lock' \in [Nodes -> Writers \cup {Free}] /\ call' \in [Writers -> Calls] /\ faults' \in 0 .. MaxFaults
  <2>0. lock \in [Nodes -> Writers \cup {Free}] /\ call \in [Writers -> Calls] /\ faults \in 0 .. MaxFaults
    BY DEF Types
  <2> DEFINE Goal == /\ lock' \in [Nodes -> Writers \cup {Free}] /\ call' \in [Writers -> Calls]
                     /\ faults' \in 0 .. MaxFaults
  <2>1. ASSUME NEW w \in Writers, Start(w) PROVE Goal
    BY <2>0, <2>1, StartEffect DEF Turns
  <2>2. ASSUME NEW w \in Writers, Deliver(w) PROVE Goal
    <3>1. call' \in [Writers -> Calls] /\ faults' = faults
      BY <2>2, DeliverEffect DEF Turns
    <3>2. lock' = lock \/ lock' = [lock EXCEPT ![call[w].target] = w]
      BY <2>2, DeliverEffect
    <3> QED
      BY <2>0, <3>1, <3>2
  <2>3. ASSUME NEW w \in Writers, Propose(w) PROVE Goal
    BY <2>0, <2>3, ProposeEffect DEF Turns
  <2>4. ASSUME NEW w \in Writers, NotLeader(w) PROVE Goal
    BY <2>0, <2>4, NotLeaderEffect DEF Turns, Frees
  <2>5. ASSUME NEW w \in Writers, Unreachable(w) PROVE Goal
    BY <2>0, <2>5, UnreachableEffect DEF Turns, Frees
  <2>6. ASSUME NEW w \in Writers, GiveUp(w) PROVE Goal
    <3>1. faults' \in 0 .. MaxFaults /\ \E what, e, f : Concluded(w, what, e, f)
      BY <2>6, GiveUpEffect
    <3> QED
      BY <3>1 DEF Concluded, Turns, Frees
  <2>7. ASSUME NEW w \in Writers, Reply(w) PROVE Goal
    <3>1. faults' = faults /\ \E what, e, f : Concluded(w, what, e, f)
      BY <2>7, ReplyEffect
    <3> QED
      BY <2>0, <3>1 DEF Concluded, Turns, Frees
  <2>8. ASSUME NEW n \in Nodes, Elect(n) PROVE Goal
    BY <2>0, <2>8, ElectEffect
  <2>9. \/ UNCHANGED <<lock, call, faults>>
        \/ \E w \in Writers : \/ Start(w) \/ Deliver(w) \/ Propose(w) \/ NotLeader(w)
                              \/ Unreachable(w) \/ GiveUp(w) \/ Reply(w)
        \/ \E n \in Nodes : Elect(n)
    BY DEF Next, Commit, ApplyNext, Checkpoint, Release
  <2>10. CASE UNCHANGED <<lock, call, faults>>
    BY <2>0, <2>10
  <2> HIDE DEF Goal
  <2>11. Goal
    BY <2>1, <2>2, <2>3, <2>4, <2>5, <2>6, <2>7, <2>8, <2>9, <2>10 DEF Goal
  <2> QED
    BY <2>11 DEF Goal
<1> QED
  BY <1>1, <1>2, <1>3, <1>4, <1>5, <1>6 DEF Types

LEMMA HeadedStep ==
    ASSUME Types, Sessions, Headed, Logged, Next
    PROVE  Headed'
<1>1. Progress
  BY ProgressStep
<1>2. \A i \in DOMAIN pending' : Built(session, answer, pending'[i].header)
  BY PendingStep DEF Headed
<1>3. \A i \in DOMAIN log' : Built(session, answer, log'[i].header)
  <2> SUFFICES ASSUME NEW i \in DOMAIN log' PROVE Built(session, answer, log'[i].header)
    OBVIOUS
  <2>1. CASE i \in DOMAIN log /\ log'[i] = log[i]
    BY <2>1 DEF Headed
  <2>2. CASE Commit /\ i = Len(log) + 1
    BY <2>2, CommitEffect DEF Headed
  <2> QED
    BY <2>1, <2>2, LogStep
<1>4. \A h : Built(session, answer, h) => Built(session', answer', h)
  BY <1>1, BuiltStable
<1> QED
  BY <1>2, <1>3, <1>4 DEF Headed

LEMMA EpochsStep ==
    ASSUME Types, Headed, Epochs, Next
    PROVE  Epochs'
<1>1. CASE UNCHANGED <<log, machine>>
  BY <1>1 DEF Epochs, EpochAt, IsLease
<1>2. CASE Commit
  <2> DEFINE h == pending[1].header
             n == Len(log) + 1
  <2>1. /\ Len(log) \in Nat /\ DOMAIN log = 1 .. Len(log) /\ Len(log') = n /\ DOMAIN log' = 1 .. n
        /\ \A i \in DOMAIN log : log'[i] = log[i]
        /\ log'[n].header = h /\ log'[n].epoch = machine'.writer_epoch
        /\ h \in Headers /\ machine' = Apply(machine, h, n)
    BY <1>2, CommitEffect
  <2>2. h.kind # "WriterLease" => machine'.writer_epoch = machine.writer_epoch
    BY <1>2, CommitMachine DEF Takes, Leaves
  <2> SUFFICES ASSUME NEW i \in 0 .. Len(log'), \A j \in (i + 1) .. Len(log') : ~IsLease(log'[j])
               PROVE  EpochAt(log', i) = machine'.writer_epoch
    BY DEF Epochs, IsLease
  <2>3. CASE i = n
    BY <2>1, <2>3 DEF EpochAt
  <2>4. CASE i \in 0 .. Len(log)
    <3>1. ~IsLease(log'[n])
      BY <2>1, <2>4
    <3>2. machine'.writer_epoch = machine.writer_epoch
      BY <2>1, <2>2, <3>1 DEF IsLease
    <3>3. \A j \in (i + 1) .. Len(log) : j \in DOMAIN log /\ j \in (i + 1) .. Len(log')
      BY <2>1, <2>4
    <3>4. \A j \in (i + 1) .. Len(log) : ~IsLease(log[j])
      BY <2>1, <3>3
    <3>5. EpochAt(log, i) = machine.writer_epoch
      BY <2>4, <3>4 DEF Epochs
    <3>6. i = 0 \/ i \in DOMAIN log
      BY <2>1, <2>4
    <3> QED
      BY <2>1, <3>2, <3>5, <3>6 DEF EpochAt
  <2> QED
    BY <2>1, <2>3, <2>4
<1> QED
  BY <1>1, <1>2, FrameStep

-----------------------------------------------------------------------------
(* The outcome of an append.  A refusal is final: an epoch that was lost is  *)
(* never held again, and a gap means that the position is taken, since the   *)
(* append before it is known to be applied.                                  *)

LEMMA IdentType ==
    ASSUME Types, NEW w \in Writers, NEW k \in Steps
    PROVE  Ident(machine, w, k) \in Identities
BY RequestNames DEF Types, Machines, Ident

LEMMA AppendOutcome ==
    ASSUME Types, Granted, Truthful, NEW w \in Writers, NEW k \in Appends, NEW h \in Headers,
           BuiltBy(session, answer, w, k, h)
    PROVE  /\ Outcome(machine, h) \in {"Committed", "Duplicate", "StaleWriterEpoch", "WalGap"}
           /\ Outcome(machine, h) \in {"StaleWriterEpoch", "WalGap"} => Barred(machine, session, w, k)
           /\ Outcome(machine, h) = "Committed" => /\ ~Barred(machine, session, w, k)
                                                   /\ h.epoch = machine.writer_epoch
                                                   /\ h.lo = machine.wal_end
<1> DEFINE id == Ident(machine, w, k)
<1>0. /\ k \in Steps /\ k \in Nat /\ k > 0 /\ 0 \in Steps
      /\ machine \in Machines /\ machine.writer_epoch \in Nat /\ machine.wal_end \in Nat
      /\ machine.writer_active \in BOOLEAN
      /\ session[w].epoch \in Nat /\ session[w].first \in Nat /\ h.lo \in Nat /\ h.epoch \in Nat
  <2>1. k \in Steps /\ k \in Nat /\ k > 0 /\ 0 \in Steps
    BY StepNumbers DEF Appends
  <2>2. /\ machine \in Machines /\ machine.writer_epoch \in Nat /\ machine.wal_end \in Nat
        /\ machine.writer_active \in BOOLEAN
    BY DEF Types, Machines
  <2>3. h.lo \in Nat /\ h.epoch \in Nat
    BY DEF Headers
  <2> QED
    BY <2>1, <2>2, <2>3, CallFields
<1>1. /\ h.request = <<w, k>> /\ h.kind = "Wal" /\ h.hash = <<w, 0, 1>> /\ h.epoch = session[w].epoch
      /\ h.lo = session[w].first + k - 1
      /\ \A j \in Steps : j < k => answer[<<w, j>>] \in Replied
  BY DEF BuiltBy
<1>2. machine.retries[h.request] = id /\ id \in Identities /\ id.index \in Nat
  BY <1>0, <1>1, IdentType DEF Ident, Identities
<1>3. answer[<<w, 0>>] \in Replied
  BY <1>0, <1>1
<1>4. /\ session[w].epoch = Ident(machine, w, 0).epoch /\ session[w].first = Ident(machine, w, 0).wal_end
      /\ Has(machine, w, 0)
  BY <1>0, <1>3 DEF Truthful, Told
<1>5. session[w].epoch <= machine.writer_epoch /\ session[w].first <= machine.wal_end
  BY <1>4 DEF Granted, LeaseAt
<1>6. session[w].first + k - 1 <= machine.wal_end
  <2>1. CASE k = 1
    BY <1>0, <1>5, <2>1
  <2>2. CASE k # 1
    <3>1. k - 1 \in Appends /\ k - 1 \in Steps /\ k - 1 < k
      BY <1>0, <2>2, StepNumbers DEF Appends, Steps
    <3>2. Has(machine, w, k - 1)
      BY <1>1, <3>1 DEF Truthful, Told
    <3>3. /\ Ident(machine, w, k - 1).wal_end = session[w].first + (k - 1)
          /\ Ident(machine, w, k - 1).wal_end <= machine.wal_end
      BY <3>1, <3>2 DEF Granted, AppendAt
    <3> QED
      BY <1>0, <3>3
  <2> QED
    BY <2>1, <2>2
<1>7. CASE Has(machine, w, k)
  <2>1. Same(id, h)
    BY <1>1, <1>7 DEF Granted, AppendAt, Same
  <2>2. id.index > 0
    BY <1>7 DEF Has
  <2>3. Outcome(machine, h) = "Duplicate"
    BY <1>0, <1>2, <2>1, <2>2, OutcomeCases
  <2> QED
    BY <2>3
<1>8. CASE ~Has(machine, w, k)
  <2>1. ~(machine.retries[h.request].index > 0)
    BY <1>2, <1>8 DEF Has
  <2>2. Outcome(machine, h) \in {"Committed", "StaleWriterEpoch", "WalGap"}
    <3>1. Outcome(machine, h) \in Outcomes /\ Outcome(machine, h) # "Duplicate"
          /\ Outcome(machine, h) # "ConflictingRetry"
          /\ Outcome(machine, h) # "InvalidArchiveCheckpoint"
      BY <1>0, <1>1, <2>1, OutcomeCases
    <3> QED
      BY <3>1 DEF Outcomes, Replied
  <2>3. EpochValid(machine, h) <=> machine.writer_active /\ h.epoch = machine.writer_epoch
    BY <1>0, <1>1, EpochValidCases
  <2>4. CASE Outcome(machine, h) = "StaleWriterEpoch"
    <3>1. ~EpochValid(machine, h)
      BY <1>0, <2>4, OutcomeCases
    <3>2. Lost(machine, session[w].epoch)
      BY <1>0, <1>1, <1>5, <2>3, <3>1 DEF Lost
    <3> QED
      BY <1>8, <2>4, <3>2 DEF Barred
  <2>5. CASE Outcome(machine, h) = "WalGap"
    <3>1. h.lo # machine.wal_end
      BY <1>0, <2>5, OutcomeCases
    <3>2. session[w].first + k - 1 < machine.wal_end
      BY <1>0, <1>1, <1>6, <3>1
    <3> QED
      BY <1>8, <2>5, <3>2 DEF Barred
  <2>6. CASE Outcome(machine, h) = "Committed"
    <3>1. EpochValid(machine, h) /\ h.lo = machine.wal_end
      BY <1>0, <1>1, <2>6, OutcomeCases
    <3>2. ~Lost(machine, session[w].epoch)
      BY <1>0, <1>1, <2>3, <3>1 DEF Lost
    <3>3. ~(session[w].first + k - 1 < machine.wal_end)
      BY <1>0, <1>1, <3>1
    <3> QED
      BY <2>3, <2>6, <3>1, <3>2, <3>3 DEF Barred
  <2> QED
    BY <2>2, <2>4, <2>5, <2>6
<1> QED
  BY <1>7, <1>8

(* Committing a command keeps the identities there are and the bars. *)
LEMMA HasStable ==
    ASSUME Types, Headed, Commit, NEW w \in Writers, NEW k \in Steps, Has(machine, w, k)
    PROVE  Ident(machine', w, k) = Ident(machine, w, k) /\ Has(machine', w, k)
<1>1. <<w, k>> \in Requests
  BY RequestNames
<1> QED
  BY <1>1, CommitGrows DEF Grows, Has, Ident

LEMMA NewlyHas ==
    ASSUME Types, Commit, NEW w \in Writers, NEW k \in Steps, ~Has(machine, w, k), Has(machine', w, k)
    PROVE  /\ Taken(machine, pending[1].header) /\ pending[1].header.request = <<w, k>>
           /\ Ident(machine', w, k) =
                [index |-> Len(log) + 1, kind |-> pending[1].header.kind, hash |-> pending[1].header.hash,
                 epoch |-> pending[1].header.epoch, wal_end |-> ReplyEnd(machine, pending[1].header)]
<1>1. <<w, k>> \in Requests
  BY RequestNames
<1>2. Taken(machine, pending[1].header) /\ pending[1].header.request = <<w, k>>
  BY <1>1, CommitRetries DEF Has, Ident
<1> QED
  BY <1>1, <1>2, CommitRetries DEF Ident

LEMMA BarredStable ==
    ASSUME Types, Headed, Granted, Truthful, Commit, NEW w \in Writers, NEW k \in Appends,
           Barred(machine, session, w, k)
    PROVE  Barred(machine', session, w, k)
<1>0. k \in Steps
  BY StepNumbers
<1>1. ~Has(machine', w, k)
  <2> SUFFICES ASSUME Has(machine', w, k) PROVE FALSE
    OBVIOUS
  <2>1. Taken(machine, pending[1].header) /\ pending[1].header.request = <<w, k>>
    BY <1>0, NewlyHas DEF Barred
  <2>2. pending[1].header \in Headers /\ Built(session, answer, pending[1].header)
    BY CommitEffect, CommitGrows
  <2>3. BuiltBy(session, answer, w, k, pending[1].header)
    BY <1>0, <2>1, <2>2, BuiltRequest
  <2> QED
    BY <2>1, <2>2, <2>3, AppendOutcome DEF Taken
<1>2. /\ session[w].epoch \in Nat /\ session[w].first + k - 1 \in Nat
      /\ machine.wal_end \in Nat /\ machine'.wal_end \in Nat
  <2>1. k \in Nat /\ k > 0
    BY StepNumbers DEF Appends
  <2>2. session[w].epoch \in Nat /\ session[w].first \in Nat
    BY CallFields
  <2>3. machine.wal_end \in Nat
    BY DEF Types, Machines
  <2>4. machine'.wal_end \in Nat
    BY CommitGrows DEF Machines
  <2> QED
    BY <2>1, <2>2, <2>3, <2>4
<1>3. Lost(machine, session[w].epoch) => Lost(machine', session[w].epoch)
  BY <1>2, CommitGrows DEF Grows
<1>4. session[w].first + k - 1 < machine.wal_end => session[w].first + k - 1 < machine'.wal_end
  BY <1>2, CommitGrows DEF Grows
<1> QED
  BY <1>1, <1>3, <1>4 DEF Barred

-----------------------------------------------------------------------------
(* The log and the answers. *)

(* A bar outlives the steps of the sessions. *)
LEMMA BarredProgress ==
    ASSUME Progress, NEW w \in Writers, NEW k, session[w].step > 0, Barred(machine, session, w, k)
    PROVE  Barred(machine, session', w, k)
BY DEF Progress, Barred

LEMMA LoggedCommit ==
    ASSUME Types, Sessions, Headed, Logged, Granted, Truthful, Commit
    PROVE  Logged'
<1> DEFINE h == pending[1].header
           n == Len(log) + 1
<1>1. /\ h \in Headers /\ Built(session, answer, h)
      /\ Len(log) \in Nat /\ DOMAIN log = 1 .. Len(log) /\ DOMAIN log' = 1 .. n
      /\ \A i \in DOMAIN log : log'[i] = log[i]
      /\ log'[n].header = h /\ log'[n].outcome = machine'.outcome
      /\ log'[n].identity = machine'.retries[h.request]
      /\ session' = session
  BY CommitEffect, CommitGrows
<1>2. \/ Taken(machine, h) /\ machine'.outcome = "Committed"
      \/ ~Taken(machine, h) /\ (h.kind = "ReleaseWal" \/ machine'.outcome = Outcome(machine, h))
  BY CommitMachine DEF Takes, Leaves
<1>3. ASSUME NEW w \in Writers, NEW k \in Steps, Has(machine', w, k)
      PROVE  /\ Ident(machine', w, k).index \in DOMAIN log'
             /\ log'[Ident(machine', w, k).index].header.request = <<w, k>>
             /\ log'[Ident(machine', w, k).index].outcome = "Committed"
  <2>1. CASE Has(machine, w, k)
    <3>1. Ident(machine', w, k) = Ident(machine, w, k)
      BY <2>1, HasStable
    <3>2. /\ Ident(machine, w, k).index \in DOMAIN log
          /\ log[Ident(machine, w, k).index].header.request = <<w, k>>
          /\ log[Ident(machine, w, k).index].outcome = "Committed"
      BY <2>1 DEF Logged
    <3> QED
      BY <1>1, <3>1, <3>2
  <2>2. CASE ~Has(machine, w, k)
    <3>1. /\ Taken(machine, h) /\ h.request = <<w, k>> /\ Ident(machine', w, k).index = n
      BY <1>3, <2>2, NewlyHas
    <3> QED
      BY <1>1, <1>2, <3>1
  <2> QED
    BY <2>1, <2>2
<1>4. ASSUME NEW w \in Writers, NEW k \in Steps, NEW i \in DOMAIN log, log[i].header.request = <<w, k>>
      PROVE  Entry(machine', session, w, k, log[i], i)
  <2>1. Entry(machine, session, w, k, log[i], i)
    BY <1>4 DEF Logged
  <2>2. Has(machine, w, k) => Has(machine', w, k) /\ Ident(machine', w, k) = Ident(machine, w, k)
    BY HasStable
  <2>3. k \in Appends /\ Barred(machine, session, w, k) => Barred(machine', session, w, k)
    BY BarredStable
  <2>4. "Committed" \in Replied
    BY DEF Replied
  <2> QED
    BY <2>1, <2>2, <2>3, <2>4 DEF Entry
<1>5. ASSUME NEW w \in Writers, NEW k \in Steps, h.request = <<w, k>>
      PROVE  Entry(machine', session, w, k, log'[n], n)
  <2>1. BuiltBy(session, answer, w, k, h) /\ h.kind # "ReleaseWal" /\ <<w, k>> \in Requests
    BY <1>1, <1>5, BuiltRequest, BuiltKinds, RequestNames
  <2>2. log'[n].identity = Ident(machine', w, k)
    BY <1>1, <1>5 DEF Ident
  <2>3. CASE Taken(machine, h)
    <3>1. Ident(machine', w, k).index = n
      BY <1>5, <2>1, <2>3, CommitRetries DEF Ident
    <3>2. Has(machine', w, k)
      BY <1>1, <3>1 DEF Has
    <3> QED
      BY <1>1, <1>2, <2>2, <2>3, <3>1, <3>2 DEF Entry, Replied
  <2>4. CASE ~Taken(machine, h)
    <3>1. log'[n].outcome = Outcome(machine, h) /\ Outcome(machine, h) # "Committed"
      BY <1>1, <1>2, <2>1, <2>4 DEF Taken
    <3>2. Outcome(machine, h) = "Duplicate" => Has(machine, w, k)
      <4>1. machine \in Machines
        BY DEF Types
      <4> QED
        BY <1>1, <1>5, <4>1, OutcomeCases DEF Has, Ident
    <3>3. Outcome(machine, h) = "Duplicate" => Has(machine', w, k)
      BY <3>2, HasStable
    <3>4. k \in Appends => \/ Outcome(machine, h) \in Replied
                           \/ Outcome(machine, h) \in {"StaleWriterEpoch", "WalGap"}
                              /\ Barred(machine', session, w, k)
      <4>1. SUFFICES ASSUME k \in Appends
                     PROVE  \/ Outcome(machine, h) \in Replied
                            \/ Outcome(machine, h) \in {"StaleWriterEpoch", "WalGap"}
                               /\ Barred(machine', session, w, k)
        OBVIOUS
      <4>2. /\ Outcome(machine, h) \in {"Committed", "Duplicate", "StaleWriterEpoch", "WalGap"}
            /\ Outcome(machine, h) \in {"StaleWriterEpoch", "WalGap"} => Barred(machine, session, w, k)
        BY <1>1, <2>1, <4>1, AppendOutcome
      <4> QED
        BY <4>1, <4>2, BarredStable DEF Replied
    <3> HIDE DEF n, h
    <3> QED
      BY <2>2, <3>1, <3>3, <3>4 DEF Entry, Replied
  <2> QED
    BY <2>3, <2>4
<1>6. ASSUME NEW w \in Writers, NEW k \in Steps, NEW i \in DOMAIN log', log'[i].header.request = <<w, k>>
      PROVE  Entry(machine', session, w, k, log'[i], i)
  <2>1. i \in DOMAIN log \/ i = n
    BY <1>1
  <2> HIDE DEF n, h
  <2> QED
    BY <1>1, <1>4, <1>5, <1>6, <2>1
<1> HIDE DEF n, h
<1> QED
  BY <1>1, <1>3, <1>6 DEF Logged

LEMMA LoggedStep ==
    ASSUME Types, Sessions, Headed, Logged, Granted, Truthful, Next
    PROVE  Logged'
<1>1. CASE Commit
  BY <1>1, LoggedCommit
<1>2. CASE UNCHANGED <<log, machine>>
  <2>1. Progress
    BY ProgressStep
  <2>2. ASSUME NEW w \in Writers, NEW k \in Steps, NEW i \in DOMAIN log, log[i].header.request = <<w, k>>
        PROVE  Entry(machine, session', w, k, log[i], i)
    <3>1. Entry(machine, session, w, k, log[i], i)
      BY <2>2 DEF Logged
    <3>2. ASSUME k \in Appends, Barred(machine, session, w, k)
          PROVE  Barred(machine, session', w, k)
      <4>1. log[i].header \in Headers /\ Built(session, answer, log[i].header)
        BY DEF Types, Headed
      <4>2. BuiltBy(session, answer, w, k, log[i].header)
        BY <2>2, <4>1, BuiltRequest
      <4>3. k <= session[w].step /\ k > 0
        BY <3>2, <4>2, StepNumbers DEF BuiltBy, Appends
      <4>4. session[w].step > 0
        <5>1. k \in Nat /\ session[w].step \in Nat
          BY CallFields, StepNumbers
        <5> QED
          BY <4>3, <5>1
      <4> QED
        BY <2>1, <3>2, <4>4, BarredProgress
    <3> QED
      BY <3>1, <3>2 DEF Entry
  <2> QED
    BY <1>2, <2>2 DEF Logged
<1> QED
  BY <1>1, <1>2, FrameStep

LEMMA GrantedCommit ==
    ASSUME Types, Sessions, Headed, Logged, Granted, Truthful, Commit
    PROVE  Granted'
<1> DEFINE h == pending[1].header
<1>0. 0 \in Steps /\ \A k \in Appends : k \in Steps /\ k # 0
  BY StepNumbers
<1>1. /\ h \in Headers /\ Built(session, answer, h) /\ machine \in Machines /\ machine' \in Machines
      /\ session' = session /\ answer' = answer /\ Grows(machine, machine')
  BY CommitEffect, CommitGrows DEF Types
<1>2. /\ machine.writer_epoch \in Nat /\ machine.wal_end \in Nat
      /\ machine'.writer_epoch \in Nat /\ machine'.wal_end \in Nat
      /\ machine.writer_epoch <= machine'.writer_epoch /\ machine.wal_end <= machine'.wal_end
  BY <1>1 DEF Grows, Machines
<1>3. ASSUME NEW w \in Writers, NEW k \in Steps, Has(machine, w, k)
      PROVE  /\ Has(machine', w, k) /\ Ident(machine', w, k) = Ident(machine, w, k)
             /\ Ident(machine, w, k).epoch \in Nat /\ Ident(machine, w, k).wal_end \in Nat
  BY <1>3, HasStable, IdentType DEF Identities
\* A lease that is taken has an epoch above every other.
<1>4. ASSUME NEW w \in Writers, ~Has(machine, w, 0), Has(machine', w, 0)
      PROVE  /\ Ident(machine', w, 0).epoch = machine.writer_epoch + 1
             /\ machine'.writer_epoch = machine.writer_epoch + 1
             /\ Ident(machine', w, 0).wal_end = machine.wal_end /\ machine'.wal_end = machine.wal_end
             /\ h.request = <<w, 0>>
  <2>1. /\ Taken(machine, h) /\ h.request = <<w, 0>>
        /\ Ident(machine', w, 0).epoch = h.epoch /\ Ident(machine', w, 0).wal_end = ReplyEnd(machine, h)
    BY <1>0, <1>4, NewlyHas
  <2>2. h.kind = "WriterLease"
    BY <1>1, <2>1, BuiltKinds
  <2>3. h.epoch = machine.writer_epoch + 1
    BY <1>1, <2>1, <2>2, OutcomeCases, EpochValidCases DEF Taken
  <2>4. machine'.writer_epoch = h.epoch /\ machine'.wal_end = machine.wal_end
    BY <2>1, <2>2, CommitMachine DEF Takes
  <2>5. ReplyEnd(machine, h) = machine.wal_end
    BY <1>1, <2>2, ReplyEndType
  <2> QED
    BY <2>1, <2>3, <2>4, <2>5
\* An append that is taken has the epoch that is held and ends at the new tail.
<1>5. ASSUME NEW w \in Writers, NEW k \in Appends, ~Has(machine, w, k), Has(machine', w, k)
      PROVE  /\ AppendAt(machine', session, answer, w, k)
             /\ Ident(machine', w, k).epoch = machine.writer_epoch
             /\ h.request = <<w, k>>
  <2>1. /\ Taken(machine, h) /\ h.request = <<w, k>>
        /\ Ident(machine', w, k).kind = h.kind /\ Ident(machine', w, k).hash = h.hash
        /\ Ident(machine', w, k).epoch = h.epoch /\ Ident(machine', w, k).wal_end = ReplyEnd(machine, h)
    BY <1>0, <1>5, NewlyHas
  <2>2. BuiltBy(session, answer, w, k, h)
    BY <1>0, <1>1, <2>1, BuiltRequest
  <2>3. /\ h.kind = "Wal" /\ h.hash = <<w, 0, 1>> /\ h.epoch = session[w].epoch
        /\ h.lo = session[w].first + k - 1 /\ h.hi = h.lo + 1
    BY <2>2 DEF BuiltBy
  <2>4. answer[<<w, 0>>] \in Replied
    <3>1. 0 < k
      BY StepNumbers DEF Appends
    <3> QED
      BY <1>0, <2>2, <3>1 DEF BuiltBy
  <2>5. h.epoch = machine.writer_epoch
    BY <1>1, <2>1, <2>2, AppendOutcome DEF Taken
  <2>6. machine'.wal_end = h.hi
    BY <2>1, <2>3, CommitMachine DEF Takes
  <2>7. ReplyEnd(machine, h) = h.hi
    BY <1>1, <2>3, ReplyEndType
  <2>8. h.hi = session[w].first + k /\ h.hi \in Nat
    BY <1>1, <2>3, CallFields, StepNumbers DEF Headers, Appends
  <2> HIDE DEF h
  <2>9. AppendAt(machine', session, answer, w, k)
    BY <2>1, <2>3, <2>4, <2>6, <2>7, <2>8 DEF AppendAt
  <2> QED
    BY <2>1, <2>5, <2>9
<1> HIDE DEF h
<1>6. ASSUME NEW w \in Writers, Has(machine', w, 0)
      PROVE  LeaseAt(machine', w)
  <2>1. CASE Has(machine, w, 0)
    <3>1. LeaseAt(machine, w)
      BY <2>1 DEF Granted
    <3>2. /\ Ident(machine', w, 0) = Ident(machine, w, 0)
          /\ Ident(machine, w, 0).epoch \in Nat /\ Ident(machine, w, 0).wal_end \in Nat
      BY <1>0, <1>3, <2>1
    <3> QED
      BY <1>2, <3>1, <3>2 DEF LeaseAt
  <2>2. CASE ~Has(machine, w, 0)
    BY <1>2, <1>4, <1>6, <2>2 DEF LeaseAt
  <2> QED
    BY <2>1, <2>2
<1>7. ASSUME NEW v \in Writers, NEW w \in Writers, v # w, Has(machine', v, 0), Has(machine', w, 0)
      PROVE  Ident(machine', v, 0).epoch # Ident(machine', w, 0).epoch
  <2>1. ASSUME NEW x \in Writers, Has(machine, x, 0)
        PROVE  /\ Ident(machine', x, 0) = Ident(machine, x, 0) /\ Ident(machine, x, 0).epoch \in Nat
               /\ Ident(machine, x, 0).epoch <= machine.writer_epoch
    BY <1>0, <1>3, <2>1 DEF Granted, LeaseAt
  <2>2. CASE Has(machine, v, 0) /\ Has(machine, w, 0)
    BY <1>7, <2>1, <2>2 DEF Granted
  <2>3. CASE ~Has(machine, v, 0) /\ Has(machine, w, 0)
    <3>1. Ident(machine', v, 0).epoch = machine.writer_epoch + 1
      BY <1>4, <1>7, <2>3
    <3> QED
      BY <1>2, <2>1, <2>3, <3>1
  <2>4. CASE Has(machine, v, 0) /\ ~Has(machine, w, 0)
    <3>1. Ident(machine', w, 0).epoch = machine.writer_epoch + 1
      BY <1>4, <1>7, <2>4
    <3> QED
      BY <1>2, <2>1, <2>4, <3>1
  <2>5. CASE ~Has(machine, v, 0) /\ ~Has(machine, w, 0)
    <3>1. h.request = <<v, 0>> /\ h.request = <<w, 0>>
      BY <1>4, <1>7, <2>5
    <3> QED
      BY <1>7, <3>1
  <2> QED
    BY <2>2, <2>3, <2>4, <2>5
<1>8. ASSUME NEW w \in Writers, NEW k \in Appends, Has(machine', w, k)
      PROVE  AppendAt(machine', session, answer, w, k)
  <2>1. CASE Has(machine, w, k)
    <3>1. AppendAt(machine, session, answer, w, k)
      BY <2>1 DEF Granted
    <3>2. Ident(machine', w, k) = Ident(machine, w, k) /\ Ident(machine, w, k).wal_end \in Nat
      BY <1>0, <1>3, <2>1
    <3> QED
      BY <1>2, <3>1, <3>2 DEF AppendAt
  <2>2. CASE ~Has(machine, w, k)
    BY <1>5, <1>8, <2>2
  <2> QED
    BY <2>1, <2>2
<1>9. ASSUME NEW v \in Writers, NEW w \in Writers, NEW k \in Appends,
             Has(machine', v, k), Has(machine', w, 0),
             Ident(machine', v, k).epoch < Ident(machine', w, 0).epoch
      PROVE  Ident(machine', v, k).wal_end <= Ident(machine', w, 0).wal_end
  <2>1. Has(machine, v, k) => /\ Ident(machine', v, k) = Ident(machine, v, k)
                              /\ Ident(machine, v, k).wal_end \in Nat
                              /\ Ident(machine, v, k).wal_end <= machine.wal_end
    BY <1>0, <1>3 DEF Granted, AppendAt
  <2>2. Has(machine, w, 0) => /\ Ident(machine', w, 0) = Ident(machine, w, 0)
                              /\ Ident(machine, w, 0).epoch \in Nat
                              /\ Ident(machine, w, 0).epoch <= machine.writer_epoch
    BY <1>0, <1>3 DEF Granted, LeaseAt
  <2>3. CASE Has(machine, v, k) /\ Has(machine, w, 0)
    BY <1>9, <2>1, <2>2, <2>3 DEF Granted
  <2>4. CASE Has(machine, v, k) /\ ~Has(machine, w, 0)
    <3>1. Ident(machine', w, 0).wal_end = machine.wal_end
      BY <1>4, <1>9, <2>4
    <3> QED
      BY <2>1, <2>4, <3>1
  <2>5. CASE ~Has(machine, v, k) /\ Has(machine, w, 0)
    <3>1. Ident(machine', v, k).epoch = machine.writer_epoch
      BY <1>5, <1>9, <2>5
    <3> QED
      BY <1>2, <1>9, <2>2, <2>5, <3>1
  <2>6. CASE ~Has(machine, v, k) /\ ~Has(machine, w, 0)
    <3>1. h.request = <<v, k>> /\ h.request = <<w, 0>>
      BY <1>4, <1>5, <1>9, <2>6
    <3> QED
      BY <1>0, <3>1
  <2> QED
    BY <2>3, <2>4, <2>5, <2>6
<1> QED
  BY <1>1, <1>6, <1>7, <1>8, <1>9 DEF Granted

LEMMA GrantedStep ==
    ASSUME Types, Sessions, Headed, Logged, Granted, Truthful, Next
    PROVE  Granted'
<1>1. CASE Commit
  BY <1>1, GrantedCommit
<1>2. CASE UNCHANGED <<log, machine>>
  <2>1. Progress
    BY ProgressStep
  <2>2. ASSUME NEW w \in Writers, NEW k \in Appends, Has(machine, w, k)
        PROVE  AppendAt(machine, session', answer', w, k)
    <3>1. AppendAt(machine, session, answer, w, k)
      BY <2>2 DEF Granted
    <3>2. session[w].step > 0 /\ 0 \in Steps
      BY <3>1, StepNumbers DEF AppendAt, Truthful, Told
    <3>3. /\ answer'[<<w, 0>>] = answer[<<w, 0>>]
          /\ session'[w].epoch = session[w].epoch /\ session'[w].first = session[w].first
      BY <2>1, <3>2, CallFields, StepNumbers DEF Progress
    <3> QED
      BY <3>1, <3>3 DEF AppendAt
  <2> QED
    BY <1>2, <2>2 DEF Granted
<1> QED
  BY <1>1, <1>2, FrameStep

LEMMA TruthfulStep ==
    ASSUME Types, Sessions, Headed, Logged, Granted, Truthful, Next
    PROVE  Truthful'
<1>0. 0 \in Steps /\ \A k \in Appends : k \in Steps /\ k # 0 /\ k > 0
  BY StepNumbers DEF Appends
<1>1. CASE Commit
  <2>1. session' = session /\ answer' = answer
    BY <1>1, CommitEffect
  <2>2. ASSUME NEW w \in Writers, NEW k \in Steps, answer[<<w, k>>] \in Replied
        PROVE  Has(machine', w, k) /\ Ident(machine', w, k) = Ident(machine, w, k)
    BY <1>1, <2>2, HasStable DEF Truthful, Told
  <2>3. ASSUME NEW w \in Writers, answer[<<w, 0>>] \in Replied
        PROVE  /\ session[w].epoch = Ident(machine', w, 0).epoch
               /\ session[w].first = Ident(machine', w, 0).wal_end
               /\ session[w].step > 0
    BY <1>0, <2>2, <2>3 DEF Truthful, Told
  <2>4. ASSUME NEW w \in Writers, NEW k \in Appends, answer[<<w, k>>] \in Refusals
        PROVE  Barred(machine', session, w, k) /\ answer[<<w, 0>>] \in Replied
    <3>1. Barred(machine, session, w, k) /\ answer[<<w, 0>>] \in Replied
      BY <2>4 DEF Truthful, Told
    <3> QED
      BY <1>1, <3>1, BarredStable
  <2> QED
    BY <2>1, <2>2, <2>3, <2>4 DEF Truthful, Told
<1>2. CASE UNCHANGED <<log, machine>> /\ UNCHANGED <<session, answer>>
  BY <1>2 DEF Truthful, Told
<1>3. ASSUME UNCHANGED <<log, machine>>, NEW w \in Writers, NEW what, NEW e, NEW f,
             Concluded(w, what, e, f), Grounds(w, what, e, f)
      PROVE  Truthful'
  <2> DEFINE k == session[w].step
  <2>1. Settles(w, what, e, f)
    BY <1>3, ConcludedState
  <2>2. k \in Steps /\ k \in Nat /\ k # Over /\ call[w].at # "idle"
    BY <1>3, StepNumbers DEF Concluded, Sessions
  <2>3. Progress
    BY ProgressStep
  <2>4. ASSUME NEW v \in Writers, NEW j \in Steps, answer'[<<v, j>>] \in Replied
        PROVE  Has(machine, v, j)
    <3>1. CASE v = w /\ j = k
      BY <1>3, <2>1, <2>4, <3>1 DEF Settles, Grounds
    <3>2. CASE v # w \/ j # k
      BY <2>1, <2>4, <3>2 DEF Settles, Truthful, Told
    <3> QED
      BY <3>1, <3>2
  <2>5. ASSUME NEW v \in Writers, answer'[<<v, 0>>] \in Replied
        PROVE  /\ session'[v].epoch = Ident(machine, v, 0).epoch
               /\ session'[v].first = Ident(machine, v, 0).wal_end
               /\ session'[v].step > 0
    <3>1. CASE v = w /\ k = 0
      <4>1. what \in Replied
        BY <2>1, <2>5, <3>1 DEF Settles
      <4>2. session'[v].step = 1 /\ session'[v].epoch = e /\ session'[v].first = f
        BY <2>1, <3>1, <4>1 DEF Settles
      <4>3. e = Ident(machine, v, 0).epoch /\ f = Ident(machine, v, 0).wal_end
        BY <1>3, <3>1, <4>1 DEF Grounds
      <4> QED
        BY <4>2, <4>3
    <3>2. CASE v # w \/ k # 0
      <4>1. answer[<<v, 0>>] \in Replied
        BY <1>0, <2>1, <2>5, <3>2 DEF Settles
      <4>2. /\ session[v].epoch = Ident(machine, v, 0).epoch
            /\ session[v].first = Ident(machine, v, 0).wal_end
            /\ session[v].step > 0
        BY <4>1 DEF Truthful, Told
      <4>3. session[v].step \in Nat
        BY CallFields, StepNumbers
      <4> QED
        BY <2>3, <4>2, <4>3 DEF Progress
    <3> QED
      BY <3>1, <3>2
  <2>6. ASSUME NEW v \in Writers, NEW j \in Appends, answer'[<<v, j>>] \in Refusals
        PROVE  Barred(machine, session', v, j) /\ answer'[<<v, 0>>] \in Replied
    <3>1. Barred(machine, session, v, j) /\ answer[<<v, 0>>] \in Replied /\ session[v].step > 0
      <4>1. CASE v = w /\ j = k
        <5>1. Barred(machine, session, v, j)
          BY <1>3, <2>1, <2>6, <4>1 DEF Settles, Grounds
        <5>2. 0 < k
          BY <1>0, <2>2, <4>1
        <5>3. answer[<<w, 0>>] \in Replied
          BY <1>0, <2>2, <5>2 DEF Sessions, Told
        <5> QED
          BY <4>1, <5>1, <5>2, <5>3
      <4>2. CASE v # w \/ j # k
        <5>1. answer[<<v, j>>] \in Refusals
          BY <1>0, <2>1, <2>6, <4>2 DEF Settles
        <5>2. Barred(machine, session, v, j) /\ answer[<<v, 0>>] \in Replied
          BY <5>1 DEF Truthful, Told
        <5>3. session[v].step > 0
          BY <5>2 DEF Truthful, Told
        <5> QED
          BY <5>2, <5>3
      <4> QED
        BY <4>1, <4>2
    <3>2. Barred(machine, session', v, j)
      BY <2>3, <3>1, BarredProgress
    <3>3. answer'[<<v, 0>>] = answer[<<v, 0>>]
      BY <1>0, <2>3, <3>1, CallFields, StepNumbers DEF Progress
    <3> QED
      BY <3>1, <3>2, <3>3
  <2> QED
    BY <1>3, <2>4, <2>5, <2>6 DEF Truthful, Told
<1> QED
  BY <1>1, <1>2, <1>3, FrameStep, AnswerStep

-----------------------------------------------------------------------------
(* Sessions and writer_lock. *)

LEMMA SessionsStep ==
    ASSUME Types, Sessions, Logged, Next
    PROVE  Sessions'
<1>1. CASE UNCHANGED <<lock, call, session, answer>>
  BY <1>1 DEF Sessions, Told
<1>2. ASSUME NEW w \in Writers, NEW c, Turns(w, c), c.at = "send", c.target \in Nodes,
             session[w].step # Over, Frees(w) \/ UNCHANGED lock, UNCHANGED <<session, answer>>
      PROVE  Sessions'
  <2>1. ASSUME NEW v \in Writers, v # w
        PROVE  /\ call'[v] = call[v]
               /\ call[v].at \in {"propose", "wait"} /\ session[v].step = 0 => lock'[call[v].target] = v
    <3>1. call'[v] = call[v]
      BY <1>2, <2>1 DEF Turns
    <3>2. ASSUME call[v].at \in {"propose", "wait"}, session[v].step = 0
          PROVE  lock'[call[v].target] = v
      <4>1. lock[call[v].target] = v /\ call[v].target \in Nodes
        BY <3>2 DEF Sessions
      <4> QED
        BY <1>2, <2>1, <4>1 DEF Frees
    <3> QED
      BY <3>1, <3>2
  <2>2. call'[w] = c
    BY <1>2 DEF Turns
  <2> QED
    BY <1>2, <2>1, <2>2 DEF Sessions, Told
<1>3. ASSUME NEW w \in Writers, Start(w) PROVE Sessions'
  BY <1>2, <1>3, StartEffect
<1>4. ASSUME NEW w \in Writers, NotLeader(w) PROVE Sessions'
  <2>1. call[w].at # "idle" /\ UNCHANGED <<session, answer>> /\ Frees(w)
    BY <1>4, NotLeaderEffect
  <2>2. session[w].step # Over
    BY <2>1 DEF Sessions
  <2> QED
    BY <1>2, <1>4, <2>1, <2>2, NotLeaderEffect
<1>5. ASSUME NEW w \in Writers, Unreachable(w) PROVE Sessions'
  <2>1. call[w].at # "idle" /\ UNCHANGED <<session, answer>> /\ Frees(w)
    BY <1>5, UnreachableEffect
  <2>2. session[w].step # Over
    BY <2>1 DEF Sessions
  <2> QED
    BY <1>2, <1>5, <2>1, <2>2, UnreachableEffect
<1>6. ASSUME NEW w \in Writers, Deliver(w) PROVE Sessions'
  <2> DEFINE n == call[w].target
             e == IF session[w].step = 0 THEN EpochOn(n) + 1 ELSE session[w].epoch
  <2>1. /\ n \in Nodes /\ session[w].step # Over /\ (session[w].step = 0 => lock[n] = Free)
        /\ lock' = IF session[w].step = 0 THEN [lock EXCEPT ![n] = w] ELSE lock
        /\ Turns(w, [at |-> "propose", target |-> n, try |-> call[w].try, epoch |-> e])
        /\ UNCHANGED <<session, answer>>
    BY <1>6, DeliverEffect
  <2>2. lock \in [Nodes -> Writers \cup {Free}]
    BY DEF Types
  <2>3. call'[w].target = n /\ call'[w].epoch = e /\ call'[w].at = "propose"
    BY <2>1 DEF Turns
  <2>4. session[w].step = 0 => lock'[n] = w
    BY <2>1, <2>2
  <2>5. ASSUME NEW v \in Writers, v # w
        PROVE  /\ call'[v] = call[v]
               /\ call[v].at \in {"propose", "wait"} /\ session[v].step = 0 => lock'[call[v].target] = v
    <3>1. call'[v] = call[v]
      BY <2>1, <2>5 DEF Turns
    <3>2. ASSUME call[v].at \in {"propose", "wait"}, session[v].step = 0
          PROVE  lock'[call[v].target] = v
      <4>1. lock[call[v].target] = v /\ call[v].target \in Nodes /\ v # Free
        BY <3>2, Names DEF Sessions
      <4> QED
        BY <2>1, <2>2, <4>1
    <3> QED
      BY <3>1, <3>2
  <2>6. session[w].step > 0 => e = session[w].epoch
    BY CallFields, StepNumbers
  <2> HIDE DEF e, n
  <2> QED
    BY <2>1, <2>3, <2>4, <2>5, <2>6 DEF Sessions, Told
<1>7. ASSUME NEW w \in Writers, Propose(w) PROVE Sessions'
  <2>1. /\ call[w].at = "propose" /\ session[w].step # Over
        /\ Turns(w, [at |-> "wait", target |-> call[w].target, try |-> call[w].try, epoch |-> call[w].epoch])
        /\ UNCHANGED <<lock, session, answer>>
    BY <1>7, ProposeEffect
  <2>2. call'[w].target = call[w].target /\ call'[w].epoch = call[w].epoch /\ call'[w].at = "wait"
    BY <2>1 DEF Turns
  <2>3. \A v \in Writers : v # w => call'[v] = call[v]
    BY <2>1 DEF Turns
  <2> QED
    BY <2>1, <2>2, <2>3 DEF Sessions, Told
<1>8. ASSUME NEW w \in Writers, NEW what, NEW e, NEW f,
             Concluded(w, what, e, f), Grounds(w, what, e, f)
      PROVE  Sessions'
  <2>1. Settles(w, what, e, f)
    BY <1>8, ConcludedState
  <2>2. Turns(w, NoCall) /\ Frees(w) /\ call[w].at # "idle" /\ session[w].step \in Steps
    BY <1>8 DEF Concluded
  <2>3. call'[w].at = "idle"
    BY <2>2 DEF Turns, NoCall
  <2>4. session'[w].step # Over => \A j \in Steps : j < session'[w].step => answer'[<<w, j>>] \in Replied
    <3> SUFFICES ASSUME session'[w].step # Over, NEW j \in Steps, j < session'[w].step
                 PROVE  answer'[<<w, j>>] \in Replied
      OBVIOUS
    <3>1. what \in Replied /\ session'[w].step = session[w].step + 1
      BY <2>1 DEF Settles
    <3>2. j < session[w].step \/ j = session[w].step
      BY <2>2, <3>1, StepNumbers
    <3>3. CASE j = session[w].step
      BY <2>1, <3>1, <3>3 DEF Settles
    <3>4. CASE j < session[w].step
      <4>1. answer[<<w, j>>] \in Replied
        BY <2>2, <3>4 DEF Sessions, Told
      <4>2. j # session[w].step
        BY <2>2, <3>4, StepNumbers
      <4> QED
        BY <2>1, <4>1, <4>2 DEF Settles
    <3> QED
      BY <3>2, <3>3, <3>4
  <2>5. ASSUME NEW v \in Writers, v # w
        PROVE  /\ call'[v] = call[v] /\ session'[v] = session[v]
               /\ \A j \in Steps : answer'[<<v, j>>] = answer[<<v, j>>]
               /\ call[v].at \in {"propose", "wait"} /\ session[v].step = 0 => lock'[call[v].target] = v
    <3>1. /\ call'[v] = call[v] /\ session'[v] = session[v]
          /\ \A j \in Steps : answer'[<<v, j>>] = answer[<<v, j>>]
      BY <2>1, <2>2, <2>5 DEF Turns, Settles
    <3>2. ASSUME call[v].at \in {"propose", "wait"}, session[v].step = 0
          PROVE  lock'[call[v].target] = v
      <4>1. lock[call[v].target] = v /\ call[v].target \in Nodes
        BY <3>2 DEF Sessions
      <4> QED
        BY <2>2, <2>5, <4>1 DEF Frees
    <3> QED
      BY <3>1, <3>2
  <2> QED
    BY <2>3, <2>4, <2>5 DEF Sessions, Told
<1>9. ASSUME NEW w \in Writers, GiveUp(w) \/ Reply(w) PROVE Sessions'
  <2>1. \E what, e, f : Concluded(w, what, e, f) /\ Grounds(w, what, e, f)
    BY <1>9, GiveUpEffect, ReplyEffect
  <2> QED
    BY <1>8, <2>1
<1>10. \/ UNCHANGED <<lock, call, session, answer>>
       \/ \E w \in Writers : \/ Start(w) \/ Deliver(w) \/ Propose(w) \/ NotLeader(w)
                             \/ Unreachable(w) \/ GiveUp(w) \/ Reply(w)
  BY DEF Next, Commit, ApplyNext, Elect, Checkpoint, Release
<1> QED
  BY <1>1, <1>3, <1>4, <1>5, <1>6, <1>7, <1>9, <1>10

-----------------------------------------------------------------------------
(* Calm: what holds as long as nothing has failed. *)

CalmNow ==
    /\ Opening(machine, pending)
    /\ \A w \in Writers : CalmCall(w)
    /\ \A w \in Writers, i \in DOMAIN pending :
          pending[i].header.request = <<w, 0>> => CalmPending(w, i)
    /\ \A w \in Writers, i \in DOMAIN log :
          log[i].header.request = <<w, 0>> => CalmLog(w, i)

(* A lease that is proposed, or committed and not applied by the leader,   *)
(* holds the leader's lock.                                                *)
LEMMA LeaseHoldsLock ==
    ASSUME Types, Sessions, CalmNow, NEW w \in Writers,
           \/ \E i \in DOMAIN pending : pending[i].header.request = <<w, 0>>
           \/ \E i \in DOMAIN log : log[i].header.request = <<w, 0>> /\ i > applied[leader]
    PROVE  call[w].at = "wait" /\ session[w].step = 0 /\ lock[leader] = w
<1>1. call[w].at = "wait" /\ session[w].step = 0
  BY DEF CalmNow, CalmPending, CalmLog
<1>2. call[w].target = leader
  BY <1>1 DEF CalmNow, CalmCall
<1> QED
  BY <1>1, <1>2 DEF Sessions

LEMMA LeaseRequest ==
    ASSUME Types, Headed
    PROVE  /\ \A i \in DOMAIN pending : IsLease(pending[i]) => \E w \in Writers : pending[i].header.request = <<w, 0>>
           /\ \A i \in DOMAIN log : IsLease(log[i]) => \E w \in Writers : log[i].header.request = <<w, 0>>
<1>1. ASSUME NEW i \in DOMAIN pending, IsLease(pending[i])
      PROVE  \E w \in Writers : pending[i].header.request = <<w, 0>>
  <2>1. pending \in Seq(Proposals)
    BY DEF Types, Proposals
  <2>2. pending[i] \in Proposals
    BY <2>1
  <2>3. pending[i].header \in Headers
    BY <2>2 DEF Proposals
  <2> QED
    BY <1>1, <2>3, BuiltKinds DEF Headed, IsLease
<1>2. ASSUME NEW i \in DOMAIN log, IsLease(log[i])
      PROVE  \E w \in Writers : log[i].header.request = <<w, 0>>
  <2>1. log[i].header \in Headers
    BY DEF Types
  <2> QED
    BY <1>2, <2>1, BuiltKinds DEF Headed, IsLease
<1> QED
  BY <1>1, <1>2

(* An acquisition that finds the leader's lock free reads the current epoch. *)
LEMMA FreshEpoch ==
    ASSUME Types, Sessions, Headed, Epochs, CalmNow, lock[leader] = Free
    PROVE  EpochOn(leader) = machine.writer_epoch
<1>1. /\ applied[leader] \in 0 .. Len(log) /\ EpochOn(leader) = EpochAt(log, applied[leader])
      /\ Len(log) \in Nat /\ DOMAIN log = 1 .. Len(log)
  BY EpochOnType DEF Types
<1>2. ASSUME NEW j \in (applied[leader] + 1) .. Len(log), IsLease(log[j])
      PROVE  FALSE
  <2>1. j \in DOMAIN log /\ j > applied[leader]
    BY <1>1
  <2>2. PICK w \in Writers : log[j].header.request = <<w, 0>>
    BY <1>2, <2>1, LeaseRequest
  <2>3. lock[leader] = w
    BY <2>1, <2>2, LeaseHoldsLock
  <2> QED
    BY <2>3, Names
<1> QED
  BY <1>1, <1>2 DEF Epochs

(* A call that is not waiting turns to c, and nothing else happens. *)
LEMMA CalmTurn ==
    ASSUME Types, Sessions, CalmNow, NEW w \in Writers, NEW c, Turns(w, c),
           call[w].at # "wait", c.at # "wait", c.try = 0,
           c.at = "propose" /\ session[w].step = 0 /\ c.target = leader => c.epoch = machine.writer_epoch + 1,
           UNCHANGED <<log, machine, pending, applied, leader, session, answer>>
    PROVE  CalmNow'
<1>1. call'[w] = c /\ \A v \in Writers : v # w => call'[v] = call[v]
  BY DEF Turns
<1>2. ASSUME NEW v \in Writers PROVE CalmCall(v)'
  <2>1. CASE v = w
    BY <1>1, <2>1 DEF CalmNow, CalmCall, Told
  <2>2. CASE v # w
    <3>1. CalmCall(v)
      BY DEF CalmNow
    <3> QED
      BY <1>1, <2>2, <3>1 DEF CalmCall, Told, Mine
  <2> QED
    BY <2>1, <2>2
<1>3. ASSUME NEW v \in Writers, NEW i \in DOMAIN pending, pending[i].header.request = <<v, 0>>
      PROVE  CalmPending(v, i)'
  <2>1. CalmPending(v, i)
    BY <1>3 DEF CalmNow
  <2>2. v # w
    BY <2>1 DEF CalmPending
  <2> QED
    BY <1>1, <2>1, <2>2 DEF CalmPending, IsLease
<1>4. ASSUME NEW v \in Writers, NEW i \in DOMAIN log, log[i].header.request = <<v, 0>>
      PROVE  CalmLog(v, i)'
  <2>1. CalmLog(v, i)
    BY <1>4 DEF CalmNow
  <2>2. CASE v # w
    BY <1>1, <2>1, <2>2 DEF CalmLog
  <2>3. CASE v = w
    BY <2>1, <2>3 DEF CalmLog
  <2> QED
    BY <2>2, <2>3
<1>5. Opening(machine', pending')
  BY DEF CalmNow
<1> QED
  BY <1>2, <1>3, <1>4, <1>5 DEF CalmNow

LEMMA OpeningGrows ==
    ASSUME CalmNow, NEW c, Proposes(c), machine' = machine
    PROVE  Opening(machine', pending')
<1>1. Len(pending) >= 1 => pending'[1] = pending[1]
  BY DEF Proposes
<1>2. Len(pending) >= 2 => pending'[2] = pending[2]
  BY DEF Proposes
<1>3. Len(pending) \in Nat /\ Len(pending') = Len(pending) + 1
  BY DEF Proposes
<1> QED
  BY <1>1, <1>2, <1>3 DEF CalmNow, Opening

LEMMA CalmArchive ==
    ASSUME Types, Sessions, CalmNow, Checkpoint \/ Release
    PROVE  CalmNow'
<1>1. PICK h \in Headers : ByArchiver(h) /\ Proposes(Command(h, 0))
  BY ArchiverProposes
<1>2. UNCHANGED <<log, machine, applied, leader, lock, call, session, answer>>
  BY DEF Checkpoint, Release
<1>3. /\ DOMAIN pending = 1 .. Len(pending) /\ DOMAIN pending' = 1 .. Len(pending) + 1 /\ Len(pending) \in Nat
      /\ \A i \in DOMAIN pending : i \in DOMAIN pending' /\ pending'[i] = pending[i]
      /\ pending'[Len(pending) + 1].header = h
      /\ \A i \in DOMAIN pending' : i \in DOMAIN pending \/ i = Len(pending) + 1
  BY <1>1 DEF Proposes, Command
<1>4. ~IsLease(pending'[Len(pending) + 1]) /\ \A w \in Writers : h.request # <<w, 0>>
  BY <1>1, <1>3, Names DEF ByArchiver, IsLease
<1>5. Opening(machine', pending')
  BY <1>1, <1>2, OpeningGrows
<1>6. ASSUME NEW v \in Writers PROVE CalmCall(v)'
  <2>1. CalmCall(v)
    BY DEF CalmNow
  <2>2. (\E i \in DOMAIN pending : Mine(v, pending[i])) => \E i \in DOMAIN pending' : Mine(v, pending'[i])
    BY <1>3
  <2> QED
    BY <1>2, <2>1, <2>2 DEF CalmCall, Told, Mine
<1>7. ASSUME NEW v \in Writers, NEW i \in DOMAIN pending', pending'[i].header.request = <<v, 0>>
      PROVE  CalmPending(v, i)'
  <2>1. i \in DOMAIN pending /\ pending'[i] = pending[i]
    BY <1>3, <1>4, <1>7
  <2>2. CalmPending(v, i)
    BY <1>7, <2>1 DEF CalmNow
  <2>3. \A j \in DOMAIN pending' : IsLease(pending'[j]) => j = i
    BY <1>3, <1>4, <2>2 DEF CalmPending
  <2> QED
    BY <1>2, <2>1, <2>2, <2>3 DEF CalmPending, IsLease
<1>8. ASSUME NEW v \in Writers, NEW i \in DOMAIN log, log[i].header.request = <<v, 0>>
      PROVE  CalmLog(v, i)'
  BY <1>2, <1>8 DEF CalmNow, CalmLog
<1> QED
  BY <1>2, <1>5, <1>6, <1>7, <1>8 DEF CalmNow

LEMMA CalmPropose ==
    ASSUME Types, Sessions, Headed, Logged, CalmNow, NEW w \in Writers, Propose(w)
    PROVE  CalmNow'
<1> DEFINE h == HeaderFor(w, call[w].epoch)
           k == session[w].step
           n == Len(pending) + 1
<1>0. /\ call[w].at = "propose" /\ call[w].target = leader /\ k \in Steps
      /\ Turns(w, [at |-> "wait", target |-> call[w].target, try |-> call[w].try, epoch |-> call[w].epoch])
      /\ UNCHANGED <<log, machine, applied, leader, session, answer>>
      /\ h \in Headers /\ h.request = <<w, k>> /\ h.epoch = call[w].epoch
      /\ h.kind = "WriterLease" => k = 0
  <2>1. /\ h \in Headers /\ BuiltBy(session, answer, w, k, h) /\ k \in Steps /\ h.epoch = call[w].epoch
    BY ProposeEffect, HeaderForBuilt
  <2> HIDE DEF h
  <2>2. h.request = <<w, k>> /\ (h.kind = "WriterLease" => k = 0)
    BY <2>1, StepNumbers DEF BuiltBy
  <2> QED
    BY <2>1, <2>2, ProposeEffect
<1> HIDE DEF h
<1>1. /\ DOMAIN pending = 1 .. Len(pending) /\ DOMAIN pending' = 1 .. n /\ Len(pending) \in Nat
      /\ \A i \in DOMAIN pending : i \in DOMAIN pending' /\ pending'[i] = pending[i]
      /\ n \in DOMAIN pending' /\ pending'[n].header = h /\ pending'[n].try = call[w].try
      /\ \A i \in DOMAIN pending' : i \in DOMAIN pending \/ i = n
  <2>1. Proposes(Command(h, call[w].try))
    BY ProposeProposes DEF h
  <2> QED
    BY <2>1 DEF Proposes, Command
<1>2. /\ call'[w].at = "wait" /\ call'[w].target = leader /\ call'[w].try = call[w].try
      /\ \A v \in Writers : v # w => call'[v] = call[v]
  BY <1>0 DEF Turns
<1>3. k = 0 => lock[leader] = w /\ call[w].epoch = machine.writer_epoch + 1
  BY <1>0 DEF Sessions, CalmNow, CalmCall
<1>4. k = 0 => ~Has(machine, w, 0)
  <2> SUFFICES ASSUME k = 0, Has(machine, w, 0) PROVE FALSE
    OBVIOUS
  <2>1. PICK i \in DOMAIN log : log[i].header.request = <<w, 0>>
    BY StepNumbers DEF Logged
  <2>2. call[w].at = "wait"
    BY <2>1 DEF CalmNow, CalmLog
  <2> QED
    BY <1>0, <2>2
\* No other lease is in flight when w proposes its own, and none follows one.
<1>5. ASSUME NEW v \in Writers, NEW i \in DOMAIN pending, pending[i].header.request = <<v, 0>>
      PROVE  v # w /\ k # 0
  <2>1. call[v].at = "wait" /\ lock[leader] = v
    BY <1>5, LeaseHoldsLock
  <2> QED
    BY <1>0, <1>3, <2>1
<1>6. k = 0 => \A j \in DOMAIN pending : ~IsLease(pending[j])
  BY <1>5, LeaseRequest
<1>7. Opening(machine', pending')
  BY <1>0, ProposeProposes, OpeningGrows
<1>8. ASSUME NEW v \in Writers PROVE CalmCall(v)'
  <2>1. CalmCall(v)
    BY DEF CalmNow
  <2>2. CASE v = w
    <3>1. pending'[n].header.request = <<w, session'[w].step>> /\ pending'[n].try = call'[w].try
      BY <1>0, <1>1, <1>2
    <3>2. call'[w].try = 0 /\ ~Told(w, 0, {"ConflictingRetry", "StaleWriterEpoch"})'
      BY <1>0, <1>2, <2>1, <2>2 DEF CalmCall, Told
    <3> HIDE DEF n
    <3>3. \E i \in DOMAIN pending' : /\ pending'[i].header.request = <<w, session'[w].step>>
                                      /\ pending'[i].try = call'[w].try
      BY <1>1, <3>1
    <3> QED
      BY <1>0, <1>2, <2>2, <3>2, <3>3 DEF CalmCall, Mine
  <2>3. CASE v # w
    <3>1. (\E i \in DOMAIN pending : Mine(v, pending[i])) => \E i \in DOMAIN pending' : Mine(v, pending[i])'
      BY <1>0, <1>1, <1>2, <2>3 DEF Mine
    <3>2. (\E i \in DOMAIN log : Mine(v, log[i])) => \E i \in DOMAIN log' : Mine(v, log[i])'
      BY <1>0, <1>2, <2>3 DEF Mine
    <3> QED
      BY <1>0, <1>2, <2>1, <2>3, <3>1, <3>2 DEF CalmCall, Told
  <2> QED
    BY <2>2, <2>3
<1>9. ASSUME NEW v \in Writers, NEW i \in DOMAIN pending', pending'[i].header.request = <<v, 0>>
      PROVE  CalmPending(v, i)'
  <2>1. CASE i = n
    <3>1. v = w /\ k = 0
      BY <1>0, <1>1, <1>9, <2>1
    <3>2. pending'[i].header.epoch = machine'.writer_epoch + 1
      BY <1>0, <1>1, <1>3, <2>1, <3>1
    <3>3. \A j \in DOMAIN pending' : IsLease(pending'[j]) => j = i
      BY <1>1, <1>6, <2>1, <3>1
    <3>4. ~Has(machine', w, 0) /\ session'[w].step = 0 /\ call'[w].at = "wait"
      BY <1>0, <1>2, <1>4, <3>1
    <3> QED
      BY <3>1, <3>2, <3>3, <3>4 DEF CalmPending, IsLease
  <2>2. CASE i \in DOMAIN pending
    <3>1. pending'[i] = pending[i] /\ CalmPending(v, i)
      BY <1>1, <1>9, <2>2 DEF CalmNow
    <3>2. v # w /\ k # 0
      BY <1>5, <1>9, <2>2, <3>1
    <3>3. ~IsLease(pending'[n])
      BY <1>0, <1>1, <3>2 DEF IsLease
    <3>4. \A j \in DOMAIN pending' : IsLease(pending'[j]) => j = i
      BY <1>1, <3>1, <3>3 DEF CalmPending
    <3> QED
      BY <1>0, <1>2, <3>1, <3>2, <3>4 DEF CalmPending, IsLease
  <2> QED
    BY <1>1, <2>1, <2>2
<1>10. ASSUME NEW v \in Writers, NEW i \in DOMAIN log, log[i].header.request = <<v, 0>>
       PROVE  CalmLog(v, i)'
  <2>1. CalmLog(v, i)
    BY <1>10 DEF CalmNow
  <2> QED
    BY <1>0, <1>2, <2>1 DEF CalmLog
<1> QED
  BY <1>0, <1>7, <1>8, <1>9, <1>10 DEF CalmNow

LEMMA CalmReply ==
    ASSUME Types, Sessions, Logged, CalmNow, NEW w \in Writers, Reply(w)
    PROVE  CalmNow'
<1> DEFINE k == session[w].step
<1>1. call[w].at = "wait"
  BY ReplyEffect
<1>0. PICK i \in DOMAIN log : \E what, e, f :
         /\ Concluded(w, what, e, f) /\ Grounds(w, what, e, f)
         /\ i <= applied[call[w].target] /\ log[i].header.request = <<w, k>>
         /\ what = log[i].outcome \/ what = "NotCommitted"
  BY ReplyEffect
<1>2. PICK what, e, f :
         /\ Concluded(w, what, e, f) /\ Grounds(w, what, e, f)
         /\ i <= applied[call[w].target] /\ log[i].header.request = <<w, k>>
         /\ what = log[i].outcome \/ what = "NotCommitted"
  BY <1>0
<1>3. Settles(w, what, e, f) /\ k \in Steps /\ k \in Nat
  BY <1>2, ConcludedState, StepNumbers DEF Concluded
<1>4. UNCHANGED <<log, machine, pending, applied, leader>>
  BY <1>2 DEF Concluded
<1>5. /\ call'[w] = NoCall /\ \A v \in Writers : v # w => call'[v] = call[v]
  BY <1>2 DEF Concluded, Turns
<1>6. session'[w].step # 0 /\ \A v \in Writers : v # w => session'[v] = session[v]
  BY <1>3, StepNumbers DEF Settles, Over
<1>7. i <= applied[leader]
  BY <1>1, <1>2 DEF CalmNow, CalmCall
\* The lease of w is committed once, and the leader has applied it.
<1>8. ASSUME k = 0, NEW j \in DOMAIN log, log[j].header.request = <<w, 0>>
      PROVE  log[i].outcome = "Committed" /\ Has(machine, w, 0) /\ j = i
  <2>1. log[i].outcome = "Committed" /\ log[j].outcome = "Committed"
    BY <1>2, <1>8 DEF CalmNow, CalmLog
  <2>2. Entry(machine, session, w, 0, log[i], i) /\ Entry(machine, session, w, 0, log[j], j)
    BY <1>2, <1>8, StepNumbers DEF Logged
  <2> QED
    BY <2>1, <2>2 DEF Entry, Replied
<1>9. ASSUME NEW v \in Writers PROVE CalmCall(v)'
  <2>1. CalmCall(v)
    BY DEF CalmNow
  <2>2. CASE v = w
    <3>1. call'[w].try = 0 /\ call'[w].at = "idle"
      BY <1>5 DEF NoCall
    <3>2. answer'[<<w, 0>>] \notin {"ConflictingRetry", "StaleWriterEpoch"}
      <4>1. CASE k = 0
        <5>1. log[i].outcome = "Committed"
          BY <1>2, <1>8, <4>1
        <5> QED
          BY <1>2, <1>3, <4>1, <5>1 DEF Settles
      <4>2. CASE k # 0
        BY <1>3, <2>1, <2>2, <4>2, StepNumbers DEF Settles, CalmCall, Told
      <4> QED
        BY <4>1, <4>2
    <3> QED
      BY <2>2, <3>1, <3>2 DEF CalmCall, Told
  <2>3. CASE v # w
    <3>1. answer'[<<v, 0>>] = answer[<<v, 0>>]
      BY <1>3, <2>3, StepNumbers DEF Settles
    <3> QED
      BY <1>4, <1>5, <1>6, <2>1, <2>3, <3>1 DEF CalmCall, Told, Mine
  <2> QED
    BY <2>2, <2>3
<1>10. ASSUME NEW v \in Writers, NEW j \in DOMAIN pending, pending[j].header.request = <<v, 0>>
       PROVE  CalmPending(v, j)'
  <2>1. CalmPending(v, j)
    BY <1>10 DEF CalmNow
  <2>2. v # w
    BY <1>2, <1>8, <2>1 DEF CalmPending
  <2> QED
    BY <1>4, <1>5, <1>6, <2>1, <2>2 DEF CalmPending, IsLease
<1>11. ASSUME NEW v \in Writers, NEW j \in DOMAIN log, log[j].header.request = <<v, 0>>
       PROVE  CalmLog(v, j)'
  <2>1. CalmLog(v, j)
    BY <1>11 DEF CalmNow
  <2>2. CASE v # w
    BY <1>4, <1>5, <1>6, <2>1, <2>2 DEF CalmLog
  <2>3. CASE v = w
    <3>1. ~(j > applied[leader])
      <4> SUFFICES ASSUME j > applied[leader] PROVE FALSE
        OBVIOUS
      <4>1. k = 0
        BY <2>1, <2>3 DEF CalmLog
      <4>2. j = i
        BY <1>8, <1>11, <2>3, <4>1
      <4>3. applied[leader] \in Nat
        BY DEF Types
      <4>4. DOMAIN log \subseteq Nat
        BY LogLength
      <4> QED
        BY <1>7, <4>2, <4>3, <4>4
    <3> QED
      BY <1>4, <1>6, <2>1, <2>3, <3>1 DEF CalmLog
  <2> QED
    BY <2>2, <2>3
<1>12. Opening(machine', pending')
  BY <1>4 DEF CalmNow
<1> QED
  BY <1>4, <1>9, <1>10, <1>11, <1>12 DEF CalmNow

LEMMA CalmApply ==
    ASSUME Types, CalmNow, NEW n \in Nodes, ApplyNext(n)
    PROVE  CalmNow'
<1>1. /\ applied' = [applied EXCEPT ![n] = @ + 1] /\ applied \in [Nodes -> Nat]
      /\ UNCHANGED <<log, machine, pending, leader, lock, call, session, answer>> /\ leader \in Nodes
  BY DEF ApplyNext, Types
<1>2. applied[leader] \in Nat /\ applied'[leader] \in Nat /\ applied[leader] <= applied'[leader]
  BY <1>1
<1>3. Opening(machine', pending')
  BY <1>1 DEF CalmNow
<1>4. ASSUME NEW v \in Writers PROVE CalmCall(v)'
  <2>1. CalmCall(v)
    BY DEF CalmNow
  <2> QED
    BY <1>1, <2>1 DEF CalmCall, Told, Mine
<1>5. ASSUME NEW v \in Writers, NEW i \in DOMAIN pending, pending[i].header.request = <<v, 0>>
      PROVE  CalmPending(v, i)'
  BY <1>1, <1>5 DEF CalmNow, CalmPending, IsLease
<1>6. ASSUME NEW v \in Writers, NEW i \in DOMAIN log, log[i].header.request = <<v, 0>>
      PROVE  CalmLog(v, i)'
  <2>1. CalmLog(v, i)
    BY <1>6 DEF CalmNow
  <2>2. DOMAIN log \subseteq Nat
    BY DEF Types
  <2>3. i > applied'[leader] => i > applied[leader]
    BY <1>2, <2>2
  <2> QED
    BY <1>1, <2>1, <2>3 DEF CalmLog
<1> QED
  BY <1>1, <1>3, <1>4, <1>5, <1>6 DEF CalmNow

LEMMA OpeningCommit ==
    ASSUME Types, Headed, CalmNow, Commit
    PROVE  Opening(machine', pending')
<1> DEFINE h == pending[1].header
<1>1. /\ h \in Headers /\ Built(session, answer, h) /\ machine \in Machines
      /\ Len(pending) \in Nat /\ Len(pending') = Len(pending) - 1
      /\ \A i \in 1 .. (Len(pending) - 1) : pending'[i] = pending[i + 1]
  BY CommitEffect, CommitGrows DEF Types
<1>2. /\ <<"control", 1>> \in Requests /\ <<"control", 2>> \in Requests
  BY RequestNames
<1>3. CASE machine.initialized
  BY <1>3, CommitMachine DEF Opening, Takes, Leaves
<1>4. CASE h.kind = "TimelineOpen" /\ machine.bucket # NoBucket /\ machine.retries[<<"control", 2>>].index = 0
  <2>1. h.request = <<"control", 2>>
    BY <1>1, <1>4, BuiltKinds
  <2>2. EpochValid(machine, h) /\ ~(machine.retries[h.request].index > 0)
    BY <1>1, <1>4, <2>1, EpochValidCases
  <2>3. Taken(machine, h)
    BY <1>1, <1>4, <2>2, OutcomeCases DEF Taken
  <2>4. machine'.initialized
    BY <1>4, <2>3, CommitMachine DEF Takes
  <2> QED
    BY <2>4 DEF Opening
<1>5. CASE /\ Len(pending) >= 2 /\ h.kind = "WalArchiveBinding" /\ pending[2].header.kind = "TimelineOpen"
           /\ machine.retries[<<"control", 1>>].index = 0 /\ machine.retries[<<"control", 2>>].index = 0
  <2>1. h.request = <<"control", 1>> /\ h.bucket = Bucket
    BY <1>1, <1>5, BuiltKinds
  <2>2. EpochValid(machine, h) /\ ~(machine.retries[h.request].index > 0)
    BY <1>1, <1>5, <2>1, EpochValidCases
  <2>3. Taken(machine, h)
    BY <1>1, <1>5, <2>2, OutcomeCases DEF Taken
  <2>4. machine'.bucket # NoBucket
    BY <1>5, <2>1, <2>3, CommitMachine DEF Takes, NoBucket, Bucket
  <2>5. machine'.retries[<<"control", 2>>] = machine.retries[<<"control", 2>>]
    BY <1>2, <2>1, CommitRetries
  <2>6. Len(pending') >= 1 /\ pending'[1] = pending[2]
    BY <1>1, <1>5
  <2> QED
    BY <1>5, <2>4, <2>5, <2>6 DEF Opening
<1> QED
  BY <1>3, <1>4, <1>5 DEF CalmNow, Opening

LEMMA CalmCommit ==
    ASSUME Types, Sessions, Headed, Logged, CalmNow, Commit
    PROVE  CalmNow'
<1> DEFINE h == pending[1].header
           n == Len(log) + 1
<1>1. /\ h \in Headers /\ Built(session, answer, h) /\ machine \in Machines /\ 1 \in DOMAIN pending
      /\ Len(log) \in Nat /\ DOMAIN log = 1 .. Len(log) /\ DOMAIN log' = 1 .. n
      /\ \A i \in DOMAIN log : log'[i] = log[i]
      /\ log'[n].header = h /\ log'[n].try = pending[1].try /\ log'[n].outcome = machine'.outcome
      /\ UNCHANGED <<applied, leader, lock, call, session, answer>>
  BY CommitEffect, CommitGrows DEF Types
<1>2. /\ Len(pending) \in Nat /\ DOMAIN pending = 1 .. Len(pending) /\ DOMAIN pending' = 1 .. (Len(pending) - 1)
      /\ \A i \in DOMAIN pending' : i + 1 \in DOMAIN pending /\ pending'[i] = pending[i + 1]
  BY CommitEffect
<1>3. ~IsLease(pending[1]) => machine'.writer_epoch = machine.writer_epoch
  BY CommitMachine DEF Takes, Leaves, IsLease
<1>4. Opening(machine', pending')
  BY OpeningCommit
<1> HIDE DEF h, n
<1>5. ASSUME NEW v \in Writers PROVE CalmCall(v)'
  <2>1. CalmCall(v)
    BY DEF CalmNow
  <2>2. ASSUME call[v].at = "wait"
        PROVE  \/ \E i \in DOMAIN log' : Mine(v, log'[i])
               \/ \E i \in DOMAIN pending' : Mine(v, pending'[i])
    <3>1. CASE \E i \in DOMAIN log : Mine(v, log[i])
      <4>1. PICK i \in DOMAIN log : Mine(v, log[i])
        BY <3>1
      <4>2. i \in DOMAIN log' /\ log'[i] = log[i]
        BY <1>1 DEF n
      <4> QED
        BY <4>1, <4>2
    <3>2. CASE \E i \in DOMAIN pending : Mine(v, pending[i])
      <4>1. PICK i \in DOMAIN pending : Mine(v, pending[i])
        BY <3>2
      <4>2. CASE i = 1
        <5>1. n \in DOMAIN log' /\ Mine(v, log'[n])
          BY <1>1, <4>1, <4>2 DEF Mine, n, h
        <5> QED
          BY <5>1
      <4>3. CASE i # 1
        <5>1. i - 1 \in DOMAIN pending' /\ i - 1 + 1 = i
          BY <1>2, <4>3
        <5>2. pending'[i - 1] = pending[i]
          BY <1>2, <5>1
        <5> QED
          BY <4>1, <5>1, <5>2
      <4> QED
        BY <4>2, <4>3
    <3> QED
      BY <2>1, <2>2, <3>1, <3>2 DEF CalmCall
  <2>3. ASSUME call[v].at = "propose", session[v].step = 0, call[v].target = leader
        PROVE  call[v].epoch = machine'.writer_epoch + 1
    <3>1. ~IsLease(pending[1])
      <4> SUFFICES ASSUME IsLease(pending[1]) PROVE FALSE
        OBVIOUS
      <4>1. PICK u \in Writers : pending[1].header.request = <<u, 0>>
        BY <1>1, LeaseRequest
      <4>2. call[u].at = "wait" /\ lock[leader] = u
        BY <1>1, <4>1, LeaseHoldsLock
      <4>3. lock[leader] = v
        BY <2>3 DEF Sessions
      <4> QED
        BY <2>3, <4>2, <4>3
    <3> QED
      BY <1>3, <2>1, <2>3, <3>1 DEF CalmCall
  <2> QED
    BY <1>1, <2>1, <2>2, <2>3 DEF CalmCall, Told, Mine
<1>6. ASSUME NEW v \in Writers, NEW i \in DOMAIN pending', pending'[i].header.request = <<v, 0>>
      PROVE  CalmPending(v, i)'
  <2>1. i + 1 \in DOMAIN pending /\ pending'[i] = pending[i + 1] /\ i \in Nat /\ i >= 1
    BY <1>2
  <2>2. CalmPending(v, i + 1)
    BY <1>6, <2>1 DEF CalmNow
  <2>3. ~IsLease(pending[1])
    BY <1>1, <2>1, <2>2 DEF CalmPending
  <2>4. h.request # <<v, 0>>
    <3>1. h.request = <<v, 0>> => h.kind = "WriterLease"
      BY <1>1, BuiltKinds
    <3> QED
      BY <2>3, <3>1 DEF IsLease, h
  <2>5. machine'.retries[<<v, 0>>] = machine.retries[<<v, 0>>]
    BY <2>4, CommitRetries, RequestNames, StepNumbers DEF h
  <2>6. ~Has(machine', v, 0)
    BY <2>2, <2>5 DEF CalmPending, Has, Ident
  <2>7. ASSUME NEW j \in DOMAIN pending', IsLease(pending'[j])
        PROVE  j = i
    <3>1. j + 1 \in DOMAIN pending /\ pending'[j] = pending[j + 1] /\ j \in Nat
      BY <1>2
    <3>2. j + 1 = i + 1
      BY <2>2, <2>7, <3>1 DEF CalmPending
    <3> QED
      BY <2>1, <3>1, <3>2
  <2>8. pending'[i].header.epoch = machine'.writer_epoch + 1
    BY <1>3, <2>1, <2>2, <2>3 DEF CalmPending
  <2>9. call'[v].at = "wait" /\ session'[v].step = 0
    BY <1>1, <2>2 DEF CalmPending
  <2> QED
    BY <2>6, <2>7, <2>8, <2>9 DEF CalmPending, IsLease
<1>7. ASSUME NEW v \in Writers, NEW i \in DOMAIN log', log'[i].header.request = <<v, 0>>
      PROVE  CalmLog(v, i)'
  <2>1. CASE i \in DOMAIN log
    <3>1. log'[i] = log[i] /\ CalmLog(v, i)
      BY <1>1, <1>7, <2>1 DEF CalmNow
    <3> QED
      BY <1>1, <3>1 DEF CalmLog
  <2>2. CASE i = n
    <3>1. h.request = <<v, 0>>
      BY <1>1, <1>7, <2>2
    <3>2. CalmPending(v, 1)
      BY <1>1, <3>1 DEF CalmNow, h
    <3>3. h.kind = "WriterLease"
      BY <1>1, <3>1, BuiltKinds
    <3>4. machine.initialized
      BY <3>3 DEF CalmNow, Opening, h
    <3>5. h.epoch = machine.writer_epoch + 1 /\ ~(machine.retries[h.request].index > 0)
      BY <3>1, <3>2 DEF CalmPending, Has, Ident, h
    <3>6. EpochValid(machine, h)
      BY <1>1, <3>3, <3>4, <3>5, EpochValidCases
    <3>7. Taken(machine, h)
      BY <1>1, <3>3, <3>5, <3>6, OutcomeCases DEF Taken
    <3>8. log'[i].outcome = "Committed"
      BY <1>1, <2>2, <3>7, CommitMachine DEF Takes, h
    <3>9. call'[v].at = "wait" /\ session'[v].step = 0
      BY <1>1, <3>2 DEF CalmPending
    <3> QED
      BY <3>8, <3>9 DEF CalmLog
  <2>3. i \in DOMAIN log \/ i = n
    BY <1>1 DEF n
  <2> QED
    BY <2>1, <2>2, <2>3
<1> QED
  BY <1>4, <1>5, <1>6, <1>7 DEF CalmNow

LEMMA CalmStep ==
    ASSUME Types, Sessions, Headed, Logged, Epochs, Calm, Next
    PROVE  Calm'
<1> SUFFICES ASSUME faults' = 0 PROVE CalmNow'
  BY DEF Calm, CalmNow
<1>1. faults' = faults \/ faults' # 0
  <2>1. \A w \in Writers : GiveUp(w) \/ Unreachable(w) => faults' # 0
    BY GiveUpEffect, UnreachableEffect
  <2>2. \A n \in Nodes : Elect(n) => faults' # 0
    BY ElectEffect
  <2> QED
    BY <2>1, <2>2 DEF Next, Start, Deliver, Propose, NotLeader, Reply, Answered, Commit, ApplyNext,
                      Checkpoint, Release
<1>2. CalmNow
  BY <1>1 DEF Calm, CalmNow
<1>3. ASSUME NEW w \in Writers, Start(w) PROVE CalmNow'
  <2>1. call[w].at = "idle" /\ UNCHANGED <<log, machine, pending, applied, leader, session, answer>>
    BY <1>3, StartEffect
  <2>2. PICK n \in Nodes : Turns(w, [at |-> "send", target |-> n, try |-> 0, epoch |-> 0])
    BY <1>3, StartEffect
  <2> QED
    BY <1>2, <2>1, <2>2, CalmTurn
<1>4. ASSUME NEW w \in Writers, Deliver(w) PROVE CalmNow'
  <2> DEFINE e == IF session[w].step = 0 THEN EpochOn(call[w].target) + 1 ELSE session[w].epoch
             c == [at |-> "propose", target |-> call[w].target, try |-> call[w].try, epoch |-> e]
  <2>1. /\ call[w].at = "send" /\ Turns(w, c) /\ (session[w].step = 0 => lock[call[w].target] = Free)
        /\ UNCHANGED <<log, machine, pending, applied, leader, session, answer>>
    BY <1>4, DeliverEffect
  <2>2. c.at = "propose" /\ c.target = call[w].target /\ c.try = call[w].try /\ c.epoch = e
    OBVIOUS
  <2>3. session[w].step = 0 /\ call[w].target = leader => e = machine.writer_epoch + 1
    BY <1>2, <2>1, FreshEpoch
  <2>4. call[w].try = 0
    BY <1>2 DEF CalmNow, CalmCall
  <2> HIDE DEF c, e
  <2> QED
    BY <1>2, <2>1, <2>2, <2>3, <2>4, CalmTurn
<1>5. ASSUME NEW w \in Writers, NotLeader(w) PROVE CalmNow'
  <2>1. call[w].at = "propose"
    BY <1>2, <1>5, NotLeaderEffect DEF CalmNow, CalmCall
  <2>2. UNCHANGED <<log, machine, pending, applied, leader, session, answer>>
    BY <1>5, NotLeaderEffect
  <2>3. PICK n \in Nodes : Turns(w, [at |-> "send", target |-> n, try |-> call[w].try, epoch |-> call[w].epoch])
    BY <1>5, NotLeaderEffect
  <2>4. call[w].try = 0
    BY <1>2 DEF CalmNow, CalmCall
  <2> QED
    BY <1>2, <2>1, <2>2, <2>3, <2>4, CalmTurn
<1>6. ASSUME NEW w \in Writers, Propose(w) PROVE CalmNow'
  BY <1>2, <1>6, CalmPropose
<1>7. ASSUME NEW w \in Writers, Reply(w) PROVE CalmNow'
  BY <1>2, <1>7, CalmReply
<1>8. ASSUME NEW n \in Nodes, ApplyNext(n) PROVE CalmNow'
  BY <1>2, <1>8, CalmApply
<1>9. CASE Commit
  BY <1>2, <1>9, CalmCommit
<1>10. CASE Checkpoint \/ Release
  BY <1>2, <1>10, CalmArchive
<1>11. \A w \in Writers : ~GiveUp(w) /\ ~Unreachable(w)
  BY GiveUpEffect, UnreachableEffect
<1>12. \A n \in Nodes : ~Elect(n)
  BY ElectEffect
<1> QED
  BY <1>3, <1>4, <1>5, <1>6, <1>7, <1>8, <1>9, <1>10, <1>11, <1>12 DEF Next

-----------------------------------------------------------------------------
(* The theorems. *)

LEMMA InitIInv ==
    ASSUME Init
    PROVE  IInv
<1> DEFINE b == Command(HeaderOf(<<"control", 1>>, "WalArchiveBinding", <<Bucket, 0, 0>>, 0, 0, 0, Bucket), 0)
           o == Command(HeaderOf(<<"control", 2>>, "TimelineOpen", EmptyHash, 0, 0, 0, NoBucket), 0)
<1>1. /\ log = <<>> /\ machine = Empty /\ pending = <<b, o>> /\ applied = [n \in Nodes |-> 0]
      /\ leader \in Nodes /\ lock = [n \in Nodes |-> Free] /\ call = [w \in Writers |-> NoCall]
      /\ session = [w \in Writers |-> [step |-> 0, epoch |-> 0, first |-> 0]]
      /\ answer = [r \in Writers \X Steps |-> "none"] /\ faults = 0
  BY DEF Init
<1>2. b \in Proposals /\ ByControl(b.header) /\ o \in Proposals /\ ByControl(o.header)
      /\ b.header.kind = "WalArchiveBinding" /\ o.header.kind = "TimelineOpen"
  BY DEF Command, HeaderOf, Proposals, Headers, AnyRequest, Kinds, Hashes, TwoBuckets, EmptyHash,
         ByControl, Bucket, NoBucket
<1> HIDE DEF b, o
<1>3. /\ pending \in Seq(Proposals) /\ Len(pending) = 2 /\ pending[1] = b /\ pending[2] = o
      /\ DOMAIN pending = 1 .. 2
  BY <1>1, <1>2
<1>4. DOMAIN log = {} /\ Len(log) = 0
  BY <1>1
<1>5. /\ machine \in Machines /\ machine.writer_epoch = 0 /\ machine.wal_end = 0
      /\ \A r \in Requests : machine.retries[r].index = 0
  <2>1. NoIdentity \in Identities /\ NoIdentity.index = 0
    BY DEF NoIdentity, Identities, Kinds, Hashes, EmptyHash, TwoBuckets
  <2> HIDE DEF NoIdentity
  <2>2. machine.retries = [r \in Requests |-> NoIdentity]
    BY <1>1 DEF Empty
  <2>3. machine \in Machines /\ machine.writer_epoch = 0 /\ machine.wal_end = 0
    BY <1>1, <2>1 DEF Empty, Machines, TwoBuckets, Outcomes, Replied
  <2> QED
    BY <2>1, <2>2, <2>3
<1>6. Types
  <2>1. log \in Seq({log[i] : i \in DOMAIN log})
    BY <1>1
  <2>2. applied \in [Nodes -> Nat] /\ \A n \in Nodes : applied[n] <= Len(log)
    BY <1>1, <1>4
  <2>3. call \in [Writers -> Calls]
    BY <1>1, NoCallType
  <2>4. session \in [Writers -> [step : 0 .. Over, epoch : Nat, first : Nat]]
    BY <1>1, StepNumbers
  <2>5. answer \in [Writers \X Steps -> Answers]
    BY <1>1 DEF Answers
  <2>6. faults \in 0 .. MaxFaults /\ lock \in [Nodes -> Writers \cup {Free}]
    BY <1>1, StepNumbers
  <2> QED
    BY <1>1, <1>3, <1>4, <1>5, <2>1, <2>2, <2>3, <2>4, <2>5, <2>6 DEF Types, Proposals
<1>7. \A w \in Writers, k \in Steps : ~Has(machine, w, k)
  <2> SUFFICES ASSUME NEW w \in Writers, NEW k \in Steps PROVE ~Has(machine, w, k)
    OBVIOUS
  <2>1. machine.retries[<<w, k>>].index = 0
    BY <1>5, RequestNames
  <2> QED
    BY <2>1 DEF Has, Ident
<1>8. \A w \in Writers, k \in Steps : answer[<<w, k>>] = "none"
  BY <1>1
<1>9. \A w \in Writers : call[w].at = "idle" /\ call[w].try = 0 /\ session[w].step = 0
  BY <1>1 DEF NoCall
<1>10. Sessions
  BY <1>9, StepNumbers DEF Sessions
<1>11. Headed
  BY <1>2, <1>3, <1>4 DEF Headed, Built
<1>12. Logged
  BY <1>4, <1>7 DEF Logged
<1>13. Granted
  BY <1>7, StepNumbers DEF Granted
<1>14. Truthful
  BY <1>8, StepNumbers DEF Truthful, Told, Replied, Refusals
<1>15. Epochs
  BY <1>4, <1>5 DEF Epochs, EpochAt
<1>16. Calm
  <2>1. Opening(machine, pending)
    BY <1>2, <1>3, <1>5, RequestNames DEF Opening
  <2>2. \A w \in Writers : CalmCall(w)
    BY <1>8, <1>9, StepNumbers DEF CalmCall, Told
  <2>3. \A w \in Writers, i \in DOMAIN pending : pending[i].header.request # <<w, 0>>
    BY <1>2, <1>3, Names DEF ByControl
  <2> QED
    BY <1>4, <2>1, <2>2, <2>3 DEF Calm
<1> QED
  BY <1>6, <1>10, <1>11, <1>12, <1>13, <1>14, <1>15, <1>16 DEF IInv

(* The inductive invariant of the routing: every step of a writer's call,   *)
(* of Raft and of the archiver keeps it.                                    *)
THEOREM Invariance == Spec => []IInv
<1>1. Init => IInv
  BY InitIInv
<1>2. IInv /\ [Next]_vars => IInv'
  <2>1. ASSUME IInv, Next PROVE IInv'
    BY <2>1, TypesStep, SessionsStep, HeadedStep, LoggedStep, GrantedStep, TruthfulStep, EpochsStep, CalmStep
       DEF IInv
  <2>2. ASSUME IInv, UNCHANGED vars PROVE IInv'
    <3>1. Types' /\ Sessions' /\ Headed'
      BY <2>2 DEF IInv, vars, Types, Sessions, Headed, Told
    <3>2. Logged' /\ Granted' /\ Truthful' /\ Epochs'
      BY <2>2 DEF IInv, vars, Logged, Granted, Truthful, Epochs, Told
    <3>3. Calm'
      BY <2>2 DEF IInv, vars, Calm, CalmCall, CalmPending, CalmLog, Mine, Told
    <3> QED
      BY <3>1, <3>2, <3>3 DEF IInv
  <2> QED
    BY <2>1, <2>2
<1> QED
  BY <1>1, <1>2, PTL DEF Spec

(* Two writers are never told that they hold the same epoch, and a writer is *)
(* told to start after every append that an earlier holder was told is       *)
(* committed, whatever acquire_writer's calls met on their way.              *)
THEOREM HandoffIsSafe == Spec => []Handoff
<1>1. IInv => Handoff
  <2> SUFFICES ASSUME IInv, NEW v \in Writers, NEW w \in Writers, v # w,
                      Told(v, 0, Replied), Told(w, 0, Replied), session[v].epoch <= session[w].epoch
               PROVE  /\ session[v].epoch # session[w].epoch
                      /\ \A k \in Appends : Told(v, k, Replied) => session[v].first + k <= session[w].first
    BY DEF Handoff
  <2>0. Types /\ Granted /\ Truthful
    BY DEF IInv
  <2>1. Has(machine, v, 0) /\ Has(machine, w, 0)
    BY <2>0, StepNumbers DEF Truthful
  <2>2. /\ session[v].epoch = Ident(machine, v, 0).epoch /\ session[w].epoch = Ident(machine, w, 0).epoch
        /\ session[w].first = Ident(machine, w, 0).wal_end
    BY <2>0 DEF Truthful
  <2>3. session[v].epoch # session[w].epoch
    BY <2>0, <2>1, <2>2 DEF Granted
  <2>4. session[v].epoch < session[w].epoch
    BY <2>0, <2>3, CallFields
  <2>5. ASSUME NEW k \in Appends, Told(v, k, Replied)
        PROVE  session[v].first + k <= session[w].first
    <3>1. Has(machine, v, k)
      BY <2>0, <2>5, StepNumbers DEF Truthful
    <3>2. Ident(machine, v, k).epoch = session[v].epoch /\ Ident(machine, v, k).wal_end = session[v].first + k
      BY <2>0, <3>1 DEF Granted, AppendAt
    <3> QED
      BY <2>0, <2>1, <2>2, <2>4, <3>1, <3>2 DEF Granted
  <2> QED
    BY <2>3, <2>5
<1> QED
  BY <1>1, Invariance, PTL

(* An append that was acknowledged, after however many resends and leaders,  *)
(* is in the committed log exactly once, at the position its writer gave it. *)
THEOREM AcknowledgedOnce == Spec => []AckedOnce
<1>1. IInv => AckedOnce
  <2> SUFFICES ASSUME IInv, NEW w \in Writers, NEW k \in Appends, Told(w, k, Replied)
               PROVE  /\ Cardinality(AppliedAt(w, k)) = 1
                      /\ \A i \in AppliedAt(w, k) : log[i].header.lo = session[w].first + k - 1
    BY DEF AckedOnce
  <2>0. Types /\ Headed /\ Logged /\ Truthful /\ k \in Steps
    BY StepNumbers DEF IInv
  <2> DEFINE n == Ident(machine, w, k).index
  <2>1. n \in AppliedAt(w, k)
    BY <2>0 DEF Truthful, Logged, AppliedAt
  <2>2. ASSUME NEW i \in AppliedAt(w, k)
        PROVE  i = n /\ log[i].header.lo = session[w].first + k - 1
    <3>1. i \in DOMAIN log /\ log[i].header.request = <<w, k>> /\ log[i].outcome = "Committed"
      BY DEF AppliedAt
    <3>2. i = n
      BY <2>0, <3>1 DEF Logged, Entry
    <3>3. log[i].header \in Headers /\ Built(session, answer, log[i].header)
      BY <2>0, <3>1 DEF Types, Headed
    <3>4. BuiltBy(session, answer, w, k, log[i].header)
      BY <2>0, <3>1, <3>3, BuiltRequest
    <3> QED
      BY <3>2, <3>4 DEF BuiltBy
  <2>3. AppliedAt(w, k) = {n}
    BY <2>1, <2>2
  <2>4. Cardinality(AppliedAt(w, k)) = 1
    BY <2>3, FS_Singleton
  <2> QED
    BY <2>2, <2>4
<1> QED
  BY <1>1, Invariance, PTL

(* An append that was refused is in the committed log neither before nor     *)
(* after the refusal: no earlier attempt of it commits behind the writer.    *)
THEOREM RefusalIsFinal == Spec => []RefusedNeverApplied
<1>1. IInv => RefusedNeverApplied
  <2> SUFFICES ASSUME IInv, NEW w \in Writers, NEW k \in Appends, Told(w, k, Refusals), NEW i \in AppliedAt(w, k)
               PROVE  FALSE
    BY DEF RefusedNeverApplied, Refusals
  <2>0. Logged /\ Truthful /\ k \in Steps
    BY StepNumbers DEF IInv
  <2>1. ~Has(machine, w, k)
    BY <2>0 DEF Truthful, Barred
  <2>2. Entry(machine, session, w, k, log[i], i) /\ log[i].outcome = "Committed"
    BY <2>0 DEF AppliedAt, Logged
  <2> QED
    BY <2>1, <2>2 DEF Entry, Replied
<1> QED
  BY <1>1, Invariance, PTL

(* Without elections, lost calls and timeouts, any number of writers that    *)
(* acquire at once all get an epoch: writer_lock serialises them.            *)
THEOREM LocksSerialise == Spec => []AcquisitionsSerialise
<1>1. IInv => AcquisitionsSerialise
  BY DEF IInv, Calm, CalmCall, AcquisitionsSerialise
<1> QED
  BY <1>1, Invariance, PTL

-----------------------------------------------------------------------------
(* The refinement needs the bounds of TimelineGroup, and they are counted:  *)
(* the log and the proposals together never hold more commands than there   *)
(* are keys, no epoch or LSN is without the request that brought it.        *)

BindingHeader == HeaderOf(<<"control", 1>>, "WalArchiveBinding", <<Bucket, 0, 0>>, 0, 0, 0, Bucket)
OpenHeader == HeaderOf(<<"control", 2>>, "TimelineOpen", EmptyHash, 0, 0, 0, NoBucket)
LeaseHeader(w, e) == HeaderOf(<<w, 0>>, "WriterLease", <<w, 0, 0>>, e, 0, 0, NoBucket)
WalHeader(w, k, e, lo) == HeaderOf(<<w, k>>, "Wal", <<w, 0, 1>>, e, lo, lo + 1, NoBucket)
EndHeader(w, e) == HeaderOf(<<w, MaxAppends + 1>>, "ReleaseWriter", EmptyHash, e, 0, 0, NoBucket)
SegmentHeader(lo, hi) ==
    HeaderOf(<<"archive", hi>>, "ArchiveCheckpoint", <<NoBucket, lo, hi>>, 0, lo, hi, NoBucket)
CutHeader(hi) == HeaderOf(<<"archive", hi>>, "ReleaseWal", EmptyHash, 0, hi, hi, NoBucket)

ByWriter(h) ==
    \/ \E w \in Writers : h.epoch > 0 /\ h = LeaseHeader(w, h.epoch)
    \/ \E w \in Writers, k \in Appends : h = WalHeader(w, k, h.epoch, h.lo)
    \/ \E w \in Writers : h = EndHeader(w, h.epoch)
ByOthers(h) ==
    \/ h = BindingHeader
    \/ h = OpenHeader
    \/ h.lo < h.hi /\ h = SegmentHeader(h.lo, h.hi)
    \/ 0 < h.hi /\ h = CutHeader(h.hi)
Shape(c) == ByWriter(c.header) \/ (ByOthers(c.header) /\ c.try = 0)

(* The commands on their way and in the log, by position. *)
Total == Len(log) + Len(pending)
Sent(i) == IF i <= Len(log) THEN log[i] ELSE pending[i - Len(log)]

(* No two of them have the same key. *)
Key(c) == <<c.header.request, IF c.header.kind = "ReleaseWal" THEN 1 ELSE c.try>>
Shaped == \A i \in 1 .. Total : Shape(Sent(i)) /\ Sent(i).try \in Nat /\ Sent(i).try <= faults
Distinct == \A i, j \in 1 .. Total : Key(Sent(i)) = Key(Sent(j)) => i = j

(* The attempt that a call is making has not been proposed before. *)
FreshCall(w, c) ==
    c.header.request = <<w, session[w].step>> =>
       /\ call[w].at # "idle"
       /\ c.try <= call[w].try
       /\ call[w].at # "wait" => c.try < call[w].try
Fresh ==
    /\ \A w \in Writers : call[w].try <= faults
    /\ \A w \in Writers, i \in 1 .. Total : FreshCall(w, Sent(i))

(* Epochs: none is ahead of the machine by more than one, and each was some *)
(* writer's lease.                                                          *)
Leased ==
    /\ \A i \in DOMAIN log : log[i].epoch <= machine.writer_epoch
    /\ \A w \in Writers : /\ call[w].epoch <= machine.writer_epoch + 1
                          /\ call[w].at = "propose" /\ session[w].step = 0 => call[w].epoch > 0
    /\ \A i \in 1 .. Total : Sent(i).header.epoch <= machine.writer_epoch + 1
    /\ \A e \in 1 .. machine.writer_epoch : \E w \in Writers : Has(machine, w, 0) /\ Ident(machine, w, 0).epoch = e

(* LSNs: each up to the tail is the end of some append. *)
Filled ==
    \A x \in 1 .. machine.wal_end : \E w \in Writers, k \in Appends :
        Has(machine, w, k) /\ Ident(machine, w, k).wal_end = x

IsSegment(c) == c.header.kind = "ArchiveCheckpoint"
IsCut(c) == c.header.kind = "ReleaseWal"

(* The archiver: watermarks in order, one checkpoint and one compaction at  *)
(* a time, each above the earlier ones.                                     *)
Watermarks(m) ==
    /\ m.archive_lsn <= m.wal_end
    /\ m.initialized => m.retries[<<"control", 2>>].index > 0
    /\ ~m.initialized => m.wal_end = 0 /\ ~m.writer_active
    /\ m.archive_lsn > 0 => \E e \in m.committed : IsSegment(e) /\ e.header.hi = m.archive_lsn
    /\ \A x \in 1 .. MaxLsn : m.retries[<<"archive", x>>].index > 0 => x <= m.archive_lsn
    /\ \A e \in m.committed : e.header.kind = "Wal" => e.header.hi > 0
Cuts(m, l) ==
    /\ \A i \in DOMAIN l : IsSegment(l[i]) => l[i].header.hi <= m.archive_lsn
    /\ \A i \in DOMAIN l : IsCut(l[i]) =>
         /\ l[i].header.hi <= m.archive_lsn
         /\ \A e \in m.committed : e.header.kind = "Wal" => e.header.hi > l[i].header.hi
Proposed(m, l, p) ==
    /\ \A i \in DOMAIN p : IsSegment(p[i]) => p[i].header.lo = m.archive_lsn /\ p[i].header.hi <= m.wal_end
    /\ \A i \in DOMAIN p : IsCut(p[i]) =>
         /\ p[i].header.hi <= m.archive_lsn
         /\ \E e \in m.committed : IsSegment(e) /\ e.header.hi = p[i].header.hi
         /\ \A j \in DOMAIN l : IsCut(l[j]) => l[j].header.hi < p[i].header.hi
    /\ \A i, j \in DOMAIN p : IsSegment(p[i]) /\ IsSegment(p[j]) => i = j
    /\ \A i, j \in DOMAIN p : IsCut(p[i]) /\ IsCut(p[j]) => i = j
Archived == Watermarks(machine) /\ Cuts(machine, log) /\ Proposed(machine, log, pending)
-----------------------------------------------------------------------------
(* The commands that were sent. *)

LEMMA HeaderFields ==
    /\ BindingHeader.request = <<"control", 1>> /\ BindingHeader.kind = "WalArchiveBinding"
    /\ OpenHeader.request = <<"control", 2>> /\ OpenHeader.kind = "TimelineOpen"
    /\ \A w, e : LeaseHeader(w, e).request = <<w, 0>> /\ LeaseHeader(w, e).kind = "WriterLease"
                 /\ LeaseHeader(w, e).epoch = e
    /\ \A w, k, e, lo : /\ WalHeader(w, k, e, lo).request = <<w, k>> /\ WalHeader(w, k, e, lo).kind = "Wal"
                        /\ WalHeader(w, k, e, lo).epoch = e
                        /\ WalHeader(w, k, e, lo).lo = lo /\ WalHeader(w, k, e, lo).hi = lo + 1
    /\ \A w, e : /\ EndHeader(w, e).request = <<w, MaxAppends + 1>> /\ EndHeader(w, e).kind = "ReleaseWriter"
                 /\ EndHeader(w, e).epoch = e
    /\ \A lo, hi : /\ SegmentHeader(lo, hi).request = <<"archive", hi>>
                   /\ SegmentHeader(lo, hi).kind = "ArchiveCheckpoint" /\ SegmentHeader(lo, hi).epoch = 0
                   /\ SegmentHeader(lo, hi).lo = lo /\ SegmentHeader(lo, hi).hi = hi
    /\ \A hi : /\ CutHeader(hi).request = <<"archive", hi>> /\ CutHeader(hi).kind = "ReleaseWal"
               /\ CutHeader(hi).hi = hi /\ CutHeader(hi).lo = hi /\ CutHeader(hi).epoch = 0
BY DEF HeaderOf, BindingHeader, OpenHeader, LeaseHeader, WalHeader, EndHeader, SegmentHeader, CutHeader

(* What the shape of a header says by its kind. *)
LEMMA ShapeKinds ==
    ASSUME NEW c, Shape(c)
    PROVE  /\ c.header.kind \in {"WriterLease", "Wal", "ReleaseWriter"} =>
                \E w \in Writers, k \in Steps : c.header.request = <<w, k>>
           /\ c.header.kind \in {"WriterLease", "Wal", "ReleaseWriter"} \/
              (c.header.request[1] \in {"control", "archive"} /\ c.try = 0)
           /\ c.header.kind = "WriterLease" =>
                \E w \in Writers : c.header.epoch > 0 /\ c.header = LeaseHeader(w, c.header.epoch)
           /\ c.header.kind = "Wal" =>
                \E w \in Writers, k \in Appends : c.header = WalHeader(w, k, c.header.epoch, c.header.lo)
           /\ c.header.kind = "ReleaseWriter" => \E w \in Writers : c.header = EndHeader(w, c.header.epoch)
           /\ c.header.kind = "WalArchiveBinding" => c.header = BindingHeader
           /\ c.header.kind = "TimelineOpen" => c.header = OpenHeader
           /\ c.header.kind = "ArchiveCheckpoint" =>
                c.header.lo < c.header.hi /\ c.header = SegmentHeader(c.header.lo, c.header.hi)
           /\ c.header.kind = "ReleaseWal" => 0 < c.header.hi /\ c.header = CutHeader(c.header.hi)
           /\ c.header.kind \in {"WriterLease", "Wal", "ReleaseWriter", "WalArchiveBinding", "TimelineOpen",
                                 "ArchiveCheckpoint", "ReleaseWal"}
           /\ c.header.request[1] = "archive" => c.header.kind \in {"ArchiveCheckpoint", "ReleaseWal"}
<1> DEFINE h == c.header
<1>1. CASE ByWriter(h)
  <2>1. CASE \E w \in Writers : h.epoch > 0 /\ h = LeaseHeader(w, h.epoch)
    <3>1. PICK w \in Writers : h.epoch > 0 /\ h = LeaseHeader(w, h.epoch)
      BY <2>1
    <3>2. h.request = <<w, 0>> /\ h.kind = "WriterLease"
      BY <3>1, HeaderFields
    <3> QED
      BY <3>1, <3>2, StepNumbers, Names
  <2>2. CASE \E w \in Writers, k \in Appends : h = WalHeader(w, k, h.epoch, h.lo)
    <3>1. PICK w \in Writers, k \in Appends : h = WalHeader(w, k, h.epoch, h.lo)
      BY <2>2
    <3>2. h.request = <<w, k>> /\ h.kind = "Wal" /\ k \in Steps
      BY <3>1, HeaderFields, StepNumbers
    <3>3. h.request[1] = w
      BY <3>2
    <3> QED
      BY <3>1, <3>2, <3>3, Names
  <2>3. CASE \E w \in Writers : h = EndHeader(w, h.epoch)
    <3>1. PICK w \in Writers : h = EndHeader(w, h.epoch)
      BY <2>3
    <3>2. h.request = <<w, MaxAppends + 1>> /\ h.kind = "ReleaseWriter"
      BY <3>1, HeaderFields
    <3> QED
      BY <3>1, <3>2, StepNumbers, Names
  <2> QED
    BY <1>1, <2>1, <2>2, <2>3 DEF ByWriter
<1>2. CASE ByOthers(h) /\ c.try = 0
  <2>1. CASE h = BindingHeader
    BY <1>2, <2>1, HeaderFields
  <2>2. CASE h = OpenHeader
    BY <1>2, <2>2, HeaderFields
  <2>3. CASE h.lo < h.hi /\ h = SegmentHeader(h.lo, h.hi)
    <3>1. h.request = <<"archive", h.hi>> /\ h.kind = "ArchiveCheckpoint"
      BY <2>3, HeaderFields
    <3> QED
      BY <1>2, <2>3, <3>1
  <2>4. CASE 0 < h.hi /\ h = CutHeader(h.hi)
    <3>1. h.request = <<"archive", h.hi>> /\ h.kind = "ReleaseWal"
      BY <2>4, HeaderFields
    <3> QED
      BY <1>2, <2>4, <3>1
  <2> QED
    BY <1>2, <2>1, <2>2, <2>3, <2>4 DEF ByOthers
<1> QED
  BY <1>1, <1>2 DEF Shape

LEMMA SentBasics ==
    ASSUME Types
    PROVE  /\ Len(log) \in Nat /\ Len(pending) \in Nat /\ Total \in Nat
           /\ Total = Len(log) + Len(pending)
           /\ DOMAIN log = 1 .. Len(log) /\ DOMAIN pending = 1 .. Len(pending)
           /\ \A i \in DOMAIN log : i \in 1 .. Total /\ Sent(i) = log[i]
           /\ \A i \in DOMAIN pending : Len(log) + i \in 1 .. Total /\ Sent(Len(log) + i) = pending[i]
           /\ \A i \in 1 .. Total : \/ i \in DOMAIN log /\ Sent(i) = log[i]
                                    \/ i - Len(log) \in DOMAIN pending /\ Sent(i) = pending[i - Len(log)]
           /\ \A i \in DOMAIN pending : pending[i].header \in Headers /\ pending[i].try \in Nat
           /\ \A i \in 1 .. Total : Sent(i).header \in Headers
<1>1. Len(log) \in Nat /\ DOMAIN log = 1 .. Len(log)
  BY LogLength
<1>2. /\ Len(pending) \in Nat /\ DOMAIN pending = 1 .. Len(pending)
      /\ \A i \in DOMAIN pending : pending[i] \in Proposals
  <2>1. pending \in Seq(Proposals)
    BY DEF Types, Proposals
  <2> QED
    BY <2>1
<1>3. \A i \in DOMAIN pending : pending[i].header \in Headers /\ pending[i].try \in Nat
  BY <1>2 DEF Proposals
<1>4. \A i \in DOMAIN log : log[i].header \in Headers
  BY DEF Types
<1>5. \A i \in 1 .. Total : \/ i \in DOMAIN log /\ Sent(i) = log[i]
                            \/ i - Len(log) \in DOMAIN pending /\ Sent(i) = pending[i - Len(log)]
  BY <1>1, <1>2 DEF Total, Sent
<1>6. \A i \in DOMAIN pending : Len(log) + i \in 1 .. Total /\ Sent(Len(log) + i) = pending[i]
  <2> SUFFICES ASSUME NEW i \in DOMAIN pending
               PROVE  Len(log) + i \in 1 .. Total /\ Sent(Len(log) + i) = pending[i]
    OBVIOUS
  <2>1. i \in Nat /\ i > 0 /\ Len(log) + i - Len(log) = i /\ ~(Len(log) + i <= Len(log))
    BY <1>1, <1>2
  <2> QED
    BY <1>1, <1>2, <2>1 DEF Total, Sent
<1>7. Total \in Nat /\ Total = Len(log) + Len(pending)
  BY <1>1, <1>2 DEF Total
<1>8. \A i \in DOMAIN log : i \in 1 .. Total /\ Sent(i) = log[i]
  BY <1>1, <1>2, <1>7 DEF Sent
<1>9. \A i \in 1 .. Total : Sent(i).header \in Headers
  BY <1>3, <1>4, <1>5
<1> QED
  BY <1>1, <1>2, <1>3, <1>5, <1>6, <1>7, <1>8, <1>9

(* A command keeps its header and its attempt, from proposal to commit. *)
Carried(i) == Sent(i)'.header = Sent(i).header /\ Sent(i)'.try = Sent(i).try

(* The one command that a step may add. *)
Adds(c) ==
    \/ \E w \in Writers : Propose(w) /\ c = Command(HeaderFor(w, call[w].epoch), call[w].try)
    \/ Checkpoint /\ c = Command(SegmentHeader(machine.archive_lsn, machine.wal_end), 0)
    \/ Release /\ c = Command(CutHeader(machine.archive_lsn), 0)

LEMMA SentSame ==
    ASSUME Types, UNCHANGED <<log, pending>>
    PROVE  Total' \in Nat /\ \A i \in 1 .. Total' : i \in 1 .. Total /\ Carried(i)
BY SentBasics DEF Total, Sent, Carried

LEMMA SentGrows ==
    ASSUME Types, NEW c, Proposes(c), log' = log
    PROVE  /\ Total' = Total + 1 /\ \A n : n = Total + 1 => Sent(n)' = c
           /\ \A i \in 1 .. Total : Carried(i)
<1>1. Total' = Total + 1
  BY SentBasics DEF Total, Proposes
<1>3. ASSUME NEW n, n = Total + 1 PROVE Sent(n)' = c
  <2>1. ~(n <= Len(log)) /\ n - Len(log) = Len(pending) + 1
    BY <1>3, SentBasics DEF Total
  <2> QED
    BY <2>1 DEF Sent, Proposes
<1>4. ASSUME NEW i \in 1 .. Total PROVE Carried(i)
  <2>1. CASE i \in DOMAIN log
    BY <2>1, SentBasics DEF Sent, Carried
  <2>2. CASE ~(i \in DOMAIN log)
    <3>1. i - Len(log) \in DOMAIN pending /\ ~(i <= Len(log))
      BY <2>2, SentBasics
    <3>2. pending'[i - Len(log)] = pending[i - Len(log)]
      BY <3>1 DEF Proposes
    <3> QED
      BY <3>1, <3>2 DEF Sent, Carried
  <2> QED
    BY <2>1, <2>2
<1> QED
  BY <1>1, <1>3, <1>4

LEMMA SegmentProposed ==
    ASSUME Types, Checkpoint
    PROVE  /\ Proposes(Command(SegmentHeader(machine.archive_lsn, machine.wal_end), 0))
           /\ machine.archive_lsn < machine.wal_end
           /\ \A i \in DOMAIN pending : ~IsSegment(pending[i])
           /\ UNCHANGED <<log, machine, applied, leader, lock, call, session, answer, faults>>
<1> DEFINE h == SegmentHeader(machine.archive_lsn, machine.wal_end)
<1>1. machine.wal_end \in Nat /\ machine.archive_lsn \in Nat
  BY DEF Types, Machines
<1>2. h \in Headers
  BY <1>1 DEF SegmentHeader, HeaderOf, Headers, AnyRequest, Hashes, TwoBuckets, Kinds
<1>3. pending' = Append(pending, Command(h, 0))
  BY DEF Checkpoint, SegmentHeader
<1> HIDE DEF h
<1>4. Command(h, 0) \in Proposals
  BY <1>2 DEF Command, Proposals
<1>5. Proposes(Command(h, 0))
  BY <1>3, <1>4, AppendProposes
<1> QED
  BY <1>5 DEF Checkpoint, InFlight, IsSegment, h

LEMMA CutProposed ==
    ASSUME Types, Release
    PROVE  /\ Proposes(Command(CutHeader(machine.archive_lsn), 0))
           /\ \E e \in machine.committed : e.header.kind = "Wal" /\ e.header.hi <= machine.archive_lsn
           /\ \A i \in DOMAIN pending : ~IsCut(pending[i])
           /\ UNCHANGED <<log, machine, applied, leader, lock, call, session, answer, faults>>
<1> DEFINE h == CutHeader(machine.archive_lsn)
<1>1. machine.archive_lsn \in Nat
  BY DEF Types, Machines
<1>2. h \in Headers
  BY <1>1 DEF CutHeader, HeaderOf, Headers, AnyRequest, Hashes, TwoBuckets, Kinds, EmptyHash
<1>3. pending' = Append(pending, Command(h, 0))
  BY DEF Release, CutHeader
<1> HIDE DEF h
<1>4. Command(h, 0) \in Proposals
  BY <1>2 DEF Command, Proposals
<1>5. Proposes(Command(h, 0))
  BY <1>3, <1>4, AppendProposes
<1> QED
  BY <1>5 DEF Release, InFlight, IsCut, h

LEMMA SentCommit ==
    ASSUME Types, Commit
    PROVE  Total' = Total /\ \A i \in 1 .. Total : Carried(i)
<1>1. /\ Len(log') = Len(log) + 1 /\ Len(pending') = Len(pending) - 1
      /\ Len(log) \in Nat /\ Len(pending) \in Nat
      /\ DOMAIN log = 1 .. Len(log) /\ DOMAIN pending = 1 .. Len(pending)
      /\ \A i \in DOMAIN log : log'[i] = log[i]
      /\ log'[Len(log) + 1].header = pending[1].header /\ log'[Len(log) + 1].try = pending[1].try
      /\ \A i \in DOMAIN pending' : pending'[i] = pending[i + 1]
      /\ DOMAIN pending' = 1 .. (Len(pending) - 1)
  BY CommitEffect
<1>2. Total' = Total
  BY <1>1 DEF Total
<1>3. ASSUME NEW i \in 1 .. Total PROVE Carried(i)
  <2>1. CASE i <= Len(log)
    BY <1>1, <2>1 DEF Sent, Carried
  <2>2. CASE i = Len(log) + 1
    <3>1. ~(i <= Len(log)) /\ i - Len(log) = 1 /\ i <= Len(log')
      BY <1>1, <2>2
    <3> QED
      BY <1>1, <2>2, <3>1 DEF Sent, Carried
  <2>3. CASE i > Len(log) + 1
    <3>1. /\ ~(i <= Len(log)) /\ ~(i <= Len(log')) /\ i - Len(log') \in DOMAIN pending'
          /\ (i - Len(log')) + 1 = i - Len(log)
      BY <1>1, <2>3 DEF Total
    <3>2. pending'[i - Len(log')] = pending[i - Len(log)]
      BY <1>1, <3>1
    <3> QED
      BY <3>1, <3>2 DEF Sent, Carried
  <2> QED
    BY <1>1, <2>1, <2>2, <2>3
<1> QED
  BY <1>2, <1>3

LEMMA SentElect ==
    ASSUME Types, NEW n \in Nodes, Elect(n)
    PROVE  Total' \in Nat /\ \A i \in 1 .. Total' : i \in 1 .. Total /\ Carried(i)
<1>1. /\ Len(pending') \in Nat /\ DOMAIN pending' = 1 .. Len(pending')
      /\ \A i \in DOMAIN pending' : i \in DOMAIN pending /\ pending'[i] = pending[i]
      /\ log' = log
  BY ElectEffect
<1>2. Total' \in Nat /\ Total' = Len(log) + Len(pending')
  BY <1>1, SentBasics DEF Total
<1>3. ASSUME NEW i \in 1 .. Total' PROVE i \in 1 .. Total /\ Carried(i)
  <2>1. CASE i \in DOMAIN log
    BY <1>1, <2>1, SentBasics DEF Sent, Carried
  <2>2. CASE ~(i \in DOMAIN log)
    <3>1. i - Len(log) \in DOMAIN pending' /\ ~(i <= Len(log))
      BY <1>1, <1>2, <2>2, SentBasics
    <3>2. i - Len(log) \in DOMAIN pending /\ pending'[i - Len(log)] = pending[i - Len(log)]
      BY <1>1, <3>1
    <3>3. i \in 1 .. Total
      BY <1>2, <3>2, SentBasics
    <3> QED
      BY <1>1, <3>1, <3>2, <3>3 DEF Sent, Carried
  <2> QED
    BY <2>1, <2>2
<1> QED
  BY <1>2, <1>3

LEMMA SentStep ==
    ASSUME Types, Sessions, Next
    PROVE  /\ Total' \in Nat
           /\ \A i \in 1 .. Total' : \/ i \in 1 .. Total /\ Carried(i)
                                     \/ i = Total + 1 /\ Adds(Sent(i)')
<1>0. Total \in Nat
  BY SentBasics
<1>1. CASE UNCHANGED <<log, pending>>
  BY <1>1, SentSame
<1>2. CASE Commit
  BY <1>0, <1>2, SentCommit
<1>3. ASSUME NEW n \in Nodes, Elect(n)
      PROVE  Total' \in Nat /\ \A i \in 1 .. Total' : i \in 1 .. Total /\ Carried(i)
  BY <1>3, SentElect
<1>4. ASSUME NEW c, Proposes(c), log' = log, Adds(c)
      PROVE  /\ Total' \in Nat
             /\ \A i \in 1 .. Total' : \/ i \in 1 .. Total /\ Carried(i)
                                       \/ i = Total + 1 /\ Adds(Sent(i)')
  <2>1. Total' = Total + 1 /\ \A i \in 1 .. Total : Carried(i)
    BY <1>4, SentGrows
  <2>2. ASSUME NEW i, i = Total + 1 PROVE Adds(Sent(i)')
    BY <1>4, <2>2, SentGrows
  <2> QED
    BY <1>0, <2>1, <2>2
<1>5. ASSUME NEW w \in Writers, Propose(w)
      PROVE  \E c : Proposes(c) /\ log' = log /\ Adds(c)
  BY <1>5, ProposeProposes, ProposeEffect DEF Adds
<1>6. Checkpoint => \E c : Proposes(c) /\ log' = log /\ Adds(c)
  BY SegmentProposed DEF Adds
<1>7. Release => \E c : Proposes(c) /\ log' = log /\ Adds(c)
  BY CutProposed DEF Adds
<1>8. ASSUME NEW w \in Writers, Start(w) \/ Deliver(w) \/ NotLeader(w) \/ Unreachable(w) \/ GiveUp(w) \/ Reply(w)
      PROVE  UNCHANGED <<log, pending>>
  BY <1>8 DEF Start, Deliver, NotLeader, Unreachable, GiveUp, Reply, Answered
<1>9. ASSUME NEW n \in Nodes, ApplyNext(n) PROVE UNCHANGED <<log, pending>>
  BY <1>9 DEF ApplyNext
<1> QED
  BY <1>1, <1>2, <1>3, <1>4, <1>5, <1>6, <1>7, <1>8, <1>9 DEF Next

LEMMA HeaderForShape ==
    ASSUME Types, Sessions, Leased, NEW w \in Writers, call[w].at = "propose"
    PROVE  /\ ByWriter(HeaderFor(w, call[w].epoch))
           /\ HeaderFor(w, call[w].epoch).request = <<w, session[w].step>>
           /\ HeaderFor(w, call[w].epoch).kind \in {"WriterLease", "Wal", "ReleaseWriter"}
           /\ HeaderFor(w, call[w].epoch).epoch = call[w].epoch
<1> DEFINE k == session[w].step
           h == HeaderFor(w, call[w].epoch)
<1>1. k \in Steps /\ h.epoch = call[w].epoch
  BY HeaderForBuilt
<1>2. CASE k = 0
  <2>1. h = LeaseHeader(w, call[w].epoch)
    BY <1>2 DEF HeaderFor, LeaseHeader
  <2>2. call[w].epoch > 0
    BY <1>2 DEF Leased
  <2> HIDE DEF h
  <2>3. h.request = <<w, k>> /\ h.kind = "WriterLease"
    BY <1>2, <2>1, HeaderFields
  <2> QED
    BY <1>1, <2>1, <2>2, <2>3 DEF ByWriter, h
<1>3. CASE k \in Appends
  <2>0. k # 0 /\ k \in 1 .. MaxAppends
    BY <1>3, StepNumbers DEF Appends
  <2> DEFINE lo == session[w].first + k - 1
  <2>1. h = WalHeader(w, k, call[w].epoch, lo)
    BY <2>0 DEF HeaderFor, WalHeader
  <2> HIDE DEF h, lo
  <2>3. h.request = <<w, k>> /\ h.kind = "Wal" /\ h.lo = lo
    BY <2>1, HeaderFields
  <2> QED
    BY <1>1, <1>3, <2>1, <2>3 DEF ByWriter, h
<1>4. CASE k = MaxAppends + 1
  <2>0. k # 0 /\ k \notin 1 .. MaxAppends
    BY <1>4, StepNumbers
  <2>1. h = EndHeader(w, call[w].epoch)
    BY <1>4, <2>0 DEF HeaderFor, EndHeader
  <2> HIDE DEF h
  <2>3. h.request = <<w, k>> /\ h.kind = "ReleaseWriter"
    BY <1>4, <2>1, HeaderFields
  <2> QED
    BY <1>1, <2>1, <2>3 DEF ByWriter, h
<1> QED
  BY <1>1, <1>2, <1>3, <1>4, StepNumbers

(* A command that a step adds has a key of its own. *)
LEMMA NewCommand ==
    ASSUME Types, Sessions, Leased, Archived, Shaped, Fresh, NEW c, Adds(c)
    PROVE  /\ Shape(c) /\ c.try \in Nat /\ c.try <= faults
           /\ \A i \in 1 .. Total : Key(Sent(i)) # Key(c)
<1>0. faults \in Nat /\ machine.archive_lsn \in Nat /\ machine.wal_end \in Nat
  BY StepNumbers DEF Types, Machines
<1>1. ASSUME NEW w \in Writers, Propose(w), c = Command(HeaderFor(w, call[w].epoch), call[w].try)
      PROVE  /\ Shape(c) /\ c.try \in Nat /\ c.try <= faults
             /\ \A i \in 1 .. Total : Key(Sent(i)) # Key(c)
  <2>1. call[w].at = "propose" /\ call[w].try \in Nat /\ call[w].try <= faults
    BY <1>1, ProposeEffect, CallFields DEF Fresh
  <2>2. c.header = HeaderFor(w, call[w].epoch) /\ c.try = call[w].try
    BY <1>1 DEF Command
  <2>3. ByWriter(c.header) /\ c.header.request = <<w, session[w].step>> /\ c.header.kind # "ReleaseWal"
    BY <2>1, <2>2, HeaderForShape
  <2>4. ASSUME NEW i \in 1 .. Total, Key(Sent(i)) = Key(c)
        PROVE  FALSE
    <3>1. Sent(i).header.request = <<w, session[w].step>>
      BY <2>3, <2>4 DEF Key
    <3>2. Sent(i).header.kind # "ReleaseWal"
      <4>1. Sent(i).header.request[1] # "archive"
        BY <3>1, Names
      <4>2. Shape(Sent(i))
        BY DEF Shaped
      <4>3. Sent(i).header.kind = "ReleaseWal" => Sent(i).header = CutHeader(Sent(i).header.hi)
        BY <4>2, ShapeKinds
      <4>4. Sent(i).header.kind = "ReleaseWal" => Sent(i).header.request = <<"archive", Sent(i).header.hi>>
        BY <4>3, HeaderFields
      <4> QED
        BY <4>1, <4>4
    <3>3. Sent(i).try = call[w].try
      BY <2>2, <2>3, <2>4, <3>2 DEF Key
    <3>4. FreshCall(w, Sent(i))
      BY DEF Fresh
    <3> QED
      BY <2>1, <3>1, <3>3, <3>4 DEF FreshCall
  <2> QED
    BY <2>1, <2>2, <2>3, <2>4 DEF Shape
<1>2. ASSUME NEW i \in 1 .. Total, Sent(i).header.request[1] = "archive"
      PROVE  \/ /\ IsSegment(Sent(i)) /\ Sent(i).header.request = <<"archive", Sent(i).header.hi>>
                /\ Key(Sent(i)) = <<Sent(i).header.request, 0>>
             \/ /\ IsCut(Sent(i)) /\ Sent(i).header.request = <<"archive", Sent(i).header.hi>>
                /\ Key(Sent(i)) = <<Sent(i).header.request, 1>>
  <2>1. Shape(Sent(i))
    BY DEF Shaped
  <2>2. Sent(i).header.kind \in {"ArchiveCheckpoint", "ReleaseWal"}
    BY <1>2, <2>1, ShapeKinds
  <2>3. CASE Sent(i).header.kind = "ArchiveCheckpoint"
    <3>1. Sent(i).header = SegmentHeader(Sent(i).header.lo, Sent(i).header.hi) /\ Sent(i).try = 0
      BY <2>1, <2>3, ShapeKinds
    <3>2. Sent(i).header.request = <<"archive", Sent(i).header.hi>>
      BY <3>1, HeaderFields
    <3> QED
      BY <2>3, <3>1, <3>2 DEF IsSegment, Key
  <2>4. CASE Sent(i).header.kind = "ReleaseWal"
    <3>1. Sent(i).header = CutHeader(Sent(i).header.hi)
      BY <2>1, <2>4, ShapeKinds
    <3>2. Sent(i).header.request = <<"archive", Sent(i).header.hi>>
      BY <3>1, HeaderFields
    <3> QED
      BY <2>4, <3>2 DEF IsCut, Key
  <2> QED
    BY <2>2, <2>3, <2>4
<1>3. ASSUME Checkpoint, c = Command(SegmentHeader(machine.archive_lsn, machine.wal_end), 0)
      PROVE  /\ Shape(c) /\ c.try \in Nat /\ c.try <= faults
             /\ \A i \in 1 .. Total : Key(Sent(i)) # Key(c)
  <2>1. c.header = SegmentHeader(machine.archive_lsn, machine.wal_end) /\ c.try = 0
    BY <1>3 DEF Command
  <2>2. /\ c.header.request = <<"archive", machine.wal_end>> /\ c.header.kind = "ArchiveCheckpoint"
        /\ c.header.lo = machine.archive_lsn /\ c.header.hi = machine.wal_end
    BY <2>1, HeaderFields
  <2>3. machine.archive_lsn < machine.wal_end /\ \A i \in DOMAIN pending : ~IsSegment(pending[i])
    BY <1>3, SegmentProposed
  <2>4. Shape(c)
    BY <2>1, <2>2, <2>3 DEF Shape, ByOthers
  <2>5. ASSUME NEW i \in 1 .. Total, Key(Sent(i)) = Key(c)
        PROVE  FALSE
    <3>1. Sent(i).header.request = <<"archive", machine.wal_end>> /\ Key(Sent(i)) = <<Sent(i).header.request, 0>>
      BY <2>1, <2>2, <2>5 DEF Key
    <3>2. IsSegment(Sent(i)) /\ Sent(i).header.hi = machine.wal_end
      BY <1>2, <3>1
    <3>3. CASE i \in DOMAIN log /\ Sent(i) = log[i]
      BY <1>0, <2>3, <3>2, <3>3 DEF Archived, Cuts
    <3> QED
      BY <2>3, <3>2, <3>3, SentBasics
  <2> QED
    BY <1>0, <2>1, <2>4, <2>5
<1>4. ASSUME Release, c = Command(CutHeader(machine.archive_lsn), 0)
      PROVE  /\ Shape(c) /\ c.try \in Nat /\ c.try <= faults
             /\ \A i \in 1 .. Total : Key(Sent(i)) # Key(c)
  <2>1. c.header = CutHeader(machine.archive_lsn) /\ c.try = 0
    BY <1>4 DEF Command
  <2>2. /\ c.header.request = <<"archive", machine.archive_lsn>> /\ c.header.kind = "ReleaseWal"
        /\ c.header.hi = machine.archive_lsn
    BY <2>1, HeaderFields
  <2>3. PICK e \in machine.committed : e.header.kind = "Wal" /\ e.header.hi <= machine.archive_lsn
    BY <1>4, CutProposed
  <2>4. e.header.hi \in Nat /\ e.header.hi > 0
    BY <2>3 DEF Archived, Watermarks, Types, Machines, Headers
  <2>5. Shape(c)
    BY <1>0, <2>1, <2>2, <2>3, <2>4 DEF Shape, ByOthers
  <2>6. ASSUME NEW i \in 1 .. Total, Key(Sent(i)) = Key(c)
        PROVE  FALSE
    <3>1. Sent(i).header.request = <<"archive", machine.archive_lsn>> /\ Key(Sent(i)) = <<Sent(i).header.request, 1>>
      BY <2>1, <2>2, <2>6 DEF Key
    <3>2. IsCut(Sent(i)) /\ Sent(i).header.hi = machine.archive_lsn
      BY <1>2, <3>1
    <3>3. CASE i \in DOMAIN log /\ Sent(i) = log[i]
      BY <1>0, <2>3, <2>4, <3>2, <3>3 DEF Archived, Cuts
    <3> QED
      BY <1>4, <3>2, <3>3, SentBasics, CutProposed
  <2> QED
    BY <1>0, <2>1, <2>5, <2>6
<1> QED
  BY <1>1, <1>3, <1>4 DEF Adds

LEMMA FaultsGrow ==
    ASSUME Types, Next
    PROVE  faults' \in Nat /\ faults <= faults'
<1>1. faults \in Nat
  BY StepNumbers DEF Types
<1>2. faults' = faults \/ faults' = faults + 1
  BY DEF Next, Start, Deliver, Propose, NotLeader, Unreachable, GiveUp, Reply, Answered, Commit, ApplyNext,
         Elect, Checkpoint, Release
<1> QED
  BY <1>1, <1>2

LEMMA ShapedStep ==
    ASSUME Types, Sessions, Leased, Archived, Shaped, Fresh, Next
    PROVE  Shaped'
<1>1. faults' \in Nat /\ faults \in Nat /\ faults <= faults'
  BY FaultsGrow, StepNumbers DEF Types
<1>2. ASSUME NEW i \in 1 .. Total' PROVE (Shape(Sent(i)) /\ Sent(i).try \in Nat /\ Sent(i).try <= faults)'
  <2>1. CASE i \in 1 .. Total /\ Carried(i)
    <3>1. Shape(Sent(i)) /\ Sent(i).try \in Nat /\ Sent(i).try <= faults
      BY <2>1 DEF Shaped
    <3>2. Shape(Sent(i)')
      BY <2>1, <3>1 DEF Carried, Shape
    <3>3. Sent(i)'.try \in Nat /\ Sent(i)'.try <= faults'
      BY <1>1, <2>1, <3>1 DEF Carried
    <3> QED
      BY <3>2, <3>3 DEF Shape, ByWriter, ByOthers
  <2>2. CASE Adds(Sent(i)')
    <3>1. Shape(Sent(i)') /\ Sent(i)'.try \in Nat /\ Sent(i)'.try <= faults
      BY <2>2, NewCommand
    <3> QED
      BY <1>1, <3>1 DEF Shape, ByWriter, ByOthers
  <2> QED
    BY <2>1, <2>2, SentStep
<1> QED
  BY <1>2 DEF Shaped

LEMMA DistinctStep ==
    ASSUME Types, Sessions, Leased, Archived, Shaped, Distinct, Fresh, Next
    PROVE  Distinct'
<1>1. ASSUME NEW i \in 1 .. Total', NEW j \in 1 .. Total', (Key(Sent(i)) = Key(Sent(j)))'
      PROVE  i = j
  <2>1. /\ (i \in 1 .. Total /\ Carried(i)) \/ (i = Total + 1 /\ Adds(Sent(i)'))
        /\ (j \in 1 .. Total /\ Carried(j)) \/ (j = Total + 1 /\ Adds(Sent(j)'))
    BY SentStep
  <2>2. Key(Sent(i)') = Key(Sent(j)')
    BY <1>1 DEF Key
  <2>3. /\ Carried(i) => Key(Sent(i)') = Key(Sent(i))
        /\ Carried(j) => Key(Sent(j)') = Key(Sent(j))
    BY DEF Carried, Key
  <2>4. CASE (i \in 1 .. Total /\ Carried(i)) /\ (j \in 1 .. Total /\ Carried(j))
    BY <2>2, <2>3, <2>4 DEF Distinct
  <2>5. CASE (i \in 1 .. Total /\ Carried(i)) /\ Adds(Sent(j)')
    BY <2>2, <2>3, <2>5, NewCommand
  <2>6. CASE (j \in 1 .. Total /\ Carried(j)) /\ Adds(Sent(i)')
    BY <2>2, <2>3, <2>6, NewCommand
  <2> QED
    BY <2>1, <2>4, <2>5, <2>6
<1> QED
  BY <1>1 DEF Distinct

(* A request on its way belongs to a step that its writer has reached. *)
LEMMA RequestReached ==
    ASSUME Types, Headed, Shaped, NEW i \in 1 .. Total, NEW w \in Writers, NEW k,
           Sent(i).header.request = <<w, k>>
    PROVE  k \in Steps /\ k <= session[w].step
<1>1. Shape(Sent(i)) /\ Sent(i).header \in Headers
  BY SentBasics DEF Shaped
<1>2. Sent(i).header.request[1] = w
  OBVIOUS
<1>3. PICK v \in Writers, j \in Steps : Sent(i).header.request = <<v, j>>
  BY <1>1, <1>2, ShapeKinds, Names
<1>4. v = w /\ j = k
  BY <1>3
<1>5. Built(session, answer, Sent(i).header)
  BY SentBasics DEF Headed
<1>6. BuiltBy(session, answer, w, k, Sent(i).header)
  BY <1>1, <1>3, <1>4, <1>5, BuiltRequest
<1> QED
  BY <1>3, <1>4, <1>6 DEF BuiltBy

LEMMA Counters ==
    ASSUME Types
    PROVE  faults \in Nat /\ \A v \in Writers : call[v].try \in Nat
<1>1. faults \in Nat
  <2>1. faults \in 0 .. MaxFaults
    BY DEF Types
  <2> QED
    BY <2>1
<1>2. \A v \in Writers : call[v].try \in Nat
  BY CallFields
<1> QED
  BY <1>1, <1>2

LEMMA FreshTurn ==
    ASSUME Types, Fresh, NEW w \in Writers, NEW c, Turns(w, c), UNCHANGED <<log, pending, session>>,
           faults <= faults', faults' \in Nat, c.try <= faults',
           \A i \in 1 .. Total : Sent(i).header.request = <<w, session[w].step>> =>
              /\ c.at # "idle" /\ Sent(i).try <= c.try
              /\ c.at # "wait" => Sent(i).try < c.try
    PROVE  Fresh'
<1>1. faults \in Nat /\ \A v \in Writers : call[v].try \in Nat
  BY Counters
<1>2. ASSUME NEW v \in Writers PROVE call'[v].try <= faults'
  <2>1. CASE v = w
    BY <2>1 DEF Turns
  <2>2. CASE v # w
    BY <1>1, <2>2 DEF Turns, Fresh
  <2> QED
    BY <2>1, <2>2
<1>3. ASSUME NEW v \in Writers, NEW i \in 1 .. Total' PROVE FreshCall(v, Sent(i))'
  <2>1. i \in 1 .. Total /\ Sent(i)' = Sent(i) /\ session' = session
    BY DEF Total, Sent
  <2>2. CASE v = w
    BY <2>1, <2>2 DEF Turns, FreshCall
  <2>3. CASE v # w
    <3>1. FreshCall(v, Sent(i)) /\ call'[v] = call[v]
      BY <2>1, <2>3 DEF Fresh, Turns
    <3> QED
      BY <2>1, <3>1 DEF FreshCall
  <2> QED
    BY <2>2, <2>3
<1> QED
  BY <1>2, <1>3 DEF Fresh

LEMMA FreshConcluded ==
    ASSUME Types, Headed, Shaped, Fresh, NEW w \in Writers, NEW what, NEW e, NEW f,
           Concluded(w, what, e, f), faults <= faults', faults' \in Nat
    PROVE  Fresh'
<1>0. faults \in Nat /\ \A v \in Writers : call[v].try \in Nat
  BY Counters
<1>1. /\ UNCHANGED <<log, pending>> /\ call'[w] = NoCall /\ \A v \in Writers \ {w} : call'[v] = call[v]
      /\ session[w].step \in Steps
  BY DEF Concluded, Turns
<1>2. /\ session'[w].step = session[w].step + 1 \/ session'[w].step = Over
      /\ \A v \in Writers \ {w} : session'[v] = session[v]
  <2>1. session \in [Writers -> [step : 0 .. Over, epoch : Nat, first : Nat]]
    BY DEF Types
  <2> QED
    BY <2>1 DEF Concluded
<1>3. ASSUME NEW v \in Writers PROVE call'[v].try <= faults'
  <2>1. CASE v = w
    BY <1>1, <2>1 DEF NoCall
  <2>2. CASE v # w
    BY <1>0, <1>1, <2>2 DEF Fresh
  <2> QED
    BY <2>1, <2>2
<1>4. ASSUME NEW v \in Writers, NEW i \in 1 .. Total' PROVE FreshCall(v, Sent(i))'
  <2>1. i \in 1 .. Total /\ Sent(i)' = Sent(i)
    BY <1>1 DEF Total, Sent
  <2>2. CASE v = w
    <3>1. Sent(i).header.request # <<w, session'[w].step>>
      <4> SUFFICES ASSUME Sent(i).header.request = <<w, session'[w].step>> PROVE FALSE
        OBVIOUS
      <4>1. session'[w].step \in Steps /\ session'[w].step <= session[w].step
        BY <2>1, RequestReached
      <4>2. session[w].step \in Nat /\ Over \notin Steps
        BY <1>1, StepNumbers DEF Steps, Over
      <4> QED
        BY <1>2, <4>1, <4>2
    <3> QED
      BY <2>1, <2>2, <3>1 DEF FreshCall
  <2>3. CASE v # w
    <3>1. FreshCall(v, Sent(i)) /\ call'[v] = call[v] /\ session'[v] = session[v]
      BY <1>1, <1>2, <2>1, <2>3 DEF Fresh
    <3> QED
      BY <2>1, <3>1 DEF FreshCall
  <2> QED
    BY <2>2, <2>3
<1> QED
  BY <1>3, <1>4 DEF Fresh

LEMMA FreshPropose ==
    ASSUME Types, Sessions, Leased, Fresh, NEW w \in Writers, Propose(w)
    PROVE  Fresh'
<1> DEFINE c == Command(HeaderFor(w, call[w].epoch), call[w].try)
<1>1. /\ call[w].at = "propose" /\ UNCHANGED <<log, session, faults>>
      /\ Turns(w, [at |-> "wait", target |-> call[w].target, try |-> call[w].try, epoch |-> call[w].epoch])
      /\ Proposes(c)
  BY ProposeEffect, ProposeProposes
<1>2. call'[w].at = "wait" /\ call'[w].try = call[w].try /\ \A v \in Writers \ {w} : call'[v] = call[v]
  BY <1>1 DEF Turns
<1>3. c.header.request = <<w, session[w].step>> /\ c.try = call[w].try /\ call[w].try \in Nat
  BY <1>1, HeaderForShape, CallFields DEF Command
<1> HIDE DEF c
<1>4. Total' = Total + 1 /\ Total \in Nat
  BY <1>1, SentGrows, SentBasics
<1>5. ASSUME NEW v \in Writers, NEW i \in 1 .. Total' PROVE FreshCall(v, Sent(i))'
  <2>1. CASE i \in 1 .. Total
    <3>1. Carried(i) /\ FreshCall(v, Sent(i))
      BY <1>1, <2>1, SentGrows DEF Fresh
    <3>2. CASE v = w
      <4>1. Sent(i)'.header.request = <<w, session[w].step>> => Sent(i)'.try <= call[w].try
        BY <3>1, <3>2 DEF Carried, FreshCall
      <4> QED
        BY <1>1, <1>2, <3>2, <4>1 DEF FreshCall
    <3>3. CASE v # w
      BY <1>1, <1>2, <3>1, <3>3 DEF FreshCall, Carried
    <3> QED
      BY <3>2, <3>3
  <2>2. CASE i = Total + 1
    <3>1. Sent(i)' = c
      BY <1>1, <2>2, SentGrows
    <3>2. CASE v = w
      BY <1>1, <1>2, <1>3, <3>1, <3>2 DEF FreshCall
    <3>3. CASE v # w
      <4>1. c.header.request # <<v, session[v].step>>
        BY <1>3, <3>3
      <4> QED
        BY <1>1, <3>1, <4>1 DEF FreshCall
    <3> QED
      BY <3>2, <3>3
  <2> QED
    BY <1>4, <2>1, <2>2
<1>6. ASSUME NEW v \in Writers PROVE call'[v].try <= faults'
  <2>1. call'[v].try = call[v].try
    BY <1>2
  <2> QED
    BY <1>1, <2>1 DEF Fresh
<1> QED
  BY <1>5, <1>6 DEF Fresh

(* No call moves, and nothing of a writer is added. *)
LEMMA FreshStill ==
    ASSUME Types, Fresh, UNCHANGED <<call, session>>, faults <= faults', faults' \in Nat,
           \A i \in 1 .. Total' : \/ i \in 1 .. Total /\ Carried(i)
                                  \/ Sent(i)'.header.request[1] = "archive"
    PROVE  Fresh'
<1>1. faults \in Nat /\ \A v \in Writers : call[v].try \in Nat
  BY Counters
<1>2. ASSUME NEW v \in Writers, NEW i \in 1 .. Total' PROVE FreshCall(v, Sent(i))'
  <2>1. CASE i \in 1 .. Total /\ Carried(i)
    <3>1. FreshCall(v, Sent(i))
      BY <2>1 DEF Fresh
    <3> QED
      BY <2>1, <3>1 DEF FreshCall, Carried
  <2>2. CASE Sent(i)'.header.request[1] = "archive"
    <3>1. Sent(i)'.header.request # <<v, session'[v].step>>
      BY <2>2, Names
    <3> QED
      BY <3>1 DEF FreshCall
  <2> QED
    BY <2>1, <2>2
<1> QED
  BY <1>1, <1>2 DEF Fresh

LEMMA FreshStep ==
    ASSUME Types, Sessions, Headed, Logged, Leased, Archived, Shaped, Fresh, Next
    PROVE  Fresh'
<1>0. faults' \in Nat /\ faults \in Nat /\ faults <= faults'
  BY FaultsGrow, StepNumbers DEF Types
<1>a. \A i \in 1 .. Total, w \in Writers : FreshCall(w, Sent(i)) /\ Sent(i).try \in Nat
  BY DEF Fresh, Shaped
<1>b. \A w \in Writers : call[w].try <= faults /\ call[w].try \in Nat
  BY CallFields DEF Fresh
<1>1. ASSUME NEW w \in Writers, Start(w) PROVE Fresh'
  <2>1. PICK n \in Nodes : Turns(w, [at |-> "send", target |-> n, try |-> 0, epoch |-> 0])
    BY <1>1, StartEffect
  <2>2. call[w].at = "idle" /\ UNCHANGED <<log, pending, session>>
    BY <1>1, StartEffect
  <2> QED
    BY <1>0, <1>a, <2>1, <2>2, FreshTurn DEF FreshCall
<1>2. ASSUME NEW w \in Writers, Deliver(w) PROVE Fresh'
  <2>1. PICK n, e : Turns(w, [at |-> "propose", target |-> n, try |-> call[w].try, epoch |-> e])
    BY <1>2, DeliverEffect
  <2>2. call[w].at = "send" /\ UNCHANGED <<log, pending, session, faults>>
    BY <1>2, DeliverEffect
  <2> QED
    BY <1>0, <1>a, <1>b, <2>1, <2>2, FreshTurn DEF FreshCall
<1>3. ASSUME NEW w \in Writers, NotLeader(w) PROVE Fresh'
  <2>1. PICK n, e : Turns(w, [at |-> "send", target |-> n, try |-> call[w].try, epoch |-> e])
    BY <1>3, NotLeaderEffect
  <2>2. UNCHANGED <<log, pending, session, faults>>
    BY <1>3, NotLeaderEffect
  <2>3. ASSUME NEW i \in 1 .. Total, Sent(i).header.request = <<w, session[w].step>>
        PROVE  Sent(i).try < call[w].try
    <3>1. CASE call[w].at = "propose"
      BY <1>a, <2>3, <3>1 DEF FreshCall
    <3>2. CASE /\ call[w].at = "wait"
               /\ \A j \in DOMAIN log : ~Mine(w, log[j])
               /\ \A j \in DOMAIN pending : ~Mine(w, pending[j])
      <4>1. ~Mine(w, Sent(i))
        BY <3>2, SentBasics
      <4>2. Sent(i).try <= call[w].try /\ Sent(i).try # call[w].try
        BY <1>a, <2>3, <4>1 DEF FreshCall, Mine
      <4> QED
        BY <1>a, <1>b, <4>2
    <3> QED
      BY <1>3, <3>1, <3>2, NotLeaderEffect
  <2>4. \A i \in 1 .. Total : Sent(i).header.request = <<w, session[w].step>> =>
           Sent(i).try <= call[w].try /\ Sent(i).try < call[w].try
    BY <1>a, <1>b, <2>3
  <2> QED
    BY <1>0, <1>b, <2>1, <2>2, <2>4, FreshTurn
<1>4. ASSUME NEW w \in Writers, Unreachable(w) PROVE Fresh'
  <2>1. PICK n, e : Turns(w, [at |-> "send", target |-> n, try |-> call[w].try + 1, epoch |-> e])
    BY <1>4, UnreachableEffect
  <2>2. UNCHANGED <<log, pending, session>> /\ faults' = faults + 1
    BY <1>4, UnreachableEffect
  <2>3. call[w].try + 1 <= faults'
    BY <1>0, <1>b, <2>2
  <2>4. ASSUME NEW i \in 1 .. Total, Sent(i).header.request = <<w, session[w].step>>
        PROVE  Sent(i).try < call[w].try + 1 /\ Sent(i).try <= call[w].try + 1
    BY <1>a, <1>b, <2>4 DEF FreshCall
  <2> QED
    BY <1>0, <2>1, <2>2, <2>3, <2>4, FreshTurn
<1>5. ASSUME NEW w \in Writers, GiveUp(w) \/ Reply(w) PROVE Fresh'
  <2>1. PICK what, e, f : Concluded(w, what, e, f)
    BY <1>5, GiveUpEffect, ReplyEffect
  <2> QED
    BY <1>0, <2>1, FreshConcluded
<1>6. ASSUME NEW w \in Writers, Propose(w) PROVE Fresh'
  BY <1>6, FreshPropose
<1>7. CASE Commit
  <2>1. UNCHANGED <<call, session>>
    BY <1>7, CommitEffect
  <2> QED
    BY <1>0, <1>7, <2>1, SentCommit, FreshStill
<1>8. ASSUME NEW n \in Nodes, ApplyNext(n) PROVE Fresh'
  <2>1. UNCHANGED <<call, session, log, pending>>
    BY <1>8 DEF ApplyNext
  <2> QED
    BY <1>0, <2>1, SentSame, FreshStill
<1>9. ASSUME NEW n \in Nodes, Elect(n) PROVE Fresh'
  <2>1. UNCHANGED <<call, session>>
    BY <1>9, ElectEffect
  <2> QED
    BY <1>0, <1>9, <2>1, SentElect, FreshStill
<1>10. ASSUME NEW c, Proposes(c), c.header.request[1] = "archive", UNCHANGED <<log, call, session>>
       PROVE  Fresh'
  <2>1. Total' = Total + 1 /\ Total \in Nat /\ \A i \in 1 .. Total : Carried(i)
    BY <1>10, SentGrows, SentBasics
  <2>2. ASSUME NEW i \in 1 .. Total'
        PROVE  (i \in 1 .. Total /\ Carried(i)) \/ Sent(i)'.header.request[1] = "archive"
    <3>1. i \in 1 .. Total \/ i = Total + 1
      BY <2>1
    <3> QED
      BY <1>10, <2>1, <3>1, SentGrows
  <2> QED
    BY <1>0, <1>10, <2>2, FreshStill
<1>11. CASE Checkpoint
  <2> DEFINE c == Command(SegmentHeader(machine.archive_lsn, machine.wal_end), 0)
  <2>1. c.header.request[1] = "archive"
    BY HeaderFields DEF Command
  <2> HIDE DEF c
  <2> QED
    BY <1>10, <1>11, <2>1, SegmentProposed DEF c
<1>12. CASE Release
  <2> DEFINE c == Command(CutHeader(machine.archive_lsn), 0)
  <2>1. c.header.request[1] = "archive"
    BY HeaderFields DEF Command
  <2> HIDE DEF c
  <2> QED
    BY <1>10, <1>12, <2>1, CutProposed DEF c
<1> QED
  BY <1>1, <1>2, <1>3, <1>4, <1>5, <1>6, <1>7, <1>8, <1>9, <1>11, <1>12 DEF Next

-----------------------------------------------------------------------------
(* Epochs and LSNs. *)

LEMMA MachineNumbers ==
    ASSUME Types
    PROVE  machine.writer_epoch \in Nat /\ machine.wal_end \in Nat /\ machine.archive_lsn \in Nat
BY DEF Types, Machines

LEMMA EpochNeverFalls ==
    ASSUME Types, Headed, Next
    PROVE  /\ machine.writer_epoch \in Nat /\ machine'.writer_epoch \in Nat
           /\ machine.writer_epoch <= machine'.writer_epoch
<1>1. machine \in Machines /\ machine' \in Machines
  BY LogStep DEF Types
<1>2. CASE Commit
  BY <1>1, <1>2, CommitGrows DEF Grows, Machines
<1> QED
  BY <1>1, <1>2, FrameStep DEF Machines

LEMMA SessionEpoch ==
    ASSUME Types, Sessions, Granted, Truthful, NEW w \in Writers, session[w].step # Over, session[w].step > 0
    PROVE  /\ Told(w, 0, Replied) /\ Has(machine, w, 0)
           /\ session[w].epoch = Ident(machine, w, 0).epoch /\ session[w].epoch <= machine.writer_epoch
           /\ session[w].first = Ident(machine, w, 0).wal_end
<1>1. Told(w, 0, Replied)
  BY StepNumbers DEF Sessions
<1>2. Has(machine, w, 0)
  BY <1>1, StepNumbers DEF Truthful
<1> QED
  BY <1>1, <1>2 DEF Truthful, Granted, LeaseAt

(* The epoch a replica reads is one the machine has had. *)
LEMMA EpochSeen ==
    ASSUME Types, Leased, NEW n \in Nodes
    PROVE  EpochOn(n) \in Nat /\ EpochOn(n) <= machine.writer_epoch
<1>1. applied[n] \in Nat /\ applied[n] <= Len(log) /\ DOMAIN log = 1 .. Len(log) /\ Len(log) \in Nat
  BY LogLength DEF Types
<1>2. applied[n] = 0 \/ applied[n] \in DOMAIN log
  BY <1>1
<1> QED
  BY <1>2, EpochOnType, MachineNumbers DEF EpochOn, Leased

(* How a call changes: its epoch is old, zero or read now. *)
LEMMA CallStep ==
    ASSUME Types, Sessions, Logged, Granted, Truthful, Leased, Next, NEW v \in Writers
    PROVE  /\ call'[v].epoch \in Nat /\ call'[v].epoch <= machine.writer_epoch + 1
           /\ call'[v].at = "propose" /\ session'[v].step = 0 => call'[v].epoch > 0
<1>0. /\ call[v].epoch \in Nat /\ call[v].epoch <= machine.writer_epoch + 1 /\ machine.writer_epoch \in Nat
      /\ call[v].at = "propose" /\ session[v].step = 0 => call[v].epoch > 0
  BY CallFields, MachineNumbers DEF Leased
<1>1. CASE call'[v] = call[v] /\ session'[v] = session[v]
  BY <1>0, <1>1
<1>2. CASE Start(v)
  <2>1. PICK n \in Nodes : Turns(v, [at |-> "send", target |-> n, try |-> 0, epoch |-> 0])
    BY <1>2, StartEffect
  <2> QED
    BY <1>0, <2>1 DEF Turns
<1>3. CASE Deliver(v)
  <2> DEFINE e == IF session[v].step = 0 THEN EpochOn(call[v].target) + 1 ELSE session[v].epoch
  <2>0. /\ Turns(v, [at |-> "propose", target |-> call[v].target, try |-> call[v].try, epoch |-> e])
        /\ session' = session /\ call[v].target \in Nodes /\ session[v].step # Over
    BY <1>3, DeliverEffect
  <2> HIDE DEF e
  <2>1. /\ call'[v].epoch = e /\ session' = session
        /\ call[v].target \in Nodes /\ session[v].step # Over
    BY <2>0 DEF Turns
  <2>2. session[v].step \in Nat /\ session[v].epoch \in Nat
    BY CallFields, StepNumbers
  <2>3. CASE session[v].step = 0
    <3>1. e = EpochOn(call[v].target) + 1
      BY <2>3 DEF e
    <3> QED
      BY <1>0, <2>1, <3>1, EpochSeen
  <2>4. CASE session[v].step # 0
    <3>1. e = session[v].epoch /\ session[v].epoch <= machine.writer_epoch
      BY <2>1, <2>2, <2>4, SessionEpoch DEF e
    <3> QED
      BY <1>0, <2>1, <2>2, <2>4, <3>1
  <2> QED
    BY <2>3, <2>4
<1>4. CASE Propose(v)
  <2>1. Turns(v, [at |-> "wait", target |-> call[v].target, try |-> call[v].try, epoch |-> call[v].epoch])
    BY <1>4, ProposeEffect
  <2>2. call'[v].at = "wait" /\ call'[v].epoch = call[v].epoch
    BY <2>1 DEF Turns
  <2> QED
    BY <1>0, <2>2
<1>5. CASE NotLeader(v)
  <2>1. PICK n \in Nodes : Turns(v, [at |-> "send", target |-> n, try |-> call[v].try, epoch |-> call[v].epoch])
    BY <1>5, NotLeaderEffect
  <2> QED
    BY <1>0, <2>1 DEF Turns
<1>6. CASE Unreachable(v)
  <2>1. PICK n \in Nodes : Turns(v, [at |-> "send", target |-> n, try |-> call[v].try + 1, epoch |-> call[v].epoch])
    BY <1>6, UnreachableEffect
  <2> QED
    BY <1>0, <2>1 DEF Turns
<1>7. CASE GiveUp(v) \/ Reply(v)
  <2>1. call'[v] = NoCall
    BY <1>7, GiveUpEffect, ReplyEffect DEF Concluded, Turns
  <2> QED
    BY <1>0, <2>1 DEF NoCall
<1>8. ASSUME NEW w \in Writers, w # v, Start(w) \/ Deliver(w) \/ Propose(w) \/ NotLeader(w) \/ Unreachable(w)
      PROVE  call'[v] = call[v] /\ session'[v] = session[v]
  <2>1. session' = session
    BY <1>8 DEF Start, Deliver, Propose, NotLeader, Unreachable
  <2>2. \E c : Turns(w, c)
    BY <1>8, StartEffect, DeliverEffect, ProposeEffect, NotLeaderEffect, UnreachableEffect
  <2> QED
    BY <1>8, <2>1, <2>2 DEF Turns
<1>9. ASSUME NEW w \in Writers, w # v, GiveUp(w) \/ Reply(w)
      PROVE  call'[v] = call[v] /\ session'[v] = session[v]
  <2>1. PICK what, e, f : Concluded(w, what, e, f) /\ Grounds(w, what, e, f)
    BY <1>9, GiveUpEffect, ReplyEffect
  <2>2. Settles(w, what, e, f)
    BY <2>1, ConcludedState
  <2> QED
    BY <1>9, <2>1, <2>2 DEF Settles, Concluded, Turns
<1>10. CASE Commit
  BY <1>1, <1>10, CommitEffect
<1>11. ASSUME NEW n \in Nodes, ApplyNext(n) \/ Elect(n)
       PROVE  call'[v] = call[v] /\ session'[v] = session[v]
  BY <1>11 DEF ApplyNext, Elect
<1>12. CASE Checkpoint \/ Release
  BY <1>1, <1>12 DEF Checkpoint, Release
<1> QED
  BY <1>1, <1>2, <1>3, <1>4, <1>5, <1>6, <1>7, <1>8, <1>9, <1>10, <1>11, <1>12 DEF Next

LEMMA LeasedStep ==
    ASSUME Types, Sessions, Headed, Logged, Granted, Truthful, Leased, Next
    PROVE  Leased'
<1>0. /\ machine.writer_epoch \in Nat /\ machine'.writer_epoch \in Nat
      /\ machine.writer_epoch <= machine'.writer_epoch
  BY EpochNeverFalls
<1>1. ASSUME NEW i \in DOMAIN log' PROVE log'[i].epoch <= machine'.writer_epoch
  <2>1. CASE i \in DOMAIN log /\ log'[i] = log[i]
    <3>1. log[i].epoch \in Nat /\ log[i].epoch <= machine.writer_epoch
      BY <2>1 DEF Types, Leased
    <3> QED
      BY <1>0, <2>1, <3>1
  <2>2. CASE Commit /\ i = Len(log) + 1
    BY <1>0, <2>2, CommitEffect
  <2> QED
    BY <2>1, <2>2, LogStep
<1>2. ASSUME NEW w \in Writers
      PROVE  /\ call'[w].epoch <= machine'.writer_epoch + 1
             /\ call'[w].at = "propose" /\ session'[w].step = 0 => call'[w].epoch > 0
  BY <1>0, CallStep
<1>3. ASSUME NEW i \in 1 .. Total' PROVE Sent(i)'.header.epoch <= machine'.writer_epoch + 1
  <2>1. CASE i \in 1 .. Total /\ Carried(i)
    <3>1. Sent(i).header.epoch \in Nat /\ Sent(i).header.epoch <= machine.writer_epoch + 1
      BY <2>1, SentBasics DEF Leased, Headers
    <3> QED
      BY <1>0, <2>1, <3>1 DEF Carried
  <2>2. CASE Adds(Sent(i)')
    <3>1. ASSUME NEW w \in Writers, Propose(w),
                 Sent(i)' = Command(HeaderFor(w, call[w].epoch), call[w].try)
          PROVE  Sent(i)'.header.epoch <= machine.writer_epoch + 1 /\ Sent(i)'.header.epoch \in Nat
      <4>0. Sent(i)'.header = HeaderFor(w, call[w].epoch)
        BY <3>1 DEF Command
      <4>1. Sent(i)'.header.epoch = call[w].epoch
        BY <3>1, <4>0, ProposeEffect, HeaderForBuilt
      <4> QED
        BY <4>1, CallFields DEF Leased
    <3>2. ASSUME Sent(i)' = Command(SegmentHeader(machine.archive_lsn, machine.wal_end), 0)
          PROVE  Sent(i)'.header.epoch = 0
      BY <3>2, HeaderFields DEF Command
    <3>3. ASSUME Sent(i)' = Command(CutHeader(machine.archive_lsn), 0)
          PROVE  Sent(i)'.header.epoch = 0
      BY <3>3, HeaderFields DEF Command
    <3>4. Sent(i)'.header.epoch <= machine.writer_epoch + 1 /\ Sent(i)'.header.epoch \in Nat
      BY <1>0, <2>2, <3>1, <3>2, <3>3 DEF Adds
    <3> QED
      BY <1>0, <3>4
  <2> QED
    BY <2>1, <2>2, SentStep
<1>4. ASSUME NEW e \in 1 .. machine'.writer_epoch
      PROVE  \E w \in Writers : Has(machine', w, 0) /\ Ident(machine', w, 0).epoch = e
  <2>1. CASE e \in 1 .. machine.writer_epoch
    <3>1. PICK w \in Writers : Has(machine, w, 0) /\ Ident(machine, w, 0).epoch = e
      BY <2>1 DEF Leased
    <3>2. Has(machine', w, 0) /\ Ident(machine', w, 0).epoch = e
      BY <3>1, FrameStep, HasStable, StepNumbers
    <3> QED
      BY <3>2
  <2>2. CASE e \notin 1 .. machine.writer_epoch
    <3> DEFINE h == pending[1].header
    <3>1. Commit
      BY <2>2, FrameStep
    <3>2. Taken(machine, h) /\ Takes(machine, h, Len(log) + 1, machine') /\ h.kind = "WriterLease"
      BY <2>2, <3>1, CommitMachine DEF Takes, Leaves
    <3>3. machine \in Machines /\ h \in Headers /\ Built(session, answer, h)
      BY <3>1, CommitEffect, CommitGrows DEF Types
    <3>4. machine'.writer_epoch = h.epoch /\ h.epoch = machine.writer_epoch + 1
      BY <3>2, <3>3, OutcomeCases, EpochValidCases DEF Taken, Takes
    <3>5. e = h.epoch
      BY <1>0, <2>2, <3>4
    <3>6. PICK w \in Writers : h.request = <<w, 0>>
      BY <3>2, <3>3, BuiltKinds
    <3>7. Ident(machine', w, 0) = [index |-> Len(log) + 1, kind |-> h.kind, hash |-> h.hash,
                                   epoch |-> h.epoch, wal_end |-> ReplyEnd(machine, h)]
      BY <3>1, <3>2, <3>6, CommitRetries, RequestNames, StepNumbers DEF Ident
    <3>8. Has(machine', w, 0) /\ Ident(machine', w, 0).epoch = e
      BY <3>5, <3>7, LogLength DEF Has
    <3> QED
      BY <3>8
  <2> QED
    BY <2>1, <2>2
<1> QED
  BY <1>1, <1>2, <1>3, <1>4 DEF Leased

LEMMA FilledStep ==
    ASSUME Types, Headed, Filled, Next
    PROVE  Filled'
<1>0. machine \in Machines /\ machine' \in Machines /\ machine.wal_end \in Nat /\ machine'.wal_end \in Nat
  BY LogStep DEF Types, Machines
<1>1. ASSUME NEW x \in 1 .. machine'.wal_end
      PROVE  \E w \in Writers, k \in Appends : Has(machine', w, k) /\ Ident(machine', w, k).wal_end = x
  <2>1. CASE x \in 1 .. machine.wal_end
    <3>1. PICK w \in Writers, k \in Appends : Has(machine, w, k) /\ Ident(machine, w, k).wal_end = x
      BY <2>1 DEF Filled
    <3>2. Has(machine', w, k) /\ Ident(machine', w, k).wal_end = x
      BY <3>1, FrameStep, HasStable, StepNumbers
    <3> QED
      BY <3>2
  <2>2. CASE x \notin 1 .. machine.wal_end
    <3> DEFINE h == pending[1].header
    <3>1. Commit
      BY <2>2, FrameStep
    <3>2. Taken(machine, h) /\ Takes(machine, h, Len(log) + 1, machine') /\ h.kind = "Wal"
      BY <2>2, <3>1, CommitMachine DEF Takes, Leaves
    <3>3. h \in Headers /\ Built(session, answer, h)
      BY <3>1, CommitEffect, CommitGrows
    <3>4. machine'.wal_end = h.hi /\ h.lo = machine.wal_end /\ h.hi = h.lo + 1
      BY <1>0, <3>2, <3>3, OutcomeCases, BuiltKinds DEF Taken, Takes
    <3>5. x = h.hi
      BY <1>0, <2>2, <3>4
    <3>6. PICK w \in Writers, k \in Steps : h.request = <<w, k>>
      BY <3>2, <3>3, BuiltKinds
    <3>7. k \in Appends
      BY <3>2, <3>3, <3>6, BuiltRequest, StepNumbers DEF BuiltBy
    <3>8. Ident(machine', w, k) = [index |-> Len(log) + 1, kind |-> h.kind, hash |-> h.hash,
                                   epoch |-> h.epoch, wal_end |-> ReplyEnd(machine, h)]
      BY <3>1, <3>2, <3>6, CommitRetries, RequestNames DEF Ident
    <3>9. ReplyEnd(machine, h) = h.hi
      BY <1>0, <3>2, <3>3, ReplyEndType
    <3>10. Has(machine', w, k) /\ Ident(machine', w, k).wal_end = x
      BY <3>5, <3>8, <3>9, LogLength DEF Has
    <3> QED
      BY <3>7, <3>10
  <2> QED
    BY <2>1, <2>2
<1> QED
  BY <1>1 DEF Filled

-----------------------------------------------------------------------------
(* Counting. *)

LEMMA IntervalCount ==
    ASSUME NEW n \in Nat
    PROVE  /\ IsFiniteSet(1 .. n) /\ Cardinality(1 .. n) = n
           /\ IsFiniteSet(0 .. n) /\ Cardinality(0 .. n) = n + 1
<1>1. 0 \in Int /\ 1 \in Int /\ n \in Int
  OBVIOUS
<1>2. IsFiniteSet(1 .. n) /\ Cardinality(1 .. n) = IF 1 > n THEN 0 ELSE n - 1 + 1
  BY <1>1, FS_Interval, Zenon
<1>3. IsFiniteSet(0 .. n) /\ Cardinality(0 .. n) = IF 0 > n THEN 0 ELSE n - 0 + 1
  BY <1>1, FS_Interval, Zenon
<1>4. /\ (IF 1 > n THEN 0 ELSE n - 1 + 1) = n
      /\ (IF 0 > n THEN 0 ELSE n - 0 + 1) = n + 1
  OBVIOUS
<1> QED
  BY <1>2, <1>3, <1>4

LEMMA CountInjection ==
    ASSUME NEW n \in Nat, NEW T, IsFiniteSet(T), NEW f \in [1 .. n -> T],
           \A a, b \in 1 .. n : f[a] = f[b] => a = b
    PROVE  n <= Cardinality(T)
<1>1. f \in Injection(1 .. n, T)
  BY Fun_IsInj
<1>2. Cardinality(1 .. n) <= Cardinality(T)
  BY <1>1, FS_Injection
<1>3. Cardinality(1 .. n) = n
  BY IntervalCount
<1> QED
  BY <1>2, <1>3

LEMMA Numbers ==
    /\ IsFiniteSet(Writers) /\ Cardinality(Writers) \in Nat
    /\ MaxLsn \in Nat /\ MaxLsn = Cardinality(Writers) * MaxAppends
    /\ MaxEpoch \in Nat /\ MaxEpoch = Cardinality(Writers) + 1
    /\ IsFiniteSet(Appends) /\ Cardinality(Appends) = MaxAppends
<1>1. IsFiniteSet(Writers) /\ Cardinality(Writers) \in Nat /\ MaxAppends \in Nat
  BY RoutingAssumption, FS_CardinalityType
<1>2. IsFiniteSet(Appends) /\ Cardinality(Appends) = MaxAppends
  BY <1>1, IntervalCount DEF Appends
<1> QED
  BY <1>1, <1>2 DEF MaxLsn, MaxEpoch

(* There are no more epochs than writers. *)
LEMMA EpochBound ==
    ASSUME Types, Leased
    PROVE  machine.writer_epoch <= Cardinality(Writers)
<1> DEFINE n == machine.writer_epoch
           Holder(w, e) == Ident(machine, w, 0).epoch = e
           f == [e \in 1 .. n |-> CHOOSE w \in Writers : Holder(w, e)]
<1>1. n \in Nat
  BY MachineNumbers
<1>2. \A e \in 1 .. n : \E w \in Writers : Holder(w, e)
  BY DEF Leased
<1>3. \A w \in Writers : \A d, e : Holder(w, d) /\ Holder(w, e) => d = e
  OBVIOUS
<1> HIDE DEF n, Holder
<1>4. f \in [1 .. n -> Writers] /\ \A e \in 1 .. n : Holder(f[e], e)
  BY <1>2
<1> HIDE DEF f
<1>5. \A a, b \in 1 .. n : f[a] = f[b] => a = b
  BY <1>3, <1>4
<1> QED
  BY <1>1, <1>4, <1>5, Numbers, CountInjection DEF n

(* There are no more LSNs below one that only the writers of V appended    *)
(* than V has appends.                                                     *)
LEMMA CountAppends ==
    ASSUME Types, Filled, NEW V \in SUBSET Writers, NEW n \in Nat, n <= machine.wal_end,
           \A w \in Writers, k \in Appends :
              Has(machine, w, k) /\ Ident(machine, w, k).wal_end \in 1 .. n => w \in V
    PROVE  n <= Cardinality(V) * MaxAppends
<1> DEFINE Ends(p, x) == Ident(machine, p[1], p[2]).wal_end = x
           T == V \X Appends
           f == [x \in 1 .. n |-> CHOOSE p \in T : Ends(p, x)]
<1>1. ASSUME NEW x \in 1 .. n PROVE \E p \in T : Ends(p, x)
  <2>1. x \in 1 .. machine.wal_end
    BY MachineNumbers
  <2>2. PICK w \in Writers, k \in Appends : Has(machine, w, k) /\ Ident(machine, w, k).wal_end = x
    BY <2>1 DEF Filled
  <2>3. <<w, k>> \in T /\ Ends(<<w, k>>, x)
    BY <2>2
  <2> QED
    BY <2>3
<1>2. \A p \in T : \A x, y : Ends(p, x) /\ Ends(p, y) => x = y
  OBVIOUS
<1>3. IsFiniteSet(T) /\ Cardinality(T) = Cardinality(V) * MaxAppends
  BY Numbers, FS_Subset, FS_Product
<1> HIDE DEF Ends, T
<1>4. f \in [1 .. n -> T] /\ \A x \in 1 .. n : Ends(f[x], x)
  BY <1>1
<1> HIDE DEF f
<1>5. \A a, b \in 1 .. n : f[a] = f[b] => a = b
  BY <1>2, <1>4
<1> QED
  BY <1>3, <1>4, <1>5, CountInjection

LEMMA TailBound ==
    ASSUME Types, Filled
    PROVE  machine.wal_end <= MaxLsn
<1>1. machine.wal_end <= Cardinality(Writers) * MaxAppends
  BY MachineNumbers, CountAppends
<1> QED
  BY <1>1, Numbers

(* The appends of a writer fit above the tail that its lease answered. *)
LEMMA RoomForAppends ==
    ASSUME Types, Granted, Truthful, Filled, NEW w \in Writers, Has(machine, w, 0)
    PROVE  Ident(machine, w, 0).wal_end \in Nat /\ Ident(machine, w, 0).wal_end + MaxAppends <= MaxLsn
<1> DEFINE n == Ident(machine, w, 0).wal_end
           V == Writers \ {w}
<1>1. n \in Nat /\ n <= machine.wal_end
  BY IdentType, StepNumbers DEF Identities, Granted, LeaseAt
<1>2. ASSUME NEW v \in Writers, NEW k \in Appends, Has(machine, v, k), Ident(machine, v, k).wal_end \in 1 .. n
      PROVE  v \in V
  <2>1. CASE v = w
    <3>1. Told(w, 0, Replied) /\ Ident(machine, w, k).wal_end = session[w].first + k
      BY <1>2, <2>1 DEF Granted, AppendAt, Told
    <3>2. session[w].first = n
      BY <3>1 DEF Truthful
    <3>3. k \in Nat /\ k > 0
      BY StepNumbers DEF Appends
    <3> QED
      BY <1>1, <1>2, <2>1, <3>1, <3>2, <3>3
  <2> QED
    BY <2>1
<1>3. Cardinality(V) = Cardinality(Writers) - 1
  BY Numbers, FS_RemoveElement
<1> HIDE DEF n, V
<1>4. n <= Cardinality(V) * MaxAppends
  BY <1>1, <1>2, CountAppends DEF V
<1>5. \A a, b \in Nat : (a - 1) * b + b = a * b
  OBVIOUS
<1> DEFINE a == Cardinality(Writers)
           p == (a - 1) * MaxAppends
<1>6. a \in Nat /\ MaxAppends \in Nat /\ a >= 1
  <2>1. a # 0
    BY Numbers, FS_EmptySet
  <2> QED
    BY <2>1, Numbers, StepNumbers
<1>7. p + MaxAppends = MaxLsn /\ n <= p
  BY <1>3, <1>4, <1>5, <1>6, Numbers
<1>8. p \in Int
  BY <1>6
<1> HIDE DEF a, p
<1> QED
  BY <1>1, <1>6, <1>7, <1>8 DEF n

(* The keys there are. *)
Keys == ((Writers \X Steps) \X (0 .. MaxFaults))
        \cup (({"control"} \X {1, 2}) \X {0})
        \cup (({"archive"} \X (1 .. MaxLsn)) \X {0, 1})

LEMMA PairCount ==
    ASSUME NEW x, NEW y, x # y
    PROVE  IsFiniteSet({x, y}) /\ Cardinality({x, y}) = 2
<1>1. {x, y} = {x} \cup {y} /\ y \notin {x}
  OBVIOUS
<1>2. IsFiniteSet({x}) /\ Cardinality({x}) = 1
  BY FS_Singleton
<1>3. IsFiniteSet({x} \cup {y}) /\ Cardinality({x} \cup {y}) = Cardinality({x}) + 1
  BY <1>1, <1>2, FS_AddElement
<1> QED
  BY <1>1, <1>2, <1>3

LEMMA KeysCount == IsFiniteSet(Keys) /\ Cardinality(Keys) <= MaxIndex
<1> DEFINE A == (Writers \X Steps) \X (0 .. MaxFaults)
           B == ({"control"} \X {1, 2}) \X {0}
           C == ({"archive"} \X (1 .. MaxLsn)) \X {0, 1}
           N == Cardinality(Writers)
<1>0. N \in Nat /\ MaxLsn \in Nat /\ MaxAppends \in Nat /\ MaxFaults \in Nat
  BY Numbers, StepNumbers
<1>1. IsFiniteSet(A) /\ Cardinality(A) = N * (MaxAppends + 2) * (MaxFaults + 1)
  <2>1. IsFiniteSet(Steps) /\ Cardinality(Steps) = MaxAppends + 2
    <3>1. MaxAppends + 1 \in Nat /\ MaxAppends + 1 + 1 = MaxAppends + 2
      BY <1>0
    <3>2. IsFiniteSet(0 .. MaxAppends + 1) /\ Cardinality(0 .. MaxAppends + 1) = MaxAppends + 1 + 1
      BY <3>1, IntervalCount
    <3> QED
      BY <3>1, <3>2 DEF Steps
  <2>2. IsFiniteSet(0 .. MaxFaults) /\ Cardinality(0 .. MaxFaults) = MaxFaults + 1
    BY <1>0, IntervalCount
  <2>3. IsFiniteSet(Writers \X Steps) /\ Cardinality(Writers \X Steps) = N * (MaxAppends + 2)
    BY <2>1, Numbers, FS_Product
  <2>4. IsFiniteSet(A) /\ Cardinality(A) = Cardinality(Writers \X Steps) * Cardinality(0 .. MaxFaults)
    BY <2>2, <2>3, FS_Product
  <2> QED
    BY <2>2, <2>3, <2>4, Zenon
<1>2. IsFiniteSet(B) /\ Cardinality(B) = 2
  <2>1. IsFiniteSet({1, 2}) /\ Cardinality({1, 2}) = 2
    <3>1. 1 # 2
      OBVIOUS
    <3> QED
      BY <3>1, PairCount, Zenon
  <2>2. /\ IsFiniteSet({"control"}) /\ Cardinality({"control"}) = 1
        /\ IsFiniteSet({0}) /\ Cardinality({0}) = 1
    BY FS_Singleton
  <2>3. IsFiniteSet({"control"} \X {1, 2}) /\ Cardinality({"control"} \X {1, 2}) = 2
    BY <2>1, <2>2, FS_Product
  <2> QED
    BY <2>2, <2>3, FS_Product
<1>3. IsFiniteSet(C) /\ Cardinality(C) = 2 * MaxLsn
  <2>1. IsFiniteSet(1 .. MaxLsn) /\ Cardinality(1 .. MaxLsn) = MaxLsn
    BY <1>0, IntervalCount
  <2>2. IsFiniteSet({"archive"}) /\ Cardinality({"archive"}) = 1
    BY FS_Singleton
  <2>3. IsFiniteSet({0, 1}) /\ Cardinality({0, 1}) = 2
    <3>1. 0 # 1
      OBVIOUS
    <3> QED
      BY <3>1, PairCount, Zenon
  <2>4. IsFiniteSet({"archive"} \X (1 .. MaxLsn)) /\ Cardinality({"archive"} \X (1 .. MaxLsn)) = MaxLsn
    BY <1>0, <2>1, <2>2, FS_Product
  <2>5. IsFiniteSet(C) /\ Cardinality(C) = MaxLsn * 2
    BY <2>3, <2>4, FS_Product
  <2> QED
    BY <1>0, <2>5
<1> HIDE DEF A, B, C, N
<1>4. IsFiniteSet(A \cup B) /\ Cardinality(A \cup B) <= Cardinality(A) + 2
  <2>1. Cardinality(A \cup B) = Cardinality(A) + Cardinality(B) - Cardinality(A \cap B)
    BY <1>1, <1>2, FS_Union
  <2>2. IsFiniteSet(A \cap B)
    BY <1>1, FS_Subset
  <2>3. Cardinality(A \cap B) \in Nat /\ Cardinality(A) \in Nat
    BY <1>1, <2>2, FS_CardinalityType
  <2> QED
    BY <1>1, <1>2, <2>1, <2>3, FS_Union
<1>5. IsFiniteSet(A \cup B \cup C) /\ Cardinality(A \cup B \cup C) <= Cardinality(A \cup B) + 2 * MaxLsn
  <2>1. Cardinality(A \cup B \cup C) = Cardinality(A \cup B) + Cardinality(C) - Cardinality((A \cup B) \cap C)
    BY <1>3, <1>4, FS_Union
  <2>2. IsFiniteSet((A \cup B) \cap C)
    BY <1>4, FS_Subset
  <2>3. Cardinality((A \cup B) \cap C) \in Nat /\ Cardinality(A \cup B) \in Nat
    BY <1>4, <2>2, FS_CardinalityType
  <2> QED
    BY <1>0, <1>3, <1>4, <2>1, <2>3, FS_Union
<1>6. Cardinality(A) \in Nat /\ Cardinality(A \cup B) \in Nat /\ Cardinality(A \cup B \cup C) \in Nat
  BY <1>1, <1>4, <1>5, FS_CardinalityType
<1>7. Keys = A \cup B \cup C
  BY DEF Keys, A, B, C
<1>8. MaxIndex = 2 + 3 * MaxLsn + Cardinality(A)
  BY <1>1 DEF MaxIndex, N
<1> QED
  BY <1>0, <1>4, <1>5, <1>6, <1>7, <1>8

LEMMA KeyKnown ==
    ASSUME Types, Shaped, Filled, Archived, NEW i \in 1 .. Total
    PROVE  Key(Sent(i)) \in Keys
<1> DEFINE c == Sent(i)
<1>1. /\ Shape(c) /\ c.header \in Headers /\ c.try \in 0 .. MaxFaults
  <2>1. c.try \in Nat /\ c.try <= faults /\ faults \in 0 .. MaxFaults /\ MaxFaults \in Nat
    BY StepNumbers DEF Shaped, Types
  <2> QED
    BY <2>1, SentBasics DEF Shaped
<1>0. /\ machine.archive_lsn \in Nat /\ machine.wal_end \in Nat /\ MaxLsn \in Nat
      /\ machine.archive_lsn <= machine.wal_end /\ machine.wal_end <= MaxLsn
  BY MachineNumbers, TailBound, Numbers DEF Archived, Watermarks
<1>2. CASE c.header.kind \in {"WriterLease", "Wal", "ReleaseWriter"}
  <2>1. PICK w \in Writers, k \in Steps : c.header.request = <<w, k>>
    BY <1>1, <1>2, ShapeKinds
  <2>2. Key(c) = <<<<w, k>>, c.try>>
    BY <1>2, <2>1 DEF Key
  <2> QED
    BY <1>1, <2>2 DEF Keys
<1>3. CASE c.header.kind \in {"WalArchiveBinding", "TimelineOpen"}
  <2>1. c.header \in {BindingHeader, OpenHeader} /\ c.try = 0
    BY <1>1, <1>3, ShapeKinds
  <2>2. c.header.request \in {"control"} \X {1, 2}
    <3>1. c.header.request = <<"control", 1>> \/ c.header.request = <<"control", 2>>
      BY <2>1, HeaderFields
    <3> QED
      BY <3>1
  <2>3. Key(c) = <<c.header.request, 0>>
    BY <1>3, <2>1 DEF Key
  <2> QED
    BY <2>2, <2>3 DEF Keys
<1>4. CASE c.header.kind \in {"ArchiveCheckpoint", "ReleaseWal"}
  <2>0. c.header.lo \in Nat /\ c.header.hi \in Nat
    BY <1>1 DEF Headers
  <2>1. c.header.request = <<"archive", c.header.hi>> /\ c.header.hi > 0 /\ c.try = 0
    <3>1. CASE c.header.kind = "ArchiveCheckpoint"
      <4>1. c.header = SegmentHeader(c.header.lo, c.header.hi) /\ c.header.lo < c.header.hi /\ c.try = 0
        BY <1>1, <3>1, ShapeKinds
      <4> QED
        BY <2>0, <4>1, HeaderFields
    <3>2. CASE c.header.kind = "ReleaseWal"
      <4>1. c.header = CutHeader(c.header.hi) /\ c.header.hi > 0 /\ c.try = 0
        BY <1>1, <2>0, <3>2, ShapeKinds
      <4> QED
        BY <2>0, <4>1, HeaderFields
    <3> QED
      BY <1>4, <3>1, <3>2
  <2>2. c.header.hi <= machine.wal_end
    <3>1. CASE i \in DOMAIN log /\ c = log[i]
      BY <1>0, <1>4, <2>0, <3>1 DEF Archived, Cuts, IsSegment, IsCut
    <3>2. CASE i - Len(log) \in DOMAIN pending /\ c = pending[i - Len(log)]
      BY <1>0, <1>4, <2>0, <3>2 DEF Archived, Proposed, IsSegment, IsCut
    <3> QED
      BY <3>1, <3>2, SentBasics
  <2>3. c.header.hi \in 1 .. MaxLsn
    BY <1>0, <2>0, <2>1, <2>2
  <2>4. Key(c) \in {<<c.header.request, 0>>, <<c.header.request, 1>>}
    BY <2>1 DEF Key
  <2> QED
    BY <2>1, <2>3, <2>4 DEF Keys
<1> QED
  BY <1>1, <1>2, <1>3, <1>4, ShapeKinds

(* No log is longer than MaxIndex, whatever is still to be committed. *)
LEMMA IndexBound ==
    ASSUME Types, Shaped, Distinct, Filled, Archived
    PROVE  Total <= MaxIndex
<1> DEFINE f == [i \in 1 .. Total |-> Key(Sent(i))]
<1>1. f \in [1 .. Total -> Keys]
  BY KeyKnown
<1>2. \A a, b \in 1 .. Total : f[a] = f[b] => a = b
  BY DEF Distinct
<1> HIDE DEF f
<1>3. Total \in Nat /\ Total <= Cardinality(Keys)
  BY <1>1, <1>2, SentBasics, KeysCount, CountInjection
<1>4. Cardinality(Keys) \in Nat /\ MaxIndex \in Nat
  <2> DEFINE a == Cardinality(Writers) * (MaxAppends + 2)
             b == a * (MaxFaults + 1)
  <2>1. a \in Nat /\ b \in Nat
    BY Numbers, StepNumbers
  <2>2. MaxIndex = 2 + 3 * MaxLsn + b
    BY DEF MaxIndex
  <2> HIDE DEF a, b
  <2>3. Cardinality(Keys) \in Nat
    BY KeysCount, FS_CardinalityType
  <2> QED
    BY <2>1, <2>2, <2>3, Numbers
<1> QED
  BY <1>3, <1>4, KeysCount

-----------------------------------------------------------------------------
(* The archiver. *)

IdentityOf(s, h, i) ==
    [index |-> i, kind |-> h.kind, hash |-> h.hash, epoch |-> h.epoch, wal_end |-> ReplyEnd(s, h)]

(* What else the machine t is after the command of h. *)
Keeps(s, h, i, t) ==
    /\ Taken(s, h) =>
         /\ t.archive_lsn = IF h.kind = "ArchiveCheckpoint" THEN h.hi ELSE s.archive_lsn
         /\ t.committed = s.committed \cup {[index |-> i, header |-> h]}
         /\ t.retries = [s.retries EXCEPT ![h.request] = IdentityOf(s, h, i)]
    /\ ~Taken(s, h) =>
         /\ t.archive_lsn = s.archive_lsn /\ t.retries = s.retries
         /\ t.committed = IF h.kind = "ReleaseWal"
                          THEN {e \in s.committed : e.header.kind = "Wal" => e.header.hi > h.hi}
                          ELSE s.committed

LEMMA ApplyKeeps ==
    ASSUME NEW s \in Machines, NEW h \in Headers, NEW i \in Nat
    PROVE  Keeps(s, h, i, Apply(s, h, i))
<1> DEFINE t == Apply(s, h, i)
<1>1. CASE Taken(s, h)
  <2> DEFINE ret == [s.retries EXCEPT ![h.request] = IdentityOf(s, h, i)]
             com == s.committed \cup {[index |-> i, header |-> h]}
  <2>1. t = Accepted(s, h, i)
    BY <1>1 DEF Apply, Taken
  <2>2. t = [s EXCEPT !.outcome = "Committed", !.committed = com, !.retries = ret,
        !.bucket        = IF h.kind = "WalArchiveBinding" THEN h.bucket ELSE @,
        !.initialized   = @ \/ h.kind = "TimelineOpen",
        !.writer_epoch  = IF h.kind = "WriterLease" THEN h.epoch ELSE @,
        !.writer_active = (@ \/ h.kind = "WriterLease") /\ h.kind # "ReleaseWriter",
        !.wal_end       = IF h.kind = "Wal" THEN h.hi ELSE @,
        !.archive_lsn   = IF h.kind = "ArchiveCheckpoint" THEN h.hi ELSE @]
    BY <2>1 DEF Accepted, IdentityOf
  <2> HIDE DEF t, ret, com
  <2>3. /\ t.archive_lsn = IF h.kind = "ArchiveCheckpoint" THEN h.hi ELSE s.archive_lsn
        /\ t.committed = com /\ t.retries = ret
    BY <2>2 DEF Machines
  <2> QED
    BY <1>1, <2>3 DEF Keeps, t, ret, com
<1>2. CASE ~Taken(s, h) /\ h.kind = "ReleaseWal"
  <2> DEFINE com == {e \in s.committed : e.header.kind = "Wal" => e.header.hi > h.hi}
  <2>1. t = [s EXCEPT !.outcome = "Committed", !.committed = com]
    BY <1>2 DEF Apply
  <2> HIDE DEF t, com
  <2>2. t.archive_lsn = s.archive_lsn /\ t.committed = com /\ t.retries = s.retries
    BY <2>1 DEF Machines
  <2> QED
    BY <1>2, <2>2 DEF Keeps, t, com
<1>3. CASE ~Taken(s, h) /\ h.kind # "ReleaseWal"
  <2>1. t = [s EXCEPT !.outcome = Outcome(s, h)]
    BY <1>3 DEF Apply, Taken
  <2> HIDE DEF t
  <2>2. t.archive_lsn = s.archive_lsn /\ t.committed = s.committed /\ t.retries = s.retries
    BY <2>1 DEF Machines
  <2> QED
    BY <1>3, <2>2 DEF Keeps, t
<1> QED
  BY <1>1, <1>2, <1>3

LEMMA CommitKeeps ==
    ASSUME Types, Commit
    PROVE  Keeps(machine, pending[1].header, Len(log) + 1, machine')
<1>1. machine \in Machines /\ Len(log) + 1 \in Nat /\ pending[1].header \in Headers
  BY CommitEffect DEF Types
<1> QED
  BY <1>1, CommitEffect, ApplyKeeps

(* The first proposal, by its kind. *)
LEMMA FirstShape ==
    ASSUME Types, Shaped, Commit
    PROVE  Shape(pending[1]) /\ pending[1].header \in Headers
<1>1. 1 \in DOMAIN pending /\ pending[1].header \in Headers
  BY CommitEffect
<1>2. \E i \in 1 .. Total : Sent(i) = pending[1]
  BY <1>1, SentBasics
<1> QED
  BY <1>1, <1>2 DEF Shaped

(* A checkpoint that commits is accepted. *)
LEMMA SegmentTaken ==
    ASSUME Types, Shaped, Filled, Archived, Commit, IsSegment(pending[1])
    PROVE  /\ Taken(machine, pending[1].header)
           /\ pending[1].header.lo = machine.archive_lsn /\ pending[1].header.hi <= machine.wal_end
           /\ pending[1].header.lo < pending[1].header.hi
           /\ pending[1].header.request = <<"archive", pending[1].header.hi>>
           /\ pending[1].header.hi \in 1 .. MaxLsn
<1> DEFINE h == pending[1].header
<1>1. 1 \in DOMAIN pending /\ h \in Headers /\ h.kind = "ArchiveCheckpoint" /\ machine \in Machines
  BY CommitEffect DEF IsSegment, Types
<1>2. h.lo = machine.archive_lsn /\ h.hi <= machine.wal_end
  BY <1>1 DEF Archived, Proposed
<1>3. h.lo < h.hi /\ h = SegmentHeader(h.lo, h.hi)
  BY <1>1, FirstShape, ShapeKinds
<1>4. h.request = <<"archive", h.hi>>
  BY <1>3, HeaderFields
<1>5. h.lo \in Nat /\ h.hi \in Nat /\ machine.wal_end \in Nat /\ machine.wal_end <= MaxLsn /\ MaxLsn \in Nat
  BY <1>1, MachineNumbers, TailBound, Numbers DEF Headers
<1>6. h.hi \in 1 .. MaxLsn
  BY <1>2, <1>3, <1>5
<1>7. ~(machine.retries[h.request].index > 0)
  BY <1>2, <1>3, <1>4, <1>5, <1>6 DEF Archived, Watermarks
<1>8. EpochValid(machine, h)
  BY <1>1, EpochValidCases
<1>9. Outcome(machine, h) = "Committed"
  BY <1>1, <1>2, <1>5, <1>7, <1>8 DEF Outcome
<1> QED
  BY <1>1, <1>2, <1>3, <1>4, <1>6, <1>9 DEF Taken

LEMMA WatermarksCommit ==
    ASSUME Types, Headed, Shaped, Filled, Archived, Commit
    PROVE  Watermarks(machine')
<1> DEFINE h == pending[1].header
           m == machine
           t == machine'
           n == Len(log) + 1
<1> SUFFICES Watermarks(t)
  OBVIOUS
<1>0. /\ m \in Machines /\ t \in Machines /\ h \in Headers /\ n \in Nat /\ n > 0 /\ Shape(pending[1])
      /\ Keeps(m, h, n, t) /\ Watermarks(m) /\ Built(session, answer, h)
  <2>1. t \in Machines /\ Built(session, answer, h)
    BY CommitGrows
  <2>2. h \in Headers /\ Shape(pending[1]) /\ Keeps(m, h, n, t)
    BY CommitKeeps, FirstShape
  <2>3. m \in Machines /\ n \in Nat /\ n > 0 /\ Watermarks(m)
    BY LogLength DEF Types, Archived
  <2> QED
    BY <2>1, <2>2, <2>3
<1>1. /\ m.archive_lsn \in Nat /\ m.wal_end \in Nat /\ h.lo \in Nat /\ h.hi \in Nat
      /\ m.initialized \in BOOLEAN /\ m.writer_active \in BOOLEAN
  BY <1>0 DEF Machines, Headers
<1>2. CASE ~Taken(m, h)
  <2>1. Leaves(m, h, t)
    BY <1>2, CommitMachine
  <2>2. /\ t.archive_lsn = m.archive_lsn /\ t.wal_end = m.wal_end /\ t.initialized = m.initialized
        /\ t.writer_active = m.writer_active /\ t.retries = m.retries
        /\ t.committed \subseteq m.committed
        /\ \A e \in m.committed : IsSegment(e) => e \in t.committed
    BY <1>0, <1>2, <2>1 DEF Leaves, Keeps, IsSegment
  <2> HIDE DEF m, t, h, n
  <2> QED
    BY <1>0, <2>2 DEF Watermarks
<1>3. CASE Taken(m, h)
  <2>1. Takes(m, h, n, t)
    BY <1>3, CommitMachine
  <2>2. /\ ~(m.retries[h.request].index > 0) /\ EpochValid(m, h) /\ (h.kind = "Wal" => h.lo = m.wal_end)
    BY <1>0, <1>3, OutcomeCases DEF Taken
  <2>3. /\ h.kind = "Wal" => h.hi = h.lo + 1
        /\ h.kind = "TimelineOpen" => h.request = <<"control", 2>>
    BY <1>0, BuiltKinds
  <2>4. h.kind = "ArchiveCheckpoint" =>
           /\ h.lo = m.archive_lsn /\ h.hi <= m.wal_end /\ h.lo < h.hi /\ h.request = <<"archive", h.hi>>
    BY SegmentTaken DEF IsSegment
  <2>5. h.kind # "ArchiveCheckpoint" => \A x \in Nat : h.request # <<"archive", x>>
    <3>1. h.request[1] = "archive" => h.kind \in {"ArchiveCheckpoint", "ReleaseWal"}
      BY <1>0, ShapeKinds
    <3>2. h.kind # "ReleaseWal"
      BY <1>3 DEF Taken
    <3> QED
      BY <3>1, <3>2
  <2>6. m.writer_active => m.initialized
    BY <1>0 DEF Watermarks
  <2>7. h.kind \in {"Wal", "WriterLease", "ReleaseWriter"} => m.initialized
    BY <1>0, <2>2, <2>6, EpochValidCases
  <2>8. /\ t.archive_lsn = IF h.kind = "ArchiveCheckpoint" THEN h.hi ELSE m.archive_lsn
        /\ t.committed = m.committed \cup {[index |-> n, header |-> h]}
    BY <1>0, <1>3 DEF Keeps
  <2> DEFINE f == [index |-> n, header |-> h]
  <2>9. f \in t.committed /\ f.header = h /\ \A e \in t.committed : e \in m.committed \/ e = f
    BY <2>8
  <2>10. \A e \in m.committed : e \in t.committed
    BY <2>8
  <2> HIDE DEF m, t, h, n, f
  <2>11. t.wal_end = IF h.kind = "Wal" THEN h.hi ELSE m.wal_end
    BY <2>1 DEF Takes
  <2>12. t.archive_lsn <= t.wal_end
    BY <1>0, <1>1, <2>2, <2>3, <2>4, <2>8, <2>11 DEF Watermarks
  <2>13. t.initialized => t.retries[<<"control", 2>>].index > 0
    <3>1. h.request = <<"control", 2>> => t.retries[<<"control", 2>>].index = n
      BY <2>1, RequestNames DEF Takes
    <3>2. h.request # <<"control", 2>> => t.retries[<<"control", 2>>] = m.retries[<<"control", 2>>]
      BY <2>1, RequestNames DEF Takes
    <3>3. t.initialized => m.initialized \/ h.kind = "TimelineOpen"
      BY <2>1 DEF Takes
    <3> QED
      BY <1>0, <2>3, <3>1, <3>2, <3>3 DEF Watermarks
  <2>14. ~t.initialized => t.wal_end = 0 /\ ~t.writer_active
    <3> SUFFICES ASSUME ~t.initialized PROVE t.wal_end = 0 /\ ~t.writer_active
      OBVIOUS
    <3>1. ~m.initialized /\ h.kind \notin {"Wal", "WriterLease", "ReleaseWriter"}
      BY <2>1, <2>7 DEF Takes
    <3>2. t.wal_end = m.wal_end /\ (t.writer_active => m.writer_active)
      BY <2>1, <2>11, <3>1 DEF Takes
    <3> QED
      BY <1>0, <3>1, <3>2 DEF Watermarks
  <2>15. t.archive_lsn > 0 => \E e \in t.committed : IsSegment(e) /\ e.header.hi = t.archive_lsn
    <3>1. CASE h.kind = "ArchiveCheckpoint"
      BY <2>8, <2>9, <3>1 DEF IsSegment
    <3>2. CASE h.kind # "ArchiveCheckpoint"
      BY <1>0, <2>8, <2>10, <3>2 DEF Watermarks
    <3> QED
      BY <3>1, <3>2
  <2>16. ASSUME NEW x \in 1 .. MaxLsn, t.retries[<<"archive", x>>].index > 0
         PROVE  x <= t.archive_lsn
    <3>1. <<"archive", x>> \in Requests /\ x \in Nat
      BY Numbers DEF Requests
    <3>2. CASE h.request = <<"archive", x>>
      <4>1. h.kind = "ArchiveCheckpoint"
        BY <2>5, <3>1, <3>2
      <4> QED
        BY <1>1, <2>4, <2>8, <3>2, <4>1
    <3>3. CASE h.request # <<"archive", x>>
      <4>1. m.retries[<<"archive", x>>].index > 0
        BY <2>1, <2>16, <3>1, <3>3 DEF Takes
      <4>2. x <= m.archive_lsn
        BY <1>0, <4>1 DEF Watermarks
      <4> QED
        BY <1>1, <2>4, <2>8, <3>1, <4>2
    <3> QED
      BY <3>2, <3>3
  <2>17. \A e \in t.committed : e.header.kind = "Wal" => e.header.hi > 0
    BY <1>0, <1>1, <2>3, <2>9 DEF Watermarks
  <2> QED
    BY <2>12, <2>13, <2>14, <2>15, <2>16, <2>17 DEF Watermarks
<1> QED
  BY <1>2, <1>3

(* What committing a command does to the watermarks and the headers. *)
LEMMA CommitArchive ==
    ASSUME Types, Headed, Shaped, Filled, Archived, Commit
    PROVE  /\ machine'.archive_lsn \in Nat /\ machine'.wal_end \in Nat
           /\ machine.archive_lsn <= machine'.archive_lsn /\ machine.wal_end <= machine'.wal_end
           /\ ~IsSegment(pending[1]) => machine'.archive_lsn = machine.archive_lsn
           /\ IsSegment(pending[1]) => machine'.archive_lsn = pending[1].header.hi
           /\ \A e \in machine.committed : IsSegment(e) => e \in machine'.committed
           /\ \A e \in machine'.committed : e.header.kind = "Wal" =>
                 \/ e \in machine.committed /\ (IsCut(pending[1]) => e.header.hi > pending[1].header.hi)
                 \/ ~IsCut(pending[1]) /\ e.header.hi > machine.wal_end
<1> DEFINE h == pending[1].header
           m == machine
           t == machine'
           n == Len(log) + 1
<1>0. m \in Machines /\ t \in Machines /\ h \in Headers /\ Keeps(m, h, n, t) /\ Built(session, answer, h)
  <2>1. t \in Machines /\ Built(session, answer, h)
    BY CommitGrows
  <2> QED
    BY <2>1, CommitKeeps, FirstShape DEF Types
<1>1. /\ m.archive_lsn \in Nat /\ m.wal_end \in Nat /\ h.lo \in Nat /\ h.hi \in Nat
      /\ t.archive_lsn \in Nat /\ t.wal_end \in Nat /\ m.wal_end <= t.wal_end
  <2>1. m.wal_end <= t.wal_end
    BY CommitGrows DEF Grows
  <2> QED
    BY <1>0, <2>1 DEF Machines, Headers
<1>2. IsSegment(pending[1]) => Taken(m, h) /\ h.lo = m.archive_lsn /\ h.lo < h.hi
  BY SegmentTaken
<1>3. CASE ~Taken(m, h)
  <2>1. /\ t.archive_lsn = m.archive_lsn
        /\ t.committed = IF h.kind = "ReleaseWal"
                         THEN {e \in m.committed : e.header.kind = "Wal" => e.header.hi > h.hi}
                         ELSE m.committed
    BY <1>0, <1>3 DEF Keeps
  <2>2. ~IsSegment(pending[1])
    BY <1>2, <1>3
  <2>3. \A e \in m.committed : IsSegment(e) => e \in t.committed
    BY <2>1 DEF IsSegment
  <2>4. \A e \in t.committed : e.header.kind = "Wal" =>
           e \in m.committed /\ (IsCut(pending[1]) => e.header.hi > h.hi)
    BY <2>1 DEF IsCut
  <2> HIDE DEF m, t, h, n
  <2>5. m.archive_lsn <= t.archive_lsn
    BY <1>1, <2>1
  <2> QED
    BY <1>1, <2>1, <2>2, <2>3, <2>4, <2>5 DEF m, t, h
<1>4. CASE Taken(m, h)
  <2> DEFINE f == [index |-> n, header |-> h]
  <2>1. /\ t.archive_lsn = IF h.kind = "ArchiveCheckpoint" THEN h.hi ELSE m.archive_lsn
        /\ t.committed = m.committed \cup {f}
    BY <1>0, <1>4 DEF Keeps
  <2>2. ~IsCut(pending[1])
    BY <1>4 DEF Taken, IsCut
  <2>3. \A e \in t.committed : e \in m.committed \/ e.header = h
    BY <2>1
  <2>4. h.kind = "Wal" => h.hi > m.wal_end
    <3>1. h.kind = "Wal" => h.lo = m.wal_end /\ h.hi = h.lo + 1
      BY <1>0, <1>4, OutcomeCases, BuiltKinds DEF Taken
    <3> QED
      BY <1>1, <3>1
  <2>5. \A e \in m.committed : e \in t.committed
    BY <2>1
  <2>6. /\ ~IsSegment(pending[1]) => t.archive_lsn = m.archive_lsn
        /\ IsSegment(pending[1]) => t.archive_lsn = h.hi
    BY <2>1 DEF IsSegment
  <2> HIDE DEF m, t, h, n, f
  <2>7. m.archive_lsn <= t.archive_lsn
    BY <1>1, <1>2, <2>6
  <2> QED
    BY <1>1, <2>2, <2>3, <2>4, <2>5, <2>6, <2>7 DEF m, t, h
<1> QED
  BY <1>3, <1>4

LEMMA CutsCommit ==
    ASSUME Types, Headed, Shaped, Filled, Archived, Commit
    PROVE  Cuts(machine', log')
<1> DEFINE n == Len(log) + 1
<1>0. /\ machine.archive_lsn \in Nat /\ machine.wal_end \in Nat /\ machine'.archive_lsn \in Nat
      /\ machine.archive_lsn <= machine'.archive_lsn /\ machine.archive_lsn <= machine.wal_end
  BY CommitArchive, MachineNumbers DEF Archived, Watermarks
<1>1. ASSUME NEW i \in DOMAIN log'
      PROVE  log'[i].header \in Headers /\ ((i \in DOMAIN log /\ log'[i] = log[i]) \/ (i = n /\ log'[i].header = pending[1].header))
  <2>1. i \in DOMAIN log \/ i = n
    BY CommitEffect
  <2>2. CASE i \in DOMAIN log
    <3>1. log'[i] = log[i]
      BY <2>2, CommitEffect
    <3>2. log[i].header \in Headers
      BY <2>2 DEF Types
    <3>3. log'[i].header \in Headers
      BY <3>1, <3>2
    <3> QED
      BY <2>2, <3>1, <3>3
  <2>3. CASE i = n
    <3>1. log'[n].header = pending[1].header /\ pending[1].header \in Headers
      BY CommitEffect DEF Types
    <3> QED
      BY <2>3, <3>1
  <2> QED
    BY <2>1, <2>2, <2>3
<1>a. \A e \in machine'.committed : e.header.hi \in Nat
  BY CommitGrows DEF Machines, Headers
<1>2. ASSUME NEW i \in DOMAIN log', IsSegment(log'[i])
      PROVE  log'[i].header.hi <= machine'.archive_lsn
  <2>0. log'[i].header.hi \in Nat
    BY <1>1 DEF Headers
  <2>1. CASE i \in DOMAIN log /\ log'[i] = log[i]
    <3>1. log[i].header.hi <= machine.archive_lsn
      BY <1>2, <2>1 DEF Archived, Cuts
    <3> QED
      BY <1>0, <2>0, <2>1, <3>1
  <2>2. CASE i = n /\ log'[i].header = pending[1].header
    <3>1. IsSegment(pending[1])
      BY <1>2, <2>2 DEF IsSegment
    <3> QED
      BY <1>0, <2>2, <3>1, CommitArchive
  <2> QED
    BY <1>1, <2>1, <2>2
<1>3. ASSUME NEW i \in DOMAIN log', IsCut(log'[i])
      PROVE  /\ log'[i].header.hi <= machine'.archive_lsn
             /\ \A e \in machine'.committed : e.header.kind = "Wal" => e.header.hi > log'[i].header.hi
  <2>0. log'[i].header.hi \in Nat
    BY <1>1 DEF Headers
  <2>1. CASE i \in DOMAIN log /\ log'[i] = log[i]
    <3>1. /\ log[i].header.hi <= machine.archive_lsn
          /\ \A e \in machine.committed : e.header.kind = "Wal" => e.header.hi > log[i].header.hi
      BY <1>3, <2>1 DEF Archived, Cuts
    <3>2. ASSUME NEW e \in machine'.committed, e.header.kind = "Wal"
          PROVE  e.header.hi > log[i].header.hi
      <4>1. CASE e \in machine.committed
        BY <3>1, <3>2, <4>1
      <4>2. CASE e.header.hi > machine.wal_end
        BY <1>0, <1>a, <2>0, <2>1, <3>1, <4>2
      <4> QED
        BY <3>2, <4>1, <4>2, CommitArchive
    <3> QED
      BY <1>0, <2>0, <2>1, <3>1, <3>2
  <2>2. CASE i = n /\ log'[i].header = pending[1].header
    <3>1. IsCut(pending[1]) /\ 1 \in DOMAIN pending
      BY <1>3, <2>2, CommitEffect DEF IsCut
    <3>2. pending[1].header.hi <= machine.archive_lsn
      BY <3>1 DEF Archived, Proposed
    <3>3. \A e \in machine'.committed : e.header.kind = "Wal" => e.header.hi > pending[1].header.hi
      BY <3>1, CommitArchive
    <3> QED
      BY <1>0, <2>0, <2>2, <3>2, <3>3
  <2> QED
    BY <1>1, <2>1, <2>2
<1> QED
  BY <1>2, <1>3 DEF Cuts

LEMMA ProposedCommit ==
    ASSUME Types, Headed, Shaped, Filled, Archived, Commit
    PROVE  Proposed(machine', log', pending')
<1>0. /\ machine.archive_lsn \in Nat /\ machine.wal_end \in Nat
      /\ machine'.archive_lsn \in Nat /\ machine'.wal_end \in Nat
      /\ machine.archive_lsn <= machine'.archive_lsn /\ machine.wal_end <= machine'.wal_end
      /\ 1 \in DOMAIN pending
  BY CommitArchive, MachineNumbers, CommitEffect
<1>1. ASSUME NEW i \in DOMAIN pending'
      PROVE  /\ i \in Nat /\ i > 0 /\ i + 1 \in DOMAIN pending /\ i + 1 # 1 /\ pending'[i] = pending[i + 1]
             /\ pending[i + 1].header.hi \in Nat
  <2>1. i \in Nat /\ i > 0 /\ i + 1 \in DOMAIN pending /\ pending'[i] = pending[i + 1]
    BY CommitEffect
  <2> QED
    BY <2>1, SentBasics DEF Headers
<1>2. ASSUME NEW i \in DOMAIN pending', IsSegment(pending'[i])
      PROVE  pending'[i].header.lo = machine'.archive_lsn /\ pending'[i].header.hi <= machine'.wal_end
  <2>1. pending[i + 1].header.lo = machine.archive_lsn /\ pending[i + 1].header.hi <= machine.wal_end
    BY <1>1, <1>2 DEF Archived, Proposed
  <2>2. ~IsSegment(pending[1])
    BY <1>0, <1>1, <1>2 DEF Archived, Proposed
  <2> QED
    BY <1>0, <1>1, <2>1, <2>2, CommitArchive
<1>3. ASSUME NEW i \in DOMAIN pending', IsCut(pending'[i])
      PROVE  /\ pending'[i].header.hi <= machine'.archive_lsn
             /\ \E e \in machine'.committed : IsSegment(e) /\ e.header.hi = pending'[i].header.hi
             /\ \A j \in DOMAIN log' : IsCut(log'[j]) => log'[j].header.hi < pending'[i].header.hi
  <2>1. /\ pending[i + 1].header.hi <= machine.archive_lsn
        /\ \E e \in machine.committed : IsSegment(e) /\ e.header.hi = pending[i + 1].header.hi
        /\ \A j \in DOMAIN log : IsCut(log[j]) => log[j].header.hi < pending[i + 1].header.hi
    BY <1>1, <1>3 DEF Archived, Proposed
  <2>2. ~IsCut(pending[1])
    BY <1>0, <1>1, <1>3 DEF Archived, Proposed
  <2>3. ASSUME NEW j \in DOMAIN log', IsCut(log'[j]) PROVE j \in DOMAIN log /\ log'[j] = log[j]
    <3>1. j \in DOMAIN log \/ j = Len(log) + 1
      BY CommitEffect
    <3>2. j # Len(log) + 1
      BY <2>2, <2>3, CommitEffect DEF IsCut
    <3> QED
      BY <3>1, <3>2, CommitEffect
  <2>4. \E e \in machine'.committed : IsSegment(e) /\ e.header.hi = pending'[i].header.hi
    BY <1>1, <2>1, CommitArchive
  <2> QED
    BY <1>0, <1>1, <2>1, <2>3, <2>4
<1>4. ASSUME NEW i \in DOMAIN pending', NEW j \in DOMAIN pending',
             \/ IsSegment(pending'[i]) /\ IsSegment(pending'[j])
             \/ IsCut(pending'[i]) /\ IsCut(pending'[j])
      PROVE  i = j
  <2>1. i + 1 = j + 1
    BY <1>1, <1>4 DEF Archived, Proposed
  <2> QED
    BY <1>1, <2>1
<1> QED
  BY <1>2, <1>3, <1>4 DEF Proposed

(* The other steps change at most the proposals. *)
LEMMA ProposedOthers ==
    ASSUME Types, Sessions, Archived, Next, UNCHANGED <<log, machine>>
    PROVE  Proposed(machine', log', pending')
<1>0. machine.archive_lsn \in Nat /\ machine.wal_end \in Nat
  BY MachineNumbers
<1>1. CASE pending' = pending
  BY <1>1 DEF Archived
<1>2. ASSUME NEW n \in Nodes, Elect(n) PROVE Proposed(machine', log', pending')
  <2>1. \A i \in DOMAIN pending' : i \in DOMAIN pending /\ pending'[i] = pending[i]
    BY <1>2, ElectEffect
  <2> QED
    BY <2>1 DEF Archived, Proposed
<1>3. ASSUME NEW w \in Writers, Propose(w) PROVE Proposed(machine', log', pending')
  <2> DEFINE c == Command(HeaderFor(w, call[w].epoch), call[w].try)
  <2>1. Proposes(c)
    BY <1>3, ProposeProposes
  <2>2. ~IsSegment(c) /\ ~IsCut(c)
    <3>0. c.header = HeaderFor(w, call[w].epoch)
      BY DEF Command
    <3>1. BuiltBy(session, answer, w, session[w].step, c.header) /\ session[w].step \in Steps
      BY <1>3, <3>0, ProposeEffect, HeaderForBuilt
    <3> QED
      BY <3>1, StepNumbers DEF BuiltBy, IsSegment, IsCut
  <2> HIDE DEF c
  <2>3. \A i \in DOMAIN pending' : IsSegment(pending'[i]) \/ IsCut(pending'[i]) =>
            i \in DOMAIN pending /\ pending'[i] = pending[i]
    BY <2>1, <2>2 DEF Proposes
  <2> QED
    BY <2>3 DEF Archived, Proposed
<1>4. CASE Checkpoint
  <2> DEFINE c == Command(SegmentHeader(machine.archive_lsn, machine.wal_end), 0)
  <2>1. Proposes(c) /\ \A i \in DOMAIN pending : ~IsSegment(pending[i])
    BY <1>4, SegmentProposed
  <2>2. IsSegment(c) /\ ~IsCut(c) /\ c.header.lo = machine.archive_lsn /\ c.header.hi = machine.wal_end
    <3>0. c.header = SegmentHeader(machine.archive_lsn, machine.wal_end)
      BY DEF Command
    <3> QED
      BY <3>0, HeaderFields DEF IsSegment, IsCut
  <2> HIDE DEF c
  <2>3. ASSUME NEW i \in DOMAIN pending'
        PROVE  (i \in DOMAIN pending /\ pending'[i] = pending[i]) \/ (i = Len(pending) + 1 /\ pending'[i] = c)
    BY <2>1 DEF Proposes
  <2> QED
    BY <1>0, <2>1, <2>2, <2>3 DEF Archived, Proposed
<1>5. CASE Release
  <2> DEFINE c == Command(CutHeader(machine.archive_lsn), 0)
  <2>1. Proposes(c) /\ \A i \in DOMAIN pending : ~IsCut(pending[i])
    BY <1>5, CutProposed
  <2>2. ~IsSegment(c) /\ IsCut(c) /\ c.header.hi = machine.archive_lsn
    <3>0. c.header = CutHeader(machine.archive_lsn)
      BY DEF Command
    <3> QED
      BY <3>0, HeaderFields DEF IsSegment, IsCut
  <2>4. PICK e \in machine.committed : e.header.kind = "Wal" /\ e.header.hi <= machine.archive_lsn
    BY <1>5, CutProposed
  <2>5. e.header.hi \in Nat /\ e.header.hi > 0
    BY <2>4 DEF Archived, Watermarks, Types, Machines, Headers
  <2>6. \E g \in machine.committed : IsSegment(g) /\ g.header.hi = c.header.hi
    BY <1>0, <2>2, <2>4, <2>5 DEF Archived, Watermarks
  <2>7. \A j \in DOMAIN log : IsCut(log[j]) => log[j].header.hi < c.header.hi
    <3> SUFFICES ASSUME NEW j \in DOMAIN log, IsCut(log[j]) PROVE log[j].header.hi < c.header.hi
      OBVIOUS
    <3>1. e.header.hi > log[j].header.hi /\ log[j].header.hi \in Nat
      BY <2>4 DEF Archived, Cuts, Types, Headers
    <3> QED
      BY <1>0, <2>2, <2>4, <2>5, <3>1
  <2> HIDE DEF c
  <2>3. ASSUME NEW i \in DOMAIN pending'
        PROVE  (i \in DOMAIN pending /\ pending'[i] = pending[i]) \/ (i = Len(pending) + 1 /\ pending'[i] = c)
    BY <2>1 DEF Proposes
  <2> QED
    BY <1>0, <2>1, <2>2, <2>3, <2>6, <2>7 DEF Archived, Proposed
<1>6. ASSUME NEW w \in Writers, Start(w) \/ Deliver(w) \/ NotLeader(w) \/ Unreachable(w) \/ GiveUp(w) \/ Reply(w)
      PROVE  pending' = pending
  BY <1>6 DEF Start, Deliver, NotLeader, Unreachable, GiveUp, Reply, Answered
<1>7. ASSUME NEW n \in Nodes, ApplyNext(n) PROVE pending' = pending
  BY <1>7 DEF ApplyNext
<1>8. CASE Commit
  <2>1. Len(log') = Len(log) + 1 /\ Len(log) \in Nat
    BY <1>8, CommitEffect
  <2> QED
    BY <2>1
<1> QED
  BY <1>1, <1>2, <1>3, <1>4, <1>5, <1>6, <1>7, <1>8 DEF Next

LEMMA ArchivedStep ==
    ASSUME Types, Sessions, Headed, Shaped, Filled, Archived, Next
    PROVE  Archived'
<1>1. CASE Commit
  BY <1>1, WatermarksCommit, CutsCommit, ProposedCommit DEF Archived
<1>2. CASE UNCHANGED <<log, machine>>
  <2>1. Watermarks(machine') /\ Cuts(machine', log')
    BY <1>2 DEF Archived
  <2> QED
    BY <1>2, <2>1, ProposedOthers DEF Archived
<1> QED
  BY <1>1, <1>2, FrameStep

-----------------------------------------------------------------------------
(* The refinement: what Commit does is a step of TimelineGroup. *)

LEMMA AbstractStep ==
    ASSUME Types, Shaped, Distinct, Filled, Archived, Commit
    PROVE  log' # log /\ Timeline!Step
<1>1. /\ Len(log) \in Nat /\ Len(pending) \in Nat /\ Len(pending) > 0 /\ Len(log') = Len(log) + 1
  BY CommitEffect, SentBasics
<1>2. Len(log) + Len(pending) <= MaxIndex
  BY IndexBound, SentBasics
<1>a. MaxIndex \in Nat
  <2> DEFINE n == Cardinality(Writers)
             a == MaxAppends + 2
             f == MaxFaults + 1
  <2>1. n \in Nat /\ a \in Nat /\ f \in Nat /\ MaxLsn \in Nat
    BY Numbers, StepNumbers
  <2>2. MaxIndex = 2 + 3 * MaxLsn + n * a * f
    BY DEF MaxIndex
  <2> HIDE DEF n, a, f
  <2>3. n * a \in Nat
    BY <2>1
  <2>4. n * a * f \in Nat
    BY <2>1, <2>3
  <2> QED
    BY <2>1, <2>2, <2>4
<1>3. Len(log) < MaxIndex
  BY <1>1, <1>2, <1>a
<1>4. log' # log
  BY <1>1
<1> QED
  BY <1>1, <1>3, <1>4 DEF Timeline!Step

(* The guards of TimelineGroup are those of Outcome. *)
LEMMA AbstractGuards ==
    ASSUME machine \in Machines, NEW h \in Headers
    PROVE  /\ Timeline!Known(h) <=> machine.retries[h.request].index > 0
           /\ Timeline!SameCommand(h) <=> Same(machine.retries[h.request], h)
           /\ h.kind \in {"TimelineOpen", "WalArchiveBinding", "WriterLease", "Wal", "ReleaseWriter",
                          "ArchiveCheckpoint"} =>
                 (Timeline!EpochValid(h) <=> EpochValid(machine, h))
<1>1. Timeline!Known(h) <=> machine.retries[h.request].index > 0
  BY DEF Timeline!Known
<1>2. Timeline!SameCommand(h) <=> Same(machine.retries[h.request], h)
  BY DEF Timeline!SameCommand, Same
<1>3. h.kind \in {"TimelineOpen", "WalArchiveBinding", "WriterLease", "Wal", "ReleaseWriter", "ArchiveCheckpoint"} =>
         (Timeline!EpochValid(h) <=> EpochValid(machine, h))
  BY DEF Timeline!EpochValid, EpochValid, NoBucket, Timeline!NoBucket, Machines
<1> QED
  BY <1>1, <1>2, <1>3

LEMMA AbstractRefuse ==
    ASSUME Types, Timeline!Step, Commit, ~Taken(machine, pending[1].header), pending[1].header.kind # "ReleaseWal"
    PROVE  Timeline!Refuse(Outcome(machine, pending[1].header))
<1>1. Leaves(machine, pending[1].header, machine')
  BY CommitMachine
<1>2. /\ machine'.archive_lsn = machine.archive_lsn /\ machine'.retries = machine.retries
      /\ machine'.committed = machine.committed
  BY CommitKeeps DEF Keeps
<1> QED
  BY <1>1, <1>2 DEF Timeline!Refuse, Leaves

LEMMA AbstractAccept ==
    ASSUME Types, Timeline!Step, Commit, Taken(machine, pending[1].header)
    PROVE  Timeline!Accept(pending[1].header, ReplyEnd(machine, pending[1].header))
<1>1. Takes(machine, pending[1].header, Len(log) + 1, machine')
  BY CommitMachine
<1>2. machine'.outcome = "Committed"
  BY <1>1 DEF Takes
<1>3. /\ machine'.committed = machine.committed \cup {[index |-> Len(log) + 1, header |-> pending[1].header]}
      /\ machine'.retries = [machine.retries EXCEPT ![pending[1].header.request] =
             IdentityOf(machine, pending[1].header, Len(log) + 1)]
  BY CommitKeeps DEF Keeps
<1> QED
  BY <1>2, <1>3 DEF Timeline!Accept, IdentityOf

(* What is not accepted is answered as a retry, fenced, or refused by the   *)
(* rule of its kind.                                                        *)
LEMMA AbstractOutcome ==
    ASSUME Types, Shaped, Distinct, Filled, Archived, Commit, pending[1].header.kind # "ReleaseWal"
    PROVE  \/ Timeline!AnswerRetry(pending[1].header)
           \/ Timeline!Fence(pending[1].header)
           \/ /\ Timeline!Admitted(pending[1].header)
              /\ \/ /\ pending[1].header.kind = "Wal" /\ pending[1].header.lo # machine.wal_end
                    /\ Timeline!Refuse("WalGap")
                 \/ /\ pending[1].header.kind = "ArchiveCheckpoint"
                    /\ pending[1].header.lo # machine.archive_lsn \/ pending[1].header.hi > machine.wal_end
                    /\ Timeline!Refuse("InvalidArchiveCheckpoint")
                 \/ /\ Taken(machine, pending[1].header)
                    /\ Timeline!Accept(pending[1].header, ReplyEnd(machine, pending[1].header))
<1> DEFINE h == pending[1].header
<1>1. machine \in Machines /\ h \in Headers /\ Shape(pending[1])
  BY FirstShape DEF Types
<1>2. h.kind \in {"TimelineOpen", "WalArchiveBinding", "WriterLease", "Wal", "ReleaseWriter", "ArchiveCheckpoint"}
  BY <1>1, ShapeKinds
<1>3. Timeline!Step
  BY AbstractStep
<1>4. /\ Timeline!Known(h) <=> machine.retries[h.request].index > 0
      /\ Timeline!SameCommand(h) <=> Same(machine.retries[h.request], h)
      /\ Timeline!EpochValid(h) <=> EpochValid(machine, h)
  BY <1>1, <1>2, AbstractGuards
<1>5. CASE Taken(machine, h)
  <2>1. Timeline!Accept(h, ReplyEnd(machine, h))
    BY <1>3, <1>5, AbstractAccept
  <2>2. ~(machine.retries[h.request].index > 0) /\ EpochValid(machine, h)
    BY <1>1, <1>5, OutcomeCases DEF Taken
  <2> QED
    BY <1>4, <1>5, <2>1, <2>2 DEF Timeline!Admitted
<1>6. CASE ~Taken(machine, h)
  <2>1. Timeline!Refuse(Outcome(machine, h)) /\ Outcome(machine, h) # "Committed"
    BY <1>3, <1>6, AbstractRefuse DEF Taken
  <2>2. CASE machine.retries[h.request].index > 0
    <3>1. Outcome(machine, h) = IF Same(machine.retries[h.request], h) THEN "Duplicate" ELSE "ConflictingRetry"
      BY <1>1, <2>2, OutcomeCases
    <3>2. Outcome(machine, h) = IF Timeline!SameCommand(h) THEN "Duplicate" ELSE "ConflictingRetry"
      BY <1>4, <3>1
    <3>3. Timeline!Refuse(IF Timeline!SameCommand(h) THEN "Duplicate" ELSE "ConflictingRetry")
      BY <2>1, <3>2
    <3> QED
      BY <1>4, <2>2, <3>3 DEF Timeline!AnswerRetry
  <2>3. CASE ~(machine.retries[h.request].index > 0) /\ ~EpochValid(machine, h)
    <3>1. Outcome(machine, h) = "StaleWriterEpoch"
      BY <2>3 DEF Outcome
    <3> QED
      BY <1>4, <2>1, <2>3, <3>1 DEF Timeline!Fence
  <2>4. CASE ~(machine.retries[h.request].index > 0) /\ EpochValid(machine, h)
    <3>1. \/ h.kind = "Wal" /\ h.lo # machine.wal_end /\ Outcome(machine, h) = "WalGap"
          \/ /\ h.kind = "ArchiveCheckpoint" /\ (h.lo # machine.archive_lsn \/ h.hi > machine.wal_end)
             /\ Outcome(machine, h) = "InvalidArchiveCheckpoint"
      BY <2>1, <2>4 DEF Outcome
    <3>2. Timeline!Admitted(h)
      BY <1>4, <2>4 DEF Timeline!Admitted
    <3> QED
      BY <2>1, <3>1, <3>2
  <2> QED
    BY <2>2, <2>3, <2>4
<1> QED
  BY <1>5, <1>6

(* Everything but the identity and the header that an accepted command      *)
(* changes.                                                                 *)
LEMMA AbstractFrame ==
    ASSUME Types, Commit, Taken(machine, pending[1].header)
    PROVE  LET h == pending[1].header IN
           /\ machine'.writer_epoch = IF h.kind = "WriterLease" THEN h.epoch ELSE machine.writer_epoch
           /\ machine'.writer_active = ((machine.writer_active \/ h.kind = "WriterLease") /\ h.kind # "ReleaseWriter")
           /\ machine'.bucket = IF h.kind = "WalArchiveBinding" THEN h.bucket ELSE machine.bucket
           /\ machine'.initialized = (machine.initialized \/ h.kind = "TimelineOpen")
           /\ machine'.wal_end = IF h.kind = "Wal" THEN h.hi ELSE machine.wal_end
           /\ machine'.archive_lsn = IF h.kind = "ArchiveCheckpoint" THEN h.hi ELSE machine.archive_lsn
           /\ machine.writer_active \in BOOLEAN /\ machine.initialized \in BOOLEAN
<1>1. Takes(machine, pending[1].header, Len(log) + 1, machine')
  BY CommitMachine
<1>2. Keeps(machine, pending[1].header, Len(log) + 1, machine')
  BY CommitKeeps
<1>3. machine.writer_active \in BOOLEAN /\ machine.initialized \in BOOLEAN
  BY DEF Types, Machines
<1> QED
  BY <1>1, <1>2, <1>3 DEF Takes, Keeps

LEMMA BindingCommit ==
    ASSUME Types, Shaped, Distinct, Filled, Archived, Commit, pending[1].header.kind = "WalArchiveBinding"
    PROVE  Timeline!BindWalArchive
<1> DEFINE h == pending[1].header
<1>1. h = BindingHeader
  BY FirstShape, ShapeKinds
<1>2. h = Timeline!HeaderOf(<<"control", 1>>, "WalArchiveBinding", <<Bucket, 0, 0>>, Timeline!NoEpoch, 0, 0, Bucket)
  BY <1>1 DEF BindingHeader, HeaderOf, Timeline!HeaderOf, Timeline!NoEpoch
<1>3. h.bucket = Bucket
  BY <1>1 DEF BindingHeader, HeaderOf
<1>4. ReplyEnd(machine, h) = 0
  BY DEF ReplyEnd
<1>5. machine.bucket \in {Timeline!NoBucket, h.bucket}
  BY <1>3 DEF Types, Machines, TwoBuckets, NoBucket, Timeline!NoBucket
<1>6. Timeline!EpochValid(h)
  BY FirstShape, AbstractGuards, EpochValidCases DEF Types
<1>7. Timeline!WalArchiveBinding(h)
  <2>1. CASE Timeline!AnswerRetry(h)
    BY <2>1 DEF Timeline!WalArchiveBinding
  <2>2. CASE Timeline!Admitted(h) /\ Taken(machine, h) /\ Timeline!Accept(h, ReplyEnd(machine, h))
    BY <1>4, <1>5, <2>2, AbstractFrame DEF Timeline!WalArchiveBinding
  <2>3. ~Timeline!Fence(h)
    BY <1>6 DEF Timeline!Fence
  <2> QED
    BY <2>1, <2>2, <2>3, AbstractOutcome
<1> QED
  BY <1>2, <1>7, RequestNames DEF Timeline!BindWalArchive

LEMMA OpenCommit ==
    ASSUME Types, Shaped, Distinct, Filled, Archived, Commit, pending[1].header.kind = "TimelineOpen"
    PROVE  Timeline!OpenTimelineRequest
<1> DEFINE h == pending[1].header
<1>1. h = OpenHeader
  BY FirstShape, ShapeKinds
<1>2. h = Timeline!HeaderOf(<<"control", 2>>, "TimelineOpen", Timeline!EmptyHash, Timeline!NoEpoch, 0, 0, Timeline!NoBucket)
  BY <1>1 DEF OpenHeader, HeaderOf, EmptyHash, NoBucket, Timeline!HeaderOf, Timeline!NoEpoch, Timeline!EmptyHash,
              Timeline!NoBucket
<1>3. h.lo = 0 /\ h.request = <<"control", 2>>
  BY <1>1 DEF OpenHeader, HeaderOf
<1>4. ReplyEnd(machine, h) = 0
  BY DEF ReplyEnd
<1>5. 0 \in Timeline!Lsn
  BY Numbers DEF Timeline!Lsn
<1>6. Timeline!TimelineOpen(h)
  <2>1. CASE Timeline!AnswerRetry(h)
    BY <2>1 DEF Timeline!TimelineOpen
  <2>2. CASE Timeline!Fence(h)
    BY <2>2 DEF Timeline!TimelineOpen
  <2>3. CASE Timeline!Admitted(h) /\ Taken(machine, h) /\ Timeline!Accept(h, ReplyEnd(machine, h))
    <3>1. ~(machine.retries[h.request].index > 0)
      BY <2>3, FirstShape, AbstractGuards DEF Timeline!Admitted, Types
    <3>2. ~machine.initialized /\ machine.wal_end = 0 /\ machine.archive_lsn <= 0
      BY <1>3, <3>1 DEF Archived, Watermarks
    <3>3. machine.archive_lsn = 0
      BY <3>2, MachineNumbers
    <3>4. /\ machine'.initialized = TRUE /\ machine'.writer_active = machine.writer_active
          /\ machine'.writer_epoch = machine.writer_epoch /\ machine'.bucket = machine.bucket
          /\ machine'.wal_end = 0 /\ machine'.archive_lsn = 0
      BY <2>3, <3>2, <3>3, AbstractFrame
    <3>5. Timeline!Accept(h, h.lo) /\ Timeline!Admitted(h)
      BY <1>3, <1>4, <2>3
    <3> HIDE DEF h
    <3> QED
      BY <1>3, <3>2, <3>4, <3>5 DEF Timeline!TimelineOpen
  <2> QED
    BY <2>1, <2>2, <2>3, AbstractOutcome
<1> QED
  BY <1>2, <1>5, <1>6, RequestNames DEF Timeline!OpenTimelineRequest

LEMMA LeaseCommit ==
    ASSUME Types, Shaped, Distinct, Leased, Filled, Archived, Commit, pending[1].header.kind = "WriterLease"
    PROVE  Timeline!AcquireWriter
<1> DEFINE h == pending[1].header
<1>1. PICK w \in Writers : h.epoch > 0 /\ h = LeaseHeader(w, h.epoch)
  BY FirstShape, ShapeKinds
<1>2. h.epoch \in Nat /\ machine.writer_epoch \in Nat
  BY FirstShape, MachineNumbers DEF Headers
<1>3. h.epoch <= machine.writer_epoch + 1
  <2>1. 1 \in DOMAIN pending
    BY CommitEffect
  <2>2. PICK i \in 1 .. Total : Sent(i) = pending[1]
    BY <2>1, SentBasics
  <2> QED
    BY <2>2 DEF Leased
<1>4. machine.writer_epoch <= Cardinality(Writers) /\ MaxEpoch = Cardinality(Writers) + 1 /\ Cardinality(Writers) \in Nat
  BY EpochBound, Numbers
<1> DEFINE seen == h.epoch - 1
<1>5. seen \in 0 .. machine.writer_epoch /\ seen < MaxEpoch /\ seen + 1 = h.epoch
  BY <1>1, <1>2, <1>3, <1>4
<1>6. h = Timeline!HeaderOf(<<w, 0>>, "WriterLease", <<w, 0, 0>>, h.epoch, 0, 0, Timeline!NoBucket)
  BY <1>1 DEF LeaseHeader, HeaderOf, NoBucket, Timeline!HeaderOf, Timeline!NoBucket
<1>7. ReplyEnd(machine, h) = machine.wal_end
  BY DEF ReplyEnd
<1>8. Timeline!WriterLease(h)
  <2>1. CASE Timeline!AnswerRetry(h)
    BY <2>1 DEF Timeline!WriterLease
  <2>2. CASE Timeline!Fence(h)
    BY <2>2 DEF Timeline!WriterLease
  <2>3. CASE Timeline!Admitted(h) /\ Taken(machine, h) /\ Timeline!Accept(h, ReplyEnd(machine, h))
    <3>1. /\ machine'.initialized = machine.initialized /\ machine'.writer_active = TRUE
          /\ machine'.writer_epoch = h.epoch /\ machine'.bucket = machine.bucket
          /\ machine'.wal_end = machine.wal_end /\ machine'.archive_lsn = machine.archive_lsn
      BY <2>3, AbstractFrame
    <3>2. Timeline!Accept(h, machine.wal_end) /\ Timeline!Admitted(h)
      BY <1>7, <2>3
    <3> HIDE DEF h
    <3> QED
      BY <3>1, <3>2 DEF Timeline!WriterLease
  <2> QED
    BY <2>1, <2>2, <2>3, AbstractOutcome
<1>9. <<w, 0>> \in Requests
  BY RequestNames, StepNumbers
<1>10. seen < MaxEpoch /\
       Timeline!WriterLease(Timeline!HeaderOf(<<w, 0>>, "WriterLease", <<w, 0, 0>>, seen + 1, 0, 0, Timeline!NoBucket))
  BY <1>5, <1>6, <1>8
<1> HIDE DEF seen, h
<1> QED
  BY <1>5, <1>9, <1>10 DEF Timeline!AcquireWriter

(* An epoch on its way is at most one ahead of the machine. *)
LEMMA FirstEpoch ==
    ASSUME Types, Shaped, Leased, Commit
    PROVE  pending[1].header.epoch \in Timeline!Epoch
<1> DEFINE h == pending[1].header
<1>1. h.epoch \in Nat /\ machine.writer_epoch \in Nat
  BY FirstShape, MachineNumbers DEF Headers
<1>2. 1 \in DOMAIN pending
  BY CommitEffect
<1>3. PICK i \in 1 .. Total : Sent(i) = pending[1]
  BY <1>2, SentBasics
<1>4. h.epoch <= machine.writer_epoch + 1
  BY <1>3 DEF Leased
<1>5. machine.writer_epoch <= Cardinality(Writers) /\ MaxEpoch = Cardinality(Writers) + 1 /\ Cardinality(Writers) \in Nat
  BY EpochBound, Numbers
<1> QED
  BY <1>1, <1>4, <1>5 DEF Timeline!Epoch

(* An append ends within the LSNs. *)
LEMMA FirstRange ==
    ASSUME Types, Headed, Granted, Truthful, Shaped, Filled, Commit, pending[1].header.kind = "Wal"
    PROVE  /\ pending[1].header.lo \in Timeline!Lsn /\ pending[1].header.hi \in Timeline!Lsn
           /\ pending[1].header.hi = pending[1].header.lo + 1
<1> DEFINE h == pending[1].header
<1>1. PICK w \in Writers, k \in Appends : h = WalHeader(w, k, h.epoch, h.lo)
  BY FirstShape, ShapeKinds
<1>2. h.request = <<w, k>>
  BY <1>1, HeaderFields
<1>3. h \in Headers /\ Built(session, answer, h)
  BY CommitGrows, FirstShape
<1>4. BuiltBy(session, answer, w, k, h)
  <2>1. w # "control" /\ w # "archive"
    BY Names
  <2> QED
    BY <1>2, <1>3, <2>1 DEF Built, ByControl, ByArchiver, BuiltBy
<1>5. /\ h.lo = session[w].first + k - 1 /\ h.hi = h.lo + 1 /\ Told(w, 0, Replied)
  BY <1>4, StepNumbers DEF BuiltBy, Appends, Told
<1>6. Has(machine, w, 0) /\ session[w].first = Ident(machine, w, 0).wal_end
  BY <1>5, StepNumbers DEF Truthful
<1>7. session[w].first \in Nat /\ session[w].first + MaxAppends <= MaxLsn
  BY <1>6, RoomForAppends
<1>8. k \in 1 .. MaxAppends /\ MaxAppends \in Nat /\ MaxLsn \in Nat
  BY Numbers, StepNumbers DEF Appends
<1> HIDE DEF h
<1>9. h.lo \in Nat /\ h.hi \in Nat /\ h.lo <= MaxLsn /\ h.hi <= MaxLsn /\ h.hi = h.lo + 1
  BY <1>5, <1>7, <1>8
<1> QED
  BY <1>8, <1>9 DEF Timeline!Lsn, h

LEMMA WalCommit ==
    ASSUME Types, Headed, Granted, Truthful, Shaped, Distinct, Leased, Filled, Archived, Commit,
           pending[1].header.kind = "Wal"
    PROVE  Timeline!AppendWal
<1> DEFINE h == pending[1].header
<1>1. PICK w \in Writers, k \in Appends : h = WalHeader(w, k, h.epoch, h.lo)
  BY FirstShape, ShapeKinds
<1>2. h.lo \in Timeline!Lsn /\ h.hi \in Timeline!Lsn /\ h.hi = h.lo + 1
  BY FirstRange
<1>3. h.epoch \in Timeline!Epoch
  BY FirstEpoch
<1>4. h.lo \in Nat /\ h.hi - h.lo = 1 /\ h.lo <= h.hi
  BY <1>2, Numbers DEF Timeline!Lsn
<1>5. h = Timeline!HeaderOf(<<w, k>>, "Wal", <<w, 0, 1>>, h.epoch, h.lo, h.lo + 1, Timeline!NoBucket)
  BY <1>1 DEF WalHeader, HeaderOf, NoBucket, Timeline!HeaderOf, Timeline!NoBucket
<1>6. ReplyEnd(machine, h) = h.hi
  BY DEF ReplyEnd
<1>7. Timeline!Wal(h)
  <2>1. CASE Timeline!AnswerRetry(h)
    BY <2>1 DEF Timeline!Wal
  <2>2. CASE Timeline!Fence(h)
    BY <2>2 DEF Timeline!Wal
  <2>3. CASE Timeline!Admitted(h) /\ h.lo # machine.wal_end /\ Timeline!Refuse("WalGap")
    BY <2>3 DEF Timeline!Wal
  <2>4. CASE Timeline!Admitted(h) /\ Taken(machine, h) /\ Timeline!Accept(h, ReplyEnd(machine, h))
    <3>1. /\ machine'.initialized = machine.initialized /\ machine'.writer_active = machine.writer_active
          /\ machine'.writer_epoch = machine.writer_epoch /\ machine'.bucket = machine.bucket
          /\ machine'.wal_end = h.hi /\ machine'.archive_lsn = machine.archive_lsn
      BY <2>4, AbstractFrame
    <3>2. Timeline!Accept(h, h.hi) /\ Timeline!Admitted(h)
      BY <1>6, <2>4
    <3>3. h.lo = machine.wal_end
      BY <2>4, FirstShape, OutcomeCases DEF Taken, Types
    <3> HIDE DEF h
    <3> QED
      BY <3>1, <3>2, <3>3 DEF Timeline!Wal
  <2> QED
    BY <2>1, <2>2, <2>3, <2>4, AbstractOutcome
<1>8. <<w, k>> \in Requests
  BY RequestNames, StepNumbers
<1>9. Timeline!Wal(Timeline!HeaderOf(<<w, k>>, "Wal", <<w, 0, h.hi - h.lo>>, h.epoch, h.lo, h.hi, Timeline!NoBucket))
  BY <1>2, <1>4, <1>5, <1>7
<1> HIDE DEF h
<1> QED
  BY <1>2, <1>3, <1>4, <1>8, <1>9 DEF Timeline!AppendWal

LEMMA EndCommit ==
    ASSUME Types, Shaped, Distinct, Leased, Filled, Archived, Commit, pending[1].header.kind = "ReleaseWriter"
    PROVE  Timeline!ReleaseWriterRequest
<1> DEFINE h == pending[1].header
<1>1. PICK w \in Writers : h = EndHeader(w, h.epoch)
  BY FirstShape, ShapeKinds
<1>2. h.epoch \in Timeline!Epoch
  BY FirstEpoch
<1>3. h = Timeline!HeaderOf(<<w, MaxAppends + 1>>, "ReleaseWriter", Timeline!EmptyHash, h.epoch, 0, 0, Timeline!NoBucket)
  BY <1>1 DEF EndHeader, HeaderOf, EmptyHash, NoBucket, Timeline!HeaderOf, Timeline!EmptyHash, Timeline!NoBucket
<1>4. ReplyEnd(machine, h) = 0
  BY DEF ReplyEnd
<1>5. Timeline!ReleaseWriter(h)
  <2>1. CASE Timeline!AnswerRetry(h)
    BY <2>1 DEF Timeline!ReleaseWriter
  <2>2. CASE Timeline!Fence(h)
    BY <2>2 DEF Timeline!ReleaseWriter
  <2>3. CASE Timeline!Admitted(h) /\ Taken(machine, h) /\ Timeline!Accept(h, ReplyEnd(machine, h))
    <3>1. /\ machine'.initialized = machine.initialized /\ machine'.writer_active = FALSE
          /\ machine'.writer_epoch = machine.writer_epoch /\ machine'.bucket = machine.bucket
          /\ machine'.wal_end = machine.wal_end /\ machine'.archive_lsn = machine.archive_lsn
      BY <2>3, AbstractFrame
    <3>2. Timeline!Accept(h, 0) /\ Timeline!Admitted(h)
      BY <1>4, <2>3
    <3> HIDE DEF h
    <3> QED
      BY <3>1, <3>2 DEF Timeline!ReleaseWriter
  <2> QED
    BY <2>1, <2>2, <2>3, AbstractOutcome
<1>6. <<w, MaxAppends + 1>> \in Requests
  BY RequestNames, StepNumbers
<1> HIDE DEF h
<1> QED
  BY <1>2, <1>3, <1>5, <1>6 DEF Timeline!ReleaseWriterRequest

LEMMA SegmentCommit ==
    ASSUME Types, Shaped, Distinct, Filled, Archived, Commit, pending[1].header.kind = "ArchiveCheckpoint"
    PROVE  Timeline!ArchiveRequest
<1> DEFINE h == pending[1].header
<1>1. h = SegmentHeader(h.lo, h.hi) /\ h \in Headers
  BY FirstShape, ShapeKinds
<1>2. /\ Taken(machine, h) /\ h.lo = machine.archive_lsn /\ h.hi <= machine.wal_end
      /\ h.lo < h.hi /\ h.hi \in 1 .. MaxLsn
  BY SegmentTaken DEF IsSegment
<1>3. h.lo \in Timeline!Lsn /\ h.hi \in Timeline!Lsn
  BY <1>1, <1>2, Numbers DEF Timeline!Lsn, Headers
<1>4. h = Timeline!HeaderOf(<<"archive", h.hi>>, "ArchiveCheckpoint", <<Timeline!NoBucket, h.lo, h.hi>>,
                            Timeline!NoEpoch, h.lo, h.hi, Timeline!NoBucket)
  BY <1>1 DEF SegmentHeader, HeaderOf, NoBucket, Timeline!HeaderOf, Timeline!NoEpoch, Timeline!NoBucket
<1>5. ReplyEnd(machine, h) = 0
  BY DEF ReplyEnd
<1>6. Timeline!ArchiveCheckpoint(h)
  <2>1. /\ machine'.initialized = machine.initialized /\ machine'.writer_active = machine.writer_active
        /\ machine'.writer_epoch = machine.writer_epoch /\ machine'.bucket = machine.bucket
        /\ machine'.wal_end = machine.wal_end /\ machine'.archive_lsn = h.hi
    BY <1>2, AbstractFrame
  <2>2. Timeline!Accept(h, 0)
    BY <1>2, <1>5, AbstractStep, AbstractAccept
  <2>3. Timeline!Admitted(h)
    <3>1. ~(machine.retries[h.request].index > 0) /\ EpochValid(machine, h)
      BY <1>1, <1>2, OutcomeCases DEF Taken, Types
    <3> QED
      BY <1>1, <3>1, AbstractGuards DEF Timeline!Admitted, Types
  <2> HIDE DEF h
  <2> QED
    BY <1>2, <2>1, <2>2, <2>3 DEF Timeline!ArchiveCheckpoint
<1>7. <<"archive", h.hi>> \in Requests
  BY <1>2 DEF Requests
<1> HIDE DEF h
<1> QED
  BY <1>2, <1>3, <1>4, <1>6, <1>7 DEF Timeline!ArchiveRequest

LEMMA CutCommit ==
    ASSUME Types, Shaped, Distinct, Filled, Archived, Commit, pending[1].header.kind = "ReleaseWal"
    PROVE  Timeline!ReleaseRequest
<1> DEFINE h == pending[1].header
<1>1. 1 \in DOMAIN pending /\ IsCut(pending[1]) /\ h \in Headers
  BY CommitEffect DEF IsCut
<1>2. PICK e \in machine.committed : IsSegment(e) /\ e.header.hi = h.hi
  BY <1>1 DEF Archived, Proposed
<1>3. h.hi <= machine.archive_lsn
  BY <1>1 DEF Archived, Proposed
<1>4. ~Taken(machine, h)
  BY DEF Taken
<1>5. /\ machine'.outcome = "Committed" /\ machine'.writer_epoch = machine.writer_epoch
      /\ machine'.writer_active = machine.writer_active /\ machine'.bucket = machine.bucket
      /\ machine'.initialized = machine.initialized /\ machine'.wal_end = machine.wal_end
  BY <1>4, CommitMachine DEF Leaves
<1>6. /\ machine'.archive_lsn = machine.archive_lsn /\ machine'.retries = machine.retries
      /\ machine'.committed = {f \in machine.committed : f.header.kind = "Wal" => f.header.hi > h.hi}
  BY <1>4, CommitKeeps DEF Keeps
<1>7. machine'.committed = machine.committed \ Timeline!Compacted(h.hi)
  <2>1. \A f \in machine.committed : f.header.hi \in Nat
    BY DEF Types, Machines, Headers
  <2>2. h.hi \in Nat
    BY <1>1 DEF Headers
  <2> HIDE DEF h
  <2> QED
    BY <1>6, <2>1, <2>2 DEF Timeline!Compacted
<1>8. Timeline!ReleaseWal(h.hi)
  <2>1. Timeline!Step
    BY AbstractStep
  <2> HIDE DEF h
  <2> QED
    BY <1>3, <1>5, <1>6, <1>7, <2>1 DEF Timeline!ReleaseWal
<1>9. e.header.kind = "ArchiveCheckpoint" /\ Timeline!ReleaseWal(e.header.hi)
  BY <1>2, <1>8 DEF IsSegment
<1> QED
  BY <1>9 DEF Timeline!ReleaseRequest

(* The invariant of the refinement. *)
Bounded == Shaped /\ Distinct /\ Fresh /\ Leased /\ Filled /\ Archived
RInv == IInv /\ Bounded

LEMMA CommitRefines ==
    ASSUME RInv, Commit
    PROVE  log' # log /\ Timeline!Next
<1>1. /\ Types /\ Headed /\ Granted /\ Truthful
      /\ Shaped /\ Distinct /\ Leased /\ Filled /\ Archived
  BY DEF RInv, Bounded, IInv
<1>2. pending[1].header.kind \in {"WriterLease", "Wal", "ReleaseWriter", "WalArchiveBinding", "TimelineOpen",
                                  "ArchiveCheckpoint", "ReleaseWal"}
  BY <1>1, FirstShape, ShapeKinds
<1>3. \/ Timeline!OpenTimelineRequest \/ Timeline!BindWalArchive \/ Timeline!AcquireWriter \/ Timeline!AppendWal
      \/ Timeline!ReleaseWriterRequest \/ Timeline!ArchiveRequest \/ Timeline!ReleaseRequest
  BY <1>1, <1>2, BindingCommit, OpenCommit, LeaseCommit, WalCommit, EndCommit, SegmentCommit, CutCommit
<1> QED
  BY <1>1, <1>3, AbstractStep DEF Timeline!Next

(* At the start the two creation commands are on their way. *)
LEMMA InitBounded ==
    ASSUME Init, Types
    PROVE  Bounded
<1> DEFINE p == Command(BindingHeader, 0)
           q == Command(OpenHeader, 0)
<1>1. /\ log = <<>> /\ machine = Empty /\ pending = <<p, q>> /\ call = [w \in Writers |-> NoCall]
      /\ session = [w \in Writers |-> [step |-> 0, epoch |-> 0, first |-> 0]] /\ faults = 0
  BY DEF Init, BindingHeader, OpenHeader
<1>2. /\ p.header = BindingHeader /\ q.header = OpenHeader /\ p.try = 0 /\ q.try = 0
  BY DEF Command
<1>3. /\ p.header.request = <<"control", 1>> /\ p.header.kind = "WalArchiveBinding"
      /\ q.header.request = <<"control", 2>> /\ q.header.kind = "TimelineOpen"
      /\ p.header.epoch = 0 /\ q.header.epoch = 0
  BY <1>2, HeaderFields DEF BindingHeader, OpenHeader, HeaderOf
<1> HIDE DEF p, q
<1>4. Len(log) = 0 /\ Len(pending) = 2 /\ pending[1] = p /\ pending[2] = q /\ Total = 2 /\ DOMAIN pending = 1 .. 2
      /\ DOMAIN log = {}
  BY <1>1 DEF Total
<1>5. Sent(1) = p /\ Sent(2) = q /\ \A i \in 1 .. Total : i = 1 \/ i = 2
  BY <1>4 DEF Sent
<1>6. /\ machine.writer_epoch = 0 /\ machine.wal_end = 0 /\ machine.archive_lsn = 0 /\ machine.committed = {}
      /\ machine.initialized = FALSE /\ machine.writer_active = FALSE
      /\ \A r \in Requests : machine.retries[r].index = 0
  BY <1>1 DEF Empty, NoIdentity
<1>7. Shaped
  BY <1>1, <1>2, <1>5 DEF Shaped, Shape, ByOthers
<1>8. Distinct
  <2>1. Key(p) # Key(q)
    BY <1>3 DEF Key
  <2> QED
    BY <1>5, <2>1 DEF Distinct
<1>9. Fresh
  <2>1. \A w \in Writers : \A k : p.header.request # <<w, k>> /\ q.header.request # <<w, k>>
    BY <1>3, Names
  <2>2. \A w \in Writers : call[w].try = 0
    BY <1>1 DEF NoCall
  <2> QED
    BY <1>1, <1>5, <2>1, <2>2 DEF Fresh, FreshCall
<1>10. Leased
  <2>1. \A w \in Writers : call[w].epoch = 0 /\ call[w].at = "idle"
    BY <1>1 DEF NoCall
  <2>2. \A i \in 1 .. Total : Sent(i).header.epoch = 0
    BY <1>3, <1>5
  <2>3. 1 .. machine.writer_epoch = {}
    BY <1>6
  <2> QED
    BY <1>4, <1>6, <2>1, <2>2, <2>3 DEF Leased
<1>11. Filled
  BY <1>6 DEF Filled
<1>12. Archived
  <2>1. Watermarks(machine)
    <3>1. \A x \in 1 .. MaxLsn : <<"archive", x>> \in Requests
      BY DEF Requests
    <3> QED
      BY <1>6, <3>1 DEF Watermarks
  <2>2. Cuts(machine, log)
    BY <1>4 DEF Cuts
  <2>3. \A i \in DOMAIN pending : ~IsSegment(pending[i]) /\ ~IsCut(pending[i])
    BY <1>3, <1>4 DEF IsSegment, IsCut
  <2>4. Proposed(machine, log, pending)
    BY <2>3 DEF Proposed
  <2> QED
    BY <2>1, <2>2, <2>4 DEF Archived
<1> QED
  BY <1>7, <1>8, <1>9, <1>10, <1>11, <1>12 DEF Bounded

LEMMA BoundedStep ==
    ASSUME RInv, Next
    PROVE  Bounded'
<1>1. Types /\ Sessions /\ Headed /\ Logged /\ Granted /\ Truthful
  BY DEF RInv, IInv
<1>2. Shaped /\ Distinct /\ Fresh /\ Leased /\ Filled /\ Archived
  BY DEF RInv, Bounded
<1> QED
  BY <1>1, <1>2, ShapedStep, DistinctStep, FreshStep, LeasedStep, FilledStep, ArchivedStep DEF Bounded

LEMMA BoundedStutter ==
    ASSUME Bounded, UNCHANGED vars
    PROVE  Bounded'
<1>1. UNCHANGED <<log, machine, pending, call, session, faults>>
  BY DEF vars
<1>2. Shaped' /\ Distinct'
  BY <1>1 DEF Bounded, Shaped, Distinct, Total, Sent
<1>3. Fresh' /\ Leased'
  BY <1>1 DEF Bounded, Fresh, FreshCall, Leased, Total, Sent
<1>4. Filled' /\ Archived'
  BY <1>1 DEF Bounded, Filled, Archived
<1> QED
  BY <1>2, <1>3, <1>4 DEF Bounded

-----------------------------------------------------------------------------
(* The bounds of the model are never the reason why a command is missing:   *)
(* the log and the proposals of the leader hold no two commands with the    *)
(* same request and attempt, every epoch up to the current one is some      *)
(* writer's lease, every LSN up to the tail is the end of some append, and  *)
(* the archiver has one checkpoint and one compaction in flight, each above *)
(* the ones before (submit_with_timeout, acquire_writer, commit_header,     *)
(* archive_checkpoint).                                                     *)
THEOREM BoundsInvariance == Spec => []RInv
<1>1. Init /\ IInv => Bounded
  <2>1. IInv => Types
    BY DEF IInv
  <2> QED
    BY <2>1, InitBounded
<1>2. IInv /\ Bounded /\ [Next]_vars => Bounded'
  <2>1. ASSUME IInv, Bounded, Next PROVE Bounded'
    BY <2>1, BoundedStep DEF RInv
  <2>2. ASSUME Bounded, UNCHANGED vars PROVE Bounded'
    BY <2>2, BoundedStutter
  <2> QED
    BY <2>1, <2>2
<1>3. IInv /\ Bounded => RInv
  BY DEF RInv
<1> QED
  BY <1>1, <1>2, <1>3, Invariance, PTL DEF Spec

(* Routing implements the timeline's state machine: whatever the ingresses  *)
(* resend, the leaders lose and the archiver compacts, each command that a  *)
(* quorum commits is one that TimelineGroup may apply, with the same        *)
(* outcome and the same state after it, and nothing else changes the log or *)
(* the machine (PersistentStateMachine::apply under submit_with_timeout).   *)
THEOREM RefinesTimeline == Spec => Implements
<1>1. Init => Timeline!Init
  <2> SUFFICES ASSUME Init PROVE Timeline!Init
    OBVIOUS
  <2>1. Timeline!NoIdentity = NoIdentity /\ Timeline!NoBucket = NoBucket
    BY DEF NoBucket, NoIdentity, EmptyHash,
           Timeline!NoBucket, Timeline!NoIdentity, Timeline!EmptyHash, Timeline!NoEpoch
  <2>2. Len(log) = 0 /\ machine = Empty
    BY DEF Init
  <2>3. /\ machine.writer_epoch = 0 /\ machine.writer_active = FALSE /\ machine.bucket = NoBucket
        /\ machine.initialized = FALSE /\ machine.wal_end = 0 /\ machine.archive_lsn = 0
        /\ machine.committed = {} /\ machine.retries = [r \in Requests |-> NoIdentity]
        /\ machine.outcome = "Committed"
    BY <2>2 DEF Empty
  <2> QED
    BY <2>1, <2>2, <2>3 DEF Timeline!Init
<1>2. RInv /\ [Next]_vars => [log' # log /\ Timeline!Next]_<<log, machine>>
  <2>1. ASSUME RInv, Next PROVE [log' # log /\ Timeline!Next]_<<log, machine>>
    BY <2>1, FrameStep, CommitRefines
  <2>2. ASSUME UNCHANGED vars PROVE [log' # log /\ Timeline!Next]_<<log, machine>>
    BY <2>2 DEF vars
  <2> QED
    BY <2>1, <2>2
<1> QED
  BY <1>1, <1>2, BoundsInvariance, PTL DEF Spec, Implements
=============================================================================

--------------------------- MODULE WalArchive_proofs ---------------------------
(***************************************************************************)
(* For every number of nodes, archive tasks and faults, and every segment  *)
(* size: archiving and reclaiming never loses a committed byte, segments   *)
(* tile the archived prefix, a reported flush is durable and a composed    *)
(* read is exact.                                                          *)
(***************************************************************************)
EXTENDS WalArchive, TLAPS

In(x, r) == r.start <= x /\ x < r.end

\* The watermarks are ordered; a reported flush is below the watermark.
Watermarks == archive_lsn <= wal_end /\ flushed <= archive_lsn

\* Segments end below the watermark, cover everything below it, and do not meet.
Tiled ==
    /\ \A s \in segments : s.end <= archive_lsn
    /\ \A x \in Lsn : x < archive_lsn => \E s \in segments : In(x, s)
    /\ \A s, t \in segments : s # t => s.end <= t.start \/ t.end <= s.start

\* A committed segment names an object; its request is behind the watermark.
Named ==
    /\ segments \subseteq objects
    /\ \A q \in requests : q[2].end <= archive_lsn

\* Above the watermark every byte has its payload.
Held ==
    \A x \in Lsn : archive_lsn <= x /\ x < wal_end =>
        \E h \in retained \cap payload : In(x, h)

\* How far a task has come: it commits what it has uploaded, and it releases
\* what is committed.
Tasks ==
    \A n \in Nodes :
        /\ task[n].at \in {"read", "upload"} => task[n].range \in Range
        /\ task[n].at \in {"verify", "commit", "release", "prune", "confirm"} =>
               task[n].range \in objects
        /\ task[n].at \in {"release", "prune", "confirm"} =>
               task[n].range.end <= archive_lsn

\* A read has split its range at the watermark of its plan.
Planned(x) == reader.want.start <= x /\ x < reader.want.end
Reading ==
    /\ reader.at = "idle" => reader.prefix = {} /\ reader.tail = {}
    /\ reader.at \in {"segments", "tail", "resolve", "objects"} => reader.prefix = {}
    /\ reader.at \in {"resolve", "objects"} =>
           \A x \in Lsn : x \in reader.tail <=> Planned(x) /\ x >= reader.mark
    /\ reader.at = "done" =>
           /\ \A x \in Lsn : x \in reader.prefix \/ x \in reader.tail <=> Planned(x)
           /\ \A x \in Lsn : ~(x \in reader.prefix /\ x \in reader.tail)

IInv == TypeOK /\ Watermarks /\ Tiled /\ Named /\ Held /\ Tasks /\ Reading

-----------------------------------------------------------------------------
\* An unopened archive satisfies the invariant.
LEMMA InitIInv == Init => IInv
<1> SUFFICES ASSUME Init PROVE IInv
  OBVIOUS
<1> USE ArchiveAssumption
<1>1. 0 \in Lsn
  BY DEF Lsn
<1>2. TypeOK
  BY <1>1 DEF Init, TypeOK, NoTask, NoRead, NoRange, Steps
<1>3. Watermarks /\ Tiled /\ Named /\ Held
  BY DEF Init, Watermarks, Tiled, Named, Held, Lsn
<1>4. Tasks
  BY DEF Init, Tasks, NoTask
<1>5. Reading
  BY DEF Init, Reading, NoRead
<1> QED BY <1>2, <1>3, <1>4, <1>5 DEF IInv

\* The parts of the invariant about the group depend on these variables only.
LEMMA GroupUnchanged ==
    ASSUME IInv, UNCHANGED <<group, objects>>
    PROVE  Tiled' /\ Named' /\ Held'
BY DEF IInv, group, Tiled, Named, Held, In

\* The archived prefix grows at its end.
LEMMA CommitFacts ==
    ASSUME IInv, NEW r \in Range, Contiguous(r), archive_lsn' = r.end,
           segments' = segments \cup {r}
    PROVE  Tiled'
<1> USE ArchiveAssumption
<1>0. archive_lsn \in Nat /\ r.start \in Nat /\ r.end \in Nat /\ r.start < r.end /\ r.start = archive_lsn
  BY DEF IInv, TypeOK, Lsn, Range, Contiguous
<1>1. \A s \in segments : s.start \in Nat /\ s.end \in Nat /\ s.end <= archive_lsn
  BY DEF IInv, TypeOK, Range, Lsn, Tiled
<1>2. \A s \in segments' : s.end <= archive_lsn'
  BY <1>0, <1>1
<1>3. ASSUME NEW x \in Lsn, x < archive_lsn' PROVE \E s \in segments' : In(x, s)
  <2>1. CASE x < archive_lsn
    BY <2>1 DEF IInv, Tiled
  <2>2. CASE ~(x < archive_lsn)
    BY <1>0, <1>3, <2>2 DEF In, Lsn
  <2> QED BY <2>1, <2>2
<1>4. \A s, t \in segments' : s # t => s.end <= t.start \/ t.end <= s.start
  BY <1>0, <1>1 DEF IInv, Tiled
<1> QED BY <1>2, <1>3, <1>4 DEF Tiled

\* The rest of the state, when only tasks, the reported flush, the leader and
\* the fault count change.
TaskTypes ==
    /\ leader \in Nodes
    /\ task \in [Nodes -> [at : Steps, tail : BOOLEAN, range : Range \cup {NoRange}]]
    /\ flushed \in Lsn
    /\ faults \in 0 .. MaxFaults

\* A step of a task that leaves the group, the bucket and the reader alone.
LEMMA TaskOnly ==
    ASSUME IInv, UNCHANGED <<group, objects, reader>>,
           TaskTypes', flushed' <= archive_lsn, Tasks'
    PROVE  IInv'
<1>1. TypeOK'
  BY DEF IInv, TypeOK, TaskTypes, group
<1>2. Watermarks'
  BY DEF IInv, Watermarks, group
<1>3. Reading'
  BY DEF IInv, Reading, Planned
<1> QED BY <1>1, <1>2, <1>3, GroupUnchanged DEF IInv

\* Task n becomes t, and nothing else changes.
Becomes(n, t) ==
    /\ task' = [task EXCEPT ![n] = t]
    /\ t \in [at : Steps, tail : BOOLEAN, range : Range \cup {NoRange}]
    /\ t.at \in {"read", "upload"} => t.range \in Range
    /\ t.at \in {"verify", "commit", "release", "prune", "confirm"} => t.range \in objects
    /\ t.at \in {"release", "prune", "confirm"} => t.range.end <= archive_lsn

\* Such a step keeps the invariant.
LEMMA BecomesIInv ==
    ASSUME IInv, NEW n \in Nodes, NEW t, Becomes(n, t),
           UNCHANGED <<group, objects, leader, reader>>,
           flushed' \in Lsn, flushed' <= archive_lsn, faults' \in 0 .. MaxFaults
    PROVE  IInv'
<1>1. TaskTypes'
  BY DEF IInv, TypeOK, TaskTypes, Becomes
<1>2. Tasks'
  BY DEF IInv, TypeOK, Tasks, Becomes, group
<1> QED BY <1>1, <1>2, TaskOnly

\* What Goto, Ends and Retry do to a task that is not yet uploading.
LEMMA Plain ==
    ASSUME IInv, NEW n \in Nodes
    PROVE  /\ NoTask \in [at : Steps, tail : BOOLEAN, range : Range \cup {NoRange}]
           /\ task[n] \in [at : Steps, tail : BOOLEAN, range : Range \cup {NoRange}]
           /\ Ends(n) => Becomes(n, NoTask)
           /\ Goto(n, "status") => \E t : Becomes(n, t)
           /\ Retry(n) => \E t : Becomes(n, t)
<1>1. NoTask \in [at : Steps, tail : BOOLEAN, range : Range \cup {NoRange}]
  BY DEF NoTask, Steps
<1>2. task[n] \in [at : Steps, tail : BOOLEAN, range : Range \cup {NoRange}]
  BY DEF IInv, TypeOK
<1>3. Ends(n) => Becomes(n, NoTask)
  BY <1>1 DEF Ends, Becomes, NoTask
<1>4. ASSUME Goto(n, "status") PROVE \E t : Becomes(n, t)
  <2> DEFINE t == [task[n] EXCEPT !.at = "status"]
  <2>1. t \in [at : Steps, tail : BOOLEAN, range : Range \cup {NoRange}] /\ t.at = "status"
    BY <1>2 DEF Steps
  <2>2. task' = [task EXCEPT ![n] = t]
    BY <1>4 DEF Goto
  <2> QED BY <2>1, <2>2 DEF Becomes
<1>5. Retry(n) => \E t : Becomes(n, t)
  BY <1>3, <1>4 DEF Retry
<1> QED BY <1>1, <1>2, <1>3, <1>4, <1>5

-----------------------------------------------------------------------------
(* The actions. *)

\* An append holds the bytes it adds.
LEMMA AppendIInv ==
    ASSUME IInv, NEW length \in 1 .. MaxChunk, Append(length)
    PROVE  IInv'
<1> USE ArchiveAssumption
<1> DEFINE chunk == [start |-> wal_end, end |-> wal_end + length]
<1>1. wal_end \in Nat /\ length \in Nat /\ 0 < length /\ wal_end + length <= MaxLsn /\ archive_lsn \in Nat
      /\ archive_lsn <= wal_end
  BY DEF IInv, TypeOK, Lsn, Append, Watermarks
<1>2. chunk \in Range /\ chunk.start = wal_end /\ chunk.end = wal_end + length
  BY <1>1 DEF Range, Lsn
<1>3. wal_end' = wal_end + length /\ retained' = retained \cup {chunk} /\ payload' = payload \cup {chunk}
  BY DEF Append
<1> HIDE DEF chunk
<1>4. TypeOK'
  <2>1. wal_end' \in Lsn
    BY <1>1, <1>3 DEF Lsn
  <2> QED BY <1>2, <1>3, <2>1 DEF IInv, TypeOK, Append
<1>5. Watermarks'
  BY <1>1, <1>3 DEF IInv, Watermarks, Append
<1>6. Tiled' /\ Named'
  BY DEF IInv, Tiled, Named, In, Append
<1>7. Held'
  <2> SUFFICES ASSUME NEW x \in Lsn, archive_lsn <= x, x < wal_end'
               PROVE  \E h \in retained' \cap payload' : In(x, h)
    BY DEF Held, Append, In
  <2>1. CASE x < wal_end
    BY <2>1, <1>3 DEF IInv, Held
  <2>2. CASE ~(x < wal_end)
    BY <2>2, <1>1, <1>2, <1>3 DEF In, Lsn
  <2> QED BY <2>1, <2>2
<1>8. Tasks'
  BY DEF IInv, Tasks, Append
<1>9. Reading'
  BY DEF IInv, Reading, Planned, Append
<1> QED BY <1>4, <1>5, <1>6, <1>7, <1>8, <1>9 DEF IInv

\* Starting and ending tasks, and their steps before the upload.
LEMMA EarlyStepsIInv ==
    ASSUME IInv, NEW n \in Nodes,
           Spawn(n) \/ Flush(n) \/ Resolve(n) \/ ReadStatus(n) \/ ReadSegment(n) \/ CallFails(n)
    PROVE  IInv'
<1> USE ArchiveAssumption
<1>0. flushed \in Lsn /\ flushed <= archive_lsn /\ faults \in 0 .. MaxFaults
  BY DEF IInv, TypeOK, Watermarks
<1>1. CASE Spawn(n)
  <2> DEFINE t == [NoTask EXCEPT !.at = "resolve"]
  <2>1. t.at = "resolve" /\ t \in [at : Steps, tail : BOOLEAN, range : Range \cup {NoRange}]
    BY DEF NoTask, Steps
  <2>2. Becomes(n, t)
    BY <1>1, <2>1 DEF Becomes, Spawn
  <2> QED BY <1>0, <1>1, <2>2, BecomesIInv DEF Spawn
<1>6. CASE Flush(n)
  <2> DEFINE t == [NoTask EXCEPT !.at = "resolve", !.tail = TRUE]
  <2>1. t.at = "resolve" /\ t \in [at : Steps, tail : BOOLEAN, range : Range \cup {NoRange}]
    BY DEF NoTask, Steps
  <2>2. Becomes(n, t)
    BY <1>6, <2>1 DEF Becomes, Flush
  <2> QED BY <1>0, <1>6, <2>2, BecomesIInv DEF Flush
<1>2. CASE Resolve(n)
  <2>1. \E t : Becomes(n, t)
    BY <1>2, Plain DEF Resolve
  <2> QED BY <1>0, <1>2, <2>1, BecomesIInv DEF Resolve
<1>3. CASE ReadStatus(n)
  <2> DEFINE end == IF task[n].tail THEN wal_end ELSE NextBoundary(archive_lsn)
             r == [start |-> archive_lsn, end |-> end]
             t == [task[n] EXCEPT !.at = "read", !.range = r]
  <2>1. archive_lsn \in Nat /\ wal_end \in Lsn /\ end \in Nat
    BY DEF IInv, TypeOK, Lsn, NextBoundary
  <2>2. archive_lsn < end /\ end <= wal_end => r \in Range
    BY <2>1 DEF Range, Lsn
  <2>3. archive_lsn < end /\ end <= wal_end => Becomes(n, t)
    <3> SUFFICES ASSUME archive_lsn < end /\ end <= wal_end PROVE Becomes(n, t)
      OBVIOUS
    <3>1. r \in Range
      BY <2>2
    <3> HIDE DEF r
    <3>2. t \in [at : Steps, tail : BOOLEAN, range : Range \cup {NoRange}] /\ t.at = "read" /\ t.range = r
      BY <3>1, Plain DEF Steps
    <3>3. task' = [task EXCEPT ![n] = t]
      BY <1>3 DEF ReadStatus, r
    <3> QED BY <3>1, <3>2, <3>3 DEF Becomes
  <2>4. \E u : Becomes(n, u)
    BY <1>3, <2>3, Plain DEF ReadStatus
  <2>5. flushed' \in Lsn /\ flushed' <= archive_lsn
    BY <1>0, <1>3, <2>1 DEF ReadStatus, Lsn
  <2> QED BY <1>0, <1>3, <2>4, <2>5, BecomesIInv DEF ReadStatus
<1>4. CASE ReadSegment(n)
  <2> DEFINE u == [task[n] EXCEPT !.at = "upload"]
  <2>0. u \in [at : Steps, tail : BOOLEAN, range : Range \cup {NoRange}]
        /\ u.at = "upload" /\ u.range = task[n].range
    BY Plain DEF Steps
  <2>a. Goto(n, "upload") => Becomes(n, u)
    BY <1>4, <2>0 DEF ReadSegment, IInv, Tasks, Goto, Becomes
  <2>1. \E t : Becomes(n, t)
    BY <1>4, <2>a, Plain DEF ReadSegment
  <2> QED BY <1>0, <1>4, <2>1, BecomesIInv DEF ReadSegment
<1>5. CASE CallFails(n)
  <2>1. \E t : Becomes(n, t)
    BY <1>5, Plain DEF CallFails
  <2>2. faults' \in 0 .. MaxFaults
    BY <1>0, <1>5 DEF CallFails
  <2> QED BY <1>0, <1>5, <2>1, <2>2, BecomesIInv DEF CallFails
<1> QED BY <1>1, <1>2, <1>3, <1>4, <1>5, <1>6

\* The upload stores the object that the task will name.
LEMMA UploadIInv ==
    ASSUME IInv, NEW n \in Nodes, Upload(n)
    PROVE  IInv'
<1>1. /\ task' = [task EXCEPT ![n] = [task[n] EXCEPT !.at = "verify"]]
      /\ objects' = objects \cup {task[n].range}
      /\ task[n].range \in Range
  BY DEF Upload, Goto, IInv, Tasks
<1>2. [task[n] EXCEPT !.at = "verify"] \in [at : Steps, tail : BOOLEAN, range : Range \cup {NoRange}]
      /\ [task[n] EXCEPT !.at = "verify"].at = "verify"
      /\ [task[n] EXCEPT !.at = "verify"].range = task[n].range
  BY Plain DEF Steps
<1>3. TypeOK'
  BY <1>1, <1>2 DEF IInv, TypeOK, Upload, group
<1>4. Tasks'
  BY <1>1, <1>2 DEF IInv, TypeOK, Tasks, Upload, group
<1>5. Watermarks' /\ Tiled' /\ Named' /\ Held'
  BY <1>1 DEF IInv, Watermarks, Tiled, Named, Held, In, Upload, group
<1>6. Reading'
  BY DEF IInv, Reading, Planned, Upload
<1> QED BY <1>3, <1>4, <1>5, <1>6 DEF IInv

\* Verification and confirmation.
LEMMA LateStepsIInv ==
    ASSUME IInv, NEW n \in Nodes, Verify(n) \/ Confirm(n)
    PROVE  IInv'
<1> USE ArchiveAssumption
<1>0. flushed \in Lsn /\ flushed <= archive_lsn /\ faults \in 0 .. MaxFaults /\ archive_lsn \in Lsn
  BY DEF IInv, TypeOK, Watermarks
<1>1. CASE Verify(n)
  <2>1. task[n].range \in objects /\ Goto(n, "commit") => Becomes(n, [task[n] EXCEPT !.at = "commit"])
    <3> DEFINE t == [task[n] EXCEPT !.at = "commit"]
    <3>1. t \in [at : Steps, tail : BOOLEAN, range : Range \cup {NoRange}]
          /\ t.at = "commit" /\ t.range = task[n].range
      BY Plain DEF Steps
    <3> QED BY <3>1 DEF Becomes, Goto
  <2>2. \E t : Becomes(n, t)
    BY <1>1, <2>1, Plain DEF Verify
  <2> QED BY <1>0, <1>1, <2>2, BecomesIInv DEF Verify
<1>2. CASE Confirm(n)
  <2>1. \E t : Becomes(n, t)
    BY <1>2, Plain DEF Confirm
  <2>2. task[n].range.end \in Lsn
    <3>1. task[n].range \in objects /\ objects \subseteq Range
      BY <1>2 DEF Confirm, IInv, Tasks, TypeOK
    <3> QED BY <3>1 DEF Range
  <2>3. task[n].range.end <= archive_lsn
    BY <1>2 DEF Confirm, IInv, Tasks
  <2>4. flushed' \in Lsn /\ flushed' <= archive_lsn
    BY <1>0, <1>2, <2>2, <2>3 DEF Confirm
  <2> QED BY <1>0, <1>2, <2>1, <2>4, BecomesIInv DEF Confirm
<1> QED BY <1>1, <1>2

\* A checkpoint extends the archived prefix, is already part of it, or is
\* refused.
LEMMA CommitCheckpointIInv ==
    ASSUME IInv, NEW n \in Nodes, CommitCheckpoint(n)
    PROVE  IInv'
<1> USE ArchiveAssumption
<1> DEFINE r == task[n].range
           t == [task[n] EXCEPT !.at = "release"]
<1>0. r \in objects /\ r \in Range /\ r.end \in Lsn /\ flushed \in Lsn /\ flushed <= archive_lsn
      /\ archive_lsn \in Lsn /\ faults \in 0 .. MaxFaults /\ r.start < r.end /\ wal_end \in Lsn
      /\ task[n].tail \in BOOLEAN
  BY Plain DEF CommitCheckpoint, IInv, Tasks, TypeOK, Watermarks, Range
<1>1. /\ t \in [at : Steps, tail : BOOLEAN, range : Range \cup {NoRange}]
      /\ t.at = "release" /\ t.range = r
  BY Plain DEF Steps
<1>2. Goto(n, "release") => task' = [task EXCEPT ![n] = t]
  BY DEF Goto
<1> HIDE DEF t
<1>3. CASE /\ Contiguous(r)
           /\ archive_lsn' = r.end
           /\ segments' = segments \cup {r}
           /\ requests' = requests \cup {<<task[n].tail, r>>}
           /\ Goto(n, "release")
  <2>0. UNCHANGED <<wal_end, retained, payload, objects, leader, flushed, reader, faults>>
    BY DEF CommitCheckpoint
  <2> HIDE DEF r
  <2>1. archive_lsn < r.end /\ r.end <= wal_end
    BY <1>0, <1>3 DEF Contiguous, Lsn
  <2>2. TypeOK'
    BY <1>0, <1>1, <1>2, <1>3, <2>0 DEF IInv, TypeOK
  <2>3. Watermarks'
    BY <1>0, <1>3, <2>0, <2>1 DEF Watermarks, Lsn
  <2>4. Tiled'
    BY <1>0, <1>3, CommitFacts
  <2>5. Named'
    <3>1. \A q \in requests : q[2].end \in Lsn /\ q[2].end <= archive_lsn
      BY DEF IInv, Named, TypeOK, Range
    <3>2. \A q \in requests' : q[2].end <= archive_lsn'
      BY <1>0, <1>3, <2>1, <3>1 DEF Lsn
    <3> QED BY <1>0, <1>3, <2>0, <3>2 DEF IInv, Named
  <2>6. Held'
    BY <1>0, <1>3, <2>0, <2>1 DEF IInv, Held, In, Lsn
  <2>7. Tasks'
    <3> SUFFICES ASSUME NEW m \in Nodes
                 PROVE /\ task'[m].at \in {"read", "upload"} => task'[m].range \in Range
                       /\ task'[m].at \in {"verify", "commit", "release", "prune", "confirm"} =>
                             task'[m].range \in objects'
                       /\ task'[m].at \in {"release", "prune", "confirm"} =>
                             task'[m].range.end <= archive_lsn'
      BY DEF Tasks
    <3>1. CASE m = n
      BY <1>0, <1>1, <1>2, <1>3, <2>0, <3>1 DEF IInv, TypeOK, Lsn
    <3>2. CASE m # n
      <4>1. task'[m] = task[m]
        BY <1>2, <1>3, <3>2 DEF IInv, TypeOK
      <4>2. task[m].at \in {"release", "prune", "confirm"} =>
              task[m].range.end \in Lsn /\ task[m].range.end <= archive_lsn
        BY DEF IInv, Tasks, TypeOK, Range
      <4> QED BY <1>0, <1>3, <2>0, <2>1, <4>1, <4>2 DEF IInv, Tasks, Lsn
    <3> QED BY <3>1, <3>2
  <2>8. Reading'
    BY <2>0 DEF IInv, Reading, Planned
  <2> QED BY <2>2, <2>3, <2>4, <2>5, <2>6, <2>7, <2>8 DEF IInv
<1>4. CASE /\ <<task[n].tail, r>> \in requests
           /\ Goto(n, "release")
           /\ UNCHANGED <<archive_lsn, segments, requests>>
  <2>1. r.end <= archive_lsn
    BY <1>4 DEF IInv, Named
  <2>2. Becomes(n, t)
    BY <1>0, <1>1, <1>2, <1>4, <2>1 DEF Becomes
  <2> QED BY <1>0, <1>4, <2>2, BecomesIInv DEF CommitCheckpoint, group
<1>5. CASE Retry(n) /\ UNCHANGED <<archive_lsn, segments, requests>>
  <2>1. \E u : Becomes(n, u)
    BY <1>5, Plain
  <2> QED BY <1>0, <1>5, <2>1, BecomesIInv DEF CommitCheckpoint, group
<1> QED BY <1>3, <1>4, <1>5 DEF CommitCheckpoint

\* Releasing payloads and headers takes away only bytes below the watermark.
LEMMA ReleaseIInv ==
    ASSUME IInv, NEW n \in Nodes, ReleasePayloads(n) \/ ReleaseWal(n)
    PROVE  IInv'
<1> USE ArchiveAssumption
<1>0. archive_lsn \in Nat /\ task[n].range.end \in Nat /\ task[n].range.end <= archive_lsn
      /\ task[n].range \in objects
      /\ \A h \in retained : h.start \in Nat /\ h.end \in Nat
  <2>1. task[n].range \in objects /\ objects \subseteq Range /\ task[n].range.end <= archive_lsn
    BY DEF ReleasePayloads, ReleaseWal, IInv, Tasks, TypeOK
  <2>2. archive_lsn \in Lsn /\ retained \subseteq Range
    BY DEF IInv, TypeOK
  <2> QED BY <2>1, <2>2 DEF Range, Lsn
<1>1. /\ UNCHANGED <<wal_end, archive_lsn, segments, requests, objects, leader, flushed, reader, faults>>
      /\ retained' \subseteq retained /\ payload' \subseteq payload
      /\ \A h \in retained \cap payload : h.end > archive_lsn => h \in retained' \cap payload'
  BY <1>0 DEF ReleasePayloads, ReleaseWal, Covered
<1>2. PICK step \in {"prune", "confirm"} : Goto(n, step)
  BY DEF ReleasePayloads, ReleaseWal
<1> DEFINE t == [task[n] EXCEPT !.at = step]
<1>3. /\ t \in [at : Steps, tail : BOOLEAN, range : Range \cup {NoRange}]
      /\ t.at = step /\ t.range = task[n].range
  BY Plain DEF Steps
<1>4. task' = [task EXCEPT ![n] = t]
  BY <1>2 DEF Goto
<1> HIDE DEF t
<1>5. TypeOK'
  BY <1>1, <1>3, <1>4 DEF IInv, TypeOK
<1>6. Watermarks' /\ Tiled' /\ Named'
  BY <1>1 DEF IInv, Watermarks, Tiled, Named, In
<1>7. Held'
  <2> SUFFICES ASSUME NEW x \in Lsn, archive_lsn <= x, x < wal_end
               PROVE  \E h \in retained' \cap payload' : In(x, h)
    BY <1>1 DEF Held, In
  <2>1. PICK h \in retained \cap payload : In(x, h)
    BY DEF IInv, Held
  <2>2. h.end > archive_lsn
    BY <1>0, <2>1 DEF In, Lsn
  <2> QED BY <1>1, <2>1, <2>2
<1>8. Tasks'
  BY <1>0, <1>1, <1>2, <1>3, <1>4 DEF IInv, Tasks, TypeOK
<1>9. Reading'
  BY <1>1 DEF IInv, Reading, Planned
<1> QED BY <1>5, <1>6, <1>7, <1>8, <1>9 DEF IInv

\* A crash loses one task and sends the others back to the commit.
LEMMA CrashIInv ==
    ASSUME IInv, NEW n \in Nodes, NEW next \in Nodes, Crash(n, next)
    PROVE  IInv'
<1> USE ArchiveAssumption
<1>1. \A m \in Nodes : \/ task'[m] = NoTask
                       \/ task'[m] = task[m]
                       \/ task[m].at \in OnLeader /\ task'[m] = [task[m] EXCEPT !.at = "commit"]
  BY DEF Crash
<1>2. \A m \in Nodes : task[m] \in [at : Steps, tail : BOOLEAN, range : Range \cup {NoRange}]
  BY DEF IInv, TypeOK
<1>3. NoTask \in [at : Steps, tail : BOOLEAN, range : Range \cup {NoRange}]
  BY DEF NoTask, Steps
<1>4. \A m \in Nodes : /\ [task[m] EXCEPT !.at = "commit"] \in
                             [at : Steps, tail : BOOLEAN, range : Range \cup {NoRange}]
                       /\ [task[m] EXCEPT !.at = "commit"].at = "commit"
                       /\ [task[m] EXCEPT !.at = "commit"].range = task[m].range
  BY <1>2 DEF Steps
<1>5. \A m \in Nodes : task'[m] \in [at : Steps, tail : BOOLEAN, range : Range \cup {NoRange}]
  <2> DEFINE T == [at : Steps, tail : BOOLEAN, range : Range \cup {NoRange}]
             again(m) == [task[m] EXCEPT !.at = "commit"]
  <2>1. \A m \in Nodes : task'[m] = NoTask \/ task'[m] = task[m] \/ task'[m] = again(m)
    BY <1>1
  <2>2. NoTask \in T /\ \A m \in Nodes : task[m] \in T /\ again(m) \in T
    BY <1>2, <1>3, <1>4
  <2> HIDE DEF T, again
  <2>3. \A m \in Nodes : task'[m] \in T
    BY <2>1, <2>2
  <2> QED BY <2>3 DEF T
<1>6. task' \in [Nodes -> [at : Steps, tail : BOOLEAN, range : Range \cup {NoRange}]]
  BY <1>5 DEF Crash
<1>7. TaskTypes'
  BY <1>6 DEF TaskTypes, Crash, IInv, TypeOK
<1>8. NoTask.at = "idle"
  BY DEF NoTask
<1>9. Tasks'
  BY <1>1, <1>4, <1>8 DEF IInv, Tasks, Crash, OnLeader, group
<1> QED BY <1>7, <1>9, TaskOnly DEF Crash, IInv, Watermarks

\* The reader changes nothing but its own plan.
LEMMA ReaderOnly ==
    ASSUME IInv, UNCHANGED <<group, objects, leader, task, flushed, faults>>,
           reader' \in [at : {"idle", "segments", "tail", "resolve", "objects", "done"},
                        want : Range \cup {NoRange}, mark : Lsn, prefix : SUBSET Lsn,
                        segs : SUBSET Range, tail : SUBSET Lsn],
           Reading'
    PROVE  IInv'
<1>1. TypeOK'
  BY DEF IInv, TypeOK, group
<1>2. Watermarks' /\ Tasks'
  BY DEF IInv, Watermarks, Tasks, group
<1> QED BY <1>1, <1>2, GroupUnchanged DEF IInv

\* Every step of a composed read keeps its plan exact.
LEMMA ReaderIInv ==
    ASSUME IInv, (\E r \in Range : ReadWal(r)) \/ ReaderStep
    PROVE  IInv'
<1> USE ArchiveAssumption
<1> DEFINE R == [at : {"idle", "segments", "tail", "resolve", "objects", "done"},
                 want : Range \cup {NoRange}, mark : Lsn, prefix : SUBSET Lsn,
                 segs : SUBSET Range, tail : SUBSET Lsn]
<1>0. /\ reader \in R /\ archive_lsn \in Lsn /\ segments \subseteq Range
      /\ reader.mark \in Nat /\ reader.want.start \in Nat /\ reader.want.end \in Nat
      /\ reader.want.start \in Lsn /\ reader.want.end \in Lsn
  <2>1. reader \in R /\ archive_lsn \in Lsn /\ segments \subseteq Range
    BY DEF IInv, TypeOK
  <2>2. reader.want \in Range \cup {NoRange} /\ reader.mark \in Lsn
    BY <2>1
  <2>3. reader.want.start \in Lsn /\ reader.want.end \in Lsn
    BY <2>2 DEF Range, NoRange, Lsn
  <2> QED BY <2>1, <2>2, <2>3 DEF Lsn
<1>a. NoRead \in R
  BY DEF NoRead, NoRange, Lsn
<1>b. Fails => reader' \in R /\ Reading'
  BY <1>a DEF Fails, Reading, NoRead
<1>1. ASSUME NEW r \in Range, ReadWal(r) PROVE reader' \in R /\ Reading'
  <2>1. Units(r) \subseteq Lsn /\ \A x \in Lsn : x \in Units(r) <=> r.start <= x /\ x < r.end
    BY DEF Range, Lsn, Units
  <2>2. CASE reader' = [NoRead EXCEPT !.at = "done", !.want = r, !.tail = Units(r)]
    <3>1. reader' \in R
      BY <1>a, <2>1, <2>2
    <3>2. reader'.at = "done" /\ reader'.want = r /\ reader'.prefix = {} /\ reader'.tail = Units(r)
      BY <2>2 DEF NoRead
    <3> QED BY <2>1, <3>1, <3>2 DEF Reading, Planned
  <2>3. CASE reader' = [NoRead EXCEPT !.at = "segments", !.want = r, !.mark = archive_lsn]
    <3>1. reader' \in R
      BY <1>a, <1>0, <2>3
    <3>2. reader'.at = "segments" /\ reader'.prefix = {}
      BY <2>3 DEF NoRead
    <3> QED BY <3>1, <3>2 DEF Reading
  <2> QED BY <1>1, <2>2, <2>3 DEF ReadWal
<1>2. ASSUME PlanSegments PROVE reader' \in R /\ Reading'
  <2>1. CASE reader' = [reader EXCEPT !.at = "tail", !.segs = segments]
    <3>1. reader' \in R /\ reader'.at = "tail" /\ reader'.prefix = reader.prefix
      BY <1>0, <2>1
    <3>2. reader.prefix = {}
      BY <1>2 DEF PlanSegments, IInv, Reading
    <3> QED BY <3>1, <3>2 DEF Reading
  <2> QED BY <1>2, <1>b, <2>1 DEF PlanSegments
<1>3. ASSUME PlanTail PROVE reader' \in R /\ Reading'
  <2> DEFINE r == [start |-> TailStart, end |-> reader.want.end]
             tail == IF r.start < r.end THEN Units(r) ELSE {}
  <2>1. CASE reader' = [reader EXCEPT !.at = "resolve", !.tail = tail]
    <3>0. r.start \in Nat /\ r.end \in Nat /\ r.end \in Lsn
      BY <1>0 DEF TailStart
    <3>1. tail \subseteq Lsn /\ \A x \in Lsn : x \in tail <=> r.start <= x /\ x < r.end
      BY <3>0 DEF Units, Lsn
    <3>2. \A x \in Lsn : x \in tail <=> Planned(x) /\ x >= reader.mark
      BY <1>0, <3>1 DEF TailStart, Planned, Lsn
    <3> HIDE DEF tail
    <3>3. /\ reader' \in R /\ reader'.at = "resolve" /\ reader'.prefix = reader.prefix
          /\ reader'.tail = tail /\ reader'.want = reader.want /\ reader'.mark = reader.mark
      BY <1>0, <2>1, <3>1
    <3>4. reader.prefix = {}
      BY <1>3 DEF PlanTail, IInv, Reading
    <3> QED BY <3>2, <3>3, <3>4 DEF Reading, Planned
  <2> QED BY <1>3, <1>b, <2>1 DEF PlanTail
<1>4. ASSUME ReadResolve PROVE reader' \in R /\ Reading'
  <2>1. CASE reader' = [reader EXCEPT !.at = "objects"]
    <3>1. /\ reader' \in R /\ reader'.at = "objects" /\ reader'.prefix = reader.prefix
          /\ reader'.tail = reader.tail /\ reader'.want = reader.want /\ reader'.mark = reader.mark
      BY <1>0, <2>1
    <3> QED BY <1>4, <3>1 DEF ReadResolve, IInv, Reading, Planned
  <2> QED BY <1>4, <1>b, <2>1 DEF ReadResolve
<1>5. ASSUME ReadObjects PROVE reader' \in R /\ Reading'
  <2> DEFINE last   == IF reader.want.end <= reader.mark THEN reader.want.end ELSE reader.mark
             prefix == reader.want.start .. last - 1
  <2>1. CASE reader' = [reader EXCEPT !.at = "done", !.prefix = prefix]
    <3>0. last \in Nat /\ reader.mark \in Lsn
      BY <1>0
    <3>1. prefix \subseteq Lsn /\ \A x \in Lsn : x \in prefix <=> reader.want.start <= x /\ x < last
      BY <1>0, <3>0 DEF Lsn
    <3>2. \A x \in Lsn : x \in prefix <=> Planned(x) /\ x < reader.mark
      BY <1>0, <3>1 DEF Planned, Lsn
    <3> HIDE DEF prefix
    <3>3. /\ reader' \in R /\ reader'.at = "done" /\ reader'.prefix = prefix
          /\ reader'.tail = reader.tail /\ reader'.want = reader.want /\ reader'.mark = reader.mark
      BY <1>0, <2>1, <3>1
    <3>4. \A x \in Lsn : x \in reader.tail <=> Planned(x) /\ x >= reader.mark
      BY <1>5 DEF ReadObjects, IInv, Reading
    <3> QED BY <1>0, <3>2, <3>3, <3>4 DEF Reading, Planned, Lsn
  <2> QED BY <1>5, <1>b, <2>1 DEF ReadObjects
<1>6. ASSUME Answer PROVE reader' \in R /\ Reading'
  BY <1>6, <1>b DEF Answer, Fails
<1>7. reader' \in R /\ Reading'
  BY <1>1, <1>2, <1>3, <1>4, <1>5, <1>6 DEF ReaderStep
<1>8. UNCHANGED <<group, objects, leader, task, flushed, faults>>
  BY DEF ReadWal, ReaderStep, PlanSegments, PlanTail, ReadResolve, ReadObjects, Answer
<1> QED BY <1>7, <1>8, ReaderOnly

\* Every step keeps the invariant.
LEMMA NextIInv == IInv /\ [Next]_vars => IInv'
<1> SUFFICES ASSUME IInv, [Next]_vars PROVE IInv'
  OBVIOUS
<1>1. CASE \E length \in 1 .. MaxChunk : Append(length)
  BY <1>1, AppendIInv
<1>2. ASSUME NEW n \in Nodes, Spawn(n) \/ Flush(n) \/ CallFails(n) PROVE IInv'
  BY <1>2, EarlyStepsIInv
<1>3. ASSUME NEW n \in Nodes, TaskStep(n) PROVE IInv'
  BY <1>3, EarlyStepsIInv, UploadIInv, LateStepsIInv, CommitCheckpointIInv, ReleaseIInv DEF TaskStep
<1>4. CASE \E n, next \in Nodes : Crash(n, next)
  BY <1>4, CrashIInv
<1>5. CASE \E r \in Range : <<r.start, r.end>> \in Reads /\ ReadWal(r)
  BY <1>5, ReaderIInv
<1>6. CASE ReaderStep
  BY <1>6, ReaderIInv
<1>7. CASE UNCHANGED vars
  BY <1>7, TaskOnly DEF vars, IInv, TypeOK, TaskTypes, Tasks, Watermarks, group
<1> QED BY <1>1, <1>2, <1>3, <1>4, <1>5, <1>6, <1>7, ArchiveAssumption DEF Next

-----------------------------------------------------------------------------
(* The theorems. *)

\* The inductive invariant holds in every reachable state.
THEOREM Invariance == Spec => []IInv
<1>1. Init => IInv
  BY InitIInv
<1>2. IInv /\ [Next]_vars => IInv'
  BY NextIInv
<1> QED BY <1>1, <1>2, PTL DEF Spec

\* Every variable keeps its type.
THEOREM TypeCorrectness == Spec => []TypeOK
<1>1. IInv => TypeOK
  BY DEF IInv
<1> QED BY <1>1, Invariance, PTL

\* Every committed byte is in a retained payload or in an object that a
\* committed segment names, whatever is archived, released, lost or retried.
THEOREM NothingReclaimedEarly == Spec => []EveryByteHeld
<1>1. IInv => EveryByteHeld
  <2> SUFFICES ASSUME IInv, NEW x \in 0 .. wal_end - 1
               PROVE  Archived(x) \/ \E h \in retained \cap payload : x \in Units(h)
    BY DEF EveryByteHeld
  <2>1. x \in Lsn /\ archive_lsn \in Nat /\ x < wal_end /\ wal_end \in Nat
    BY ArchiveAssumption DEF IInv, TypeOK, Lsn
  <2>2. \A r \in Range : In(x, r) => x \in Units(r)
    BY <2>1, ArchiveAssumption DEF Range, In, Units, Lsn
  <2>3. CASE x < archive_lsn
    <3>1. PICK s \in segments : In(x, s)
      BY <2>1, <2>3 DEF IInv, Tiled
    <3> QED BY <2>2, <3>1 DEF IInv, Named, TypeOK, Archived
  <2>4. CASE ~(x < archive_lsn)
    <3>1. PICK h \in retained \cap payload : In(x, h)
      BY <2>1, <2>4 DEF IInv, Held
    <3> QED BY <2>2, <3>1 DEF IInv, TypeOK
  <2> QED BY <2>3, <2>4
<1> QED BY <1>1, Invariance, PTL

\* The committed segments tile the archived prefix.
THEOREM Tiling == Spec => []SegmentsTile
<1>1. IInv => SegmentsTile
  <2> SUFFICES ASSUME IInv PROVE SegmentsTile
    OBVIOUS
  <2>0. archive_lsn \in Nat /\ archive_lsn <= MaxLsn /\ MaxLsn \in Nat
        /\ \A s \in segments : s.start \in Nat /\ s.end \in Nat /\ s.end <= archive_lsn
    BY ArchiveAssumption DEF IInv, TypeOK, Lsn, Range, Tiled
  <2>1. \A x \in 0 .. archive_lsn - 1 : \E s \in segments : x \in Units(s)
    <3> SUFFICES ASSUME NEW x \in 0 .. archive_lsn - 1 PROVE \E s \in segments : x \in Units(s)
      OBVIOUS
    <3>1. PICK s \in segments : In(x, s)
      BY <2>0 DEF IInv, Tiled, Lsn
    <3> QED BY <2>0, <3>1 DEF In, Units
  <2>2. \A s \in segments : Units(s) \subseteq 0 .. archive_lsn - 1
    BY <2>0 DEF Units
  <2>3. \A s, t \in segments : s # t => Units(s) \cap Units(t) = {}
    BY <2>0 DEF IInv, Tiled, Units
  <2>4. UNION {Units(s) : s \in segments} = 0 .. archive_lsn - 1
    BY <2>1, <2>2
  <2> QED BY <2>3, <2>4 DEF SegmentsTile
<1> QED BY <1>1, Invariance, PTL

\* What flush_timeline_tail has reported is in objects that segments name.
THEOREM FlushIsDurable == Spec => []FlushDurable
<1>1. IInv => FlushDurable
  <2> SUFFICES ASSUME IInv, NEW x \in 0 .. flushed - 1 PROVE Archived(x)
    BY DEF FlushDurable
  <2>1. x \in Lsn /\ x < archive_lsn
    BY ArchiveAssumption DEF IInv, TypeOK, Watermarks, Lsn
  <2>2. PICK s \in segments : In(x, s)
    BY <2>1 DEF IInv, Tiled
  <2>3. s \in Range
    BY DEF IInv, TypeOK
  <2>4. x \in Units(s)
    BY <2>1, <2>2, <2>3, ArchiveAssumption DEF Range, In, Units, Lsn
  <2> QED BY <2>4 DEF IInv, Named, Archived
<1> QED BY <1>1, Invariance, PTL

\* A composed read returns each byte of its range once, from an object or from
\* the retained tail.
THEOREM ComposedReadIsExact == Spec => []ReadExact
<1>1. IInv => ReadExact
  <2> SUFFICES ASSUME IInv, reader.at = "done"
               PROVE  /\ reader.prefix \cup reader.tail = Units(reader.want)
                      /\ reader.prefix \cap reader.tail = {}
    BY DEF ReadExact
  <2>1. reader.prefix \subseteq Lsn /\ reader.tail \subseteq Lsn
    BY DEF IInv, TypeOK
  <2>2. Units(reader.want) \subseteq Lsn /\ \A x \in Lsn : x \in Units(reader.want) <=> Planned(x)
    <3>1. reader.want \in Range \cup {NoRange}
      BY DEF IInv, TypeOK
    <3> QED BY <3>1, ArchiveAssumption DEF Range, NoRange, Units, Planned, Lsn
  <2>3. /\ \A x \in Lsn : x \in reader.prefix \/ x \in reader.tail <=> Planned(x)
        /\ \A x \in Lsn : ~(x \in reader.prefix /\ x \in reader.tail)
    BY DEF IInv, Reading
  <2> QED BY <2>1, <2>2, <2>3
<1> QED BY <1>1, Invariance, PTL
=============================================================================

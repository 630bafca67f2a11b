----------------------------- MODULE ReplicaStore -----------------------------
(***************************************************************************)
(* The durable storage of one Raft replica (verglas-consensus/raft_store.rs *)
(* and the reopening in cache-node/consensus.rs): PersistentLogStore with    *)
(* its append-only journal of entry frames and its metadata file, the        *)
(* ordered PersistenceActor that group-commits frames, the state and         *)
(* snapshot images of PersistentStateMachine, and the recovery of all of     *)
(* them after a crash.                                                       *)
(*                                                                           *)
(* The caller is OpenRaft, an external library: it appends at the end of the *)
(* log, truncates above what it committed, purges what the current snapshot  *)
(* covers, applies committed entries in order and stops for good at the      *)
(* first storage error.  An entry is its term; a state image is the sequence *)
(* of the entries applied to it.                                             *)
(***************************************************************************)
EXTENDS Integers, Sequences

CONSTANTS
    MaxEntries,       \* bound on log indices
    Terms,          \* terms of entries
    VoteTerms,      \* terms of votes
    Capacity,       \* PERSISTENCE_QUEUE_CAPACITY
    MaxFrames,      \* bound on the frames of the entries file
    MaxCrashes,     \* bound on crashes
    MaxFaults       \* bound on failed writes and syncs

ASSUME StoreAssumption ==
    /\ MaxEntries \in Nat /\ Terms \subseteq Nat \ {0} /\ VoteTerms \subseteq Nat \ {0}
    /\ Capacity \in Nat \ {0} /\ MaxFrames \in Nat
    /\ MaxCrashes \in Nat /\ MaxFaults \in Nat

Slots == 1..MaxEntries
NoLog == [ents |-> <<>>, purged |-> 0]
Torn  == [op |-> "torn"]

(* Vote: a term, and whether this node is the committed leader of it. *)
NoVote == [term |-> 0, led |-> FALSE]
AtMost(v, w) == v.term < w.term \/ (v.term = w.term /\ (v.led => w.led))

VARIABLES
    (* Memory. *)
    log,            \* LogStateData: entries by index, and last_purged
    meta,           \* LogData: vote and committed index
    call,           \* the log call that holds the state lock, or "none"
    queue,          \* frames waiting for the entries actor
    batch,          \* frames the actor has written since its last sync
    sm,             \* StateMachineData
    cur,            \* current_snapshot
    images,         \* image pairs waiting for the state machine's actor
    half,           \* the first image of the head pair is written
    built,          \* build_snapshot: persisted, current_snapshot not yet set
    stopped,        \* OpenRaft has met a storage error, or the store is not open
    (* Disk. *)
    file,           \* the frames of the entries file
    synced,         \* how many of them a successful sync covers
    dMeta, dState, dSnap,
    (* History. *)
    acked,          \* the entries whose flush callback succeeded
    promised,       \* the last vote save_vote returned for
    chosen,         \* the entries the group has committed
    crashes, faults

memVars  == <<log, meta, call, queue, batch, sm, cur, images, half, built, stopped>>
diskVars == <<file, synced, dMeta, dState, dSnap>>
histVars == <<acked, promised, chosen, crashes, faults>>
storeVars == <<memVars, diskVars, histVars>>

(* f on the part of S it is defined on. *)
Within(f, S) == [i \in DOMAIN f \cap S |-> f[i]]
LastIndex(l) == IF DOMAIN l.ents = {} THEN l.purged
                ELSE CHOOSE i \in DOMAIN l.ents : \A j \in DOMAIN l.ents : j <= i

StoreInit ==
    /\ log = NoLog /\ meta = [vote |-> NoVote, committed |-> 0]
    /\ call = "none" /\ queue = <<>> /\ batch = <<>>
    /\ sm = <<>> /\ cur = <<>> /\ images = <<>> /\ half = FALSE /\ built = {}
    /\ stopped = FALSE
    /\ file = <<>> /\ synced = 0
    /\ dMeta = [vote |-> NoVote, committed |-> 0] /\ dState = <<>> /\ dSnap = <<>>
    /\ acked = <<>> /\ promised = NoVote /\ chosen = <<>>
    /\ crashes = 0 /\ faults = 0

-----------------------------------------------------------------------------
(* apply_log_record: what one frame does to the log it is replayed into. *)
Put(l, i, t) == [l EXCEPT !.ents = [j \in DOMAIN l.ents \cup {i} |->
                                      IF j = i THEN t ELSE l.ents[j]]]
ApplyRecord(l, r) ==
    CASE r.op = "append"   -> Put(l, r.index, r.term)
      [] r.op = "truncate" -> [l EXCEPT !.ents = Within(@, 0..(r.index - 1))]
      [] r.op = "purge"    -> [ents |-> Within(l.ents, (r.index + 1)..MaxEntries),
                               purged |-> r.index]

(* recover_log_records reads the first n frames; a frame that the file ends *)
(* in the middle of is cut off with all that follows it.                    *)
TornFrames(f, n) == {k \in 1..n : f[k] = Torn}
Complete(f, n) == IF TornFrames(f, n) = {} THEN n
                  ELSE (CHOOSE i \in TornFrames(f, n) : \A j \in TornFrames(f, n) : i <= j) - 1
Replay(f) == LET upTo[k \in 0..Len(f)] ==
                   IF k = 0 THEN NoLog ELSE ApplyRecord(upTo[k - 1], f[k])
             IN  upTo
Recovery(f, n) == Replay(f)[Complete(f, n)]
Recovered(n) == Recovery(file, n)

(* A torn frame that more frames follow fails its checksum, unless its      *)
(* length still reaches past the end of the file.                           *)
Refused(n) == Complete(file, n) + 1 < n

-----------------------------------------------------------------------------
(* Log calls of OpenRaft. *)

Ready == ~stopped /\ call = "none"

(* The bounded channel to the actor (try_send). *)
Enqueue(r) == /\ Len(queue) < Capacity
              /\ Len(file) + Len(queue) < MaxFrames
              /\ queue' = Append(queue, r)

(* append: dispatch_append makes the entry visible and queues its frame.    *)
AppendEntry(t) ==
    LET i == LastIndex(log) + 1
    IN  /\ Ready /\ i \in Slots /\ Len(sm) < i
        /\ i - 1 \in DOMAIN log.ents => log.ents[i - 1] <= t
        /\ Enqueue([op |-> "append", index |-> i, term |-> t])
        /\ log' = Put(log, i, t)
        /\ UNCHANGED <<meta, call, batch, sm, cur, images, half, built,
                       stopped, diskVars, histVars>>

(* append with a full queue: try_send refuses, the entries are taken back   *)
(* out of memory and the caller gets the error.                             *)
AppendRefused ==
    /\ Ready /\ LastIndex(log) < MaxEntries /\ Len(queue) = Capacity
    /\ stopped' = TRUE
    /\ UNCHANGED <<log, meta, call, queue, batch, sm, cur, images, half,
                   built, diskVars, histVars>>

(* truncate: holds the state lock until its frame is durable. *)
Truncate(i) ==
    /\ Ready /\ i \in DOMAIN log.ents
    /\ meta.committed < i /\ Len(sm) < i
    /\ Enqueue([op |-> "truncate", index |-> i])
    /\ call' = "truncate"
    /\ acked' = Within(acked, 0..(i - 1))
    /\ UNCHANGED <<log, meta, batch, sm, cur, images, half, built, stopped,
                   diskVars, promised, chosen, crashes, faults>>

\* Mutant: what was applied is purged before a snapshot covers it.
PurgeApplied(i) ==
    /\ Ready /\ log.purged < i /\ i <= Len(sm)
    /\ Enqueue([op |-> "purge", index |-> i])
    /\ call' = "purge"
    /\ UNCHANGED <<log, meta, batch, sm, cur, images, half, built, stopped,
                   diskVars, histVars>>

(* purge: the same, for what the current snapshot covers. *)
Purge(i) ==
    /\ Ready /\ log.purged < i /\ i <= Len(cur)
    /\ Enqueue([op |-> "purge", index |-> i])
    /\ call' = "purge"
    /\ UNCHANGED <<log, meta, batch, sm, cur, images, half, built, stopped,
                   diskVars, histVars>>

\* Mutant: the committed index is saved without the vote.
SaveMetaForgets(m) ==
    /\ dMeta' = [m EXCEPT !.vote = IF m.committed = meta.committed THEN @ ELSE NoVote]
    /\ call' = "meta"

(* save_vote and save_committed replace the whole metadata file under the   *)
(* state lock, through an actor of their own.                               *)
SaveMeta(m) == /\ dMeta' = m
               /\ call' = "meta"

SaveVote(v) ==
    /\ Ready /\ AtMost(meta.vote, v) /\ v # meta.vote
    /\ SaveMeta([meta EXCEPT !.vote = v])
    /\ UNCHANGED <<log, meta, queue, batch, sm, cur, images, half, built,
                   stopped, file, synced, dState, dSnap, histVars>>

(* Entries are committed once they are flushed here and agree with what     *)
(* the group committed.                                                     *)
SaveCommitted(i) ==
    /\ Ready /\ meta.committed < i /\ i \in DOMAIN acked
    /\ i <= Len(chosen) => acked[i] = chosen[i]
    /\ \A j \in DOMAIN log.ents : j <= Len(chosen) /\ j <= i => log.ents[j] = chosen[j]
    /\ \A j \in (Len(chosen) + 1)..i : j \in DOMAIN log.ents
    /\ SaveMeta([meta EXCEPT !.committed = i])
    /\ chosen' = IF i <= Len(chosen) THEN chosen
                 ELSE [j \in 1..i |-> IF j <= Len(chosen) THEN chosen[j] ELSE log.ents[j]]
    /\ UNCHANGED <<log, meta, queue, batch, sm, cur, images, half, built,
                   stopped, file, synced, dState, dSnap, acked, promised,
                   crashes, faults>>

(* The metadata write is acknowledged and the call returns. *)
MetaReturn ==
    /\ call = "meta"
    /\ call' = "none"
    /\ meta' = dMeta
    /\ promised' = dMeta.vote
    /\ UNCHANGED <<log, queue, batch, sm, cur, images, half, built, stopped,
                   diskVars, acked, chosen, crashes, faults>>

(* The metadata write fails: the file is the old one or, when only the sync  *)
(* of its directory failed, the new one.                                    *)
MetaFails ==
    /\ call = "meta"
    /\ faults < MaxFaults /\ faults' = faults + 1
    /\ call' = "none"
    /\ stopped' = TRUE
    /\ dMeta' \in {meta, dMeta}
    /\ UNCHANGED <<log, meta, queue, batch, sm, cur, images, half, built,
                   file, synced, dState, dSnap, acked, promised, chosen, crashes>>

-----------------------------------------------------------------------------
(* The entries actor. *)

(* It writes the next frame of the queue; a second frame joins a batch      *)
(* whatever the capacity.  A failed write may leave part of the frame in    *)
(* the file; the rest of the batch is written all the same.                 *)
ActorWrite ==
    /\ queue # <<>> /\ (Len(batch) < 2 \/ Len(batch) < Capacity)
    /\ queue' = Tail(queue)
    /\ \/ /\ file' = Append(file, Head(queue))
          /\ batch' = Append(batch, [rec |-> Head(queue), ok |-> TRUE])
          /\ UNCHANGED faults
       \/ /\ faults < MaxFaults /\ faults' = faults + 1
          /\ file' \in {file, Append(file, Torn)}
          /\ batch' = Append(batch, [rec |-> Head(queue), ok |-> FALSE])
    /\ UNCHANGED <<log, meta, call, sm, cur, images, half, built, stopped,
                   synced, dMeta, dState, dSnap, acked, promised, chosen,
                   crashes>>

(* The results of the batch reach OpenRaft in order: it learns of the       *)
(* frames before the first failure and stops there.                         *)
Good(ok) == LET bad == {i \in 1..Len(batch) : ~(ok /\ batch[i].ok)}
            IN  IF bad = {} THEN Len(batch)
                ELSE (CHOOSE i \in bad : \A j \in bad : i <= j) - 1

(* What OpenRaft knows to be flushed once the frames of recs are: their     *)
(* entries too, but none that a truncate it has asked for ends.             *)
Flushed(recs) ==
    LET new  == {r \in {recs[k] : k \in DOMAIN recs} : r.op = "append"}
        cut  == {r \in {recs[k] : k \in DOMAIN recs} \cup {queue[k] : k \in DOMAIN queue} :
                    r.op = "truncate"}
        gone == {r \in {recs[k] : k \in DOMAIN recs} : r.op = "purge"}
        kept == {i \in DOMAIN acked \cup {r.index : r \in new} :
                    (\A r \in cut : i < r.index) /\ (\A r \in gone : r.index < i)}
    IN  [i \in kept |-> IF \E r \in new : r.index = i
                        THEN (CHOOSE r \in new : r.index = i).term ELSE acked[i]]

(* The results of a batch reach OpenRaft in order and end at the first      *)
(* failure.  The code spawns a task for each callback, so this rests on     *)
(* OpenRaft 0.9.25, which waits for the callback of one append before the   *)
(* next.                                                                    *)
Deliver(ok) ==
    LET good == IF stopped THEN 0 ELSE Good(ok)
        recs == [i \in 1..good |-> batch[i].rec]
        last == IF good = 0 THEN Torn ELSE recs[good]
    IN  /\ acked' = Flushed(recs)
        /\ call' = IF last.op \in {"truncate", "purge"} THEN "none" ELSE call
        /\ log' = IF last.op \in {"truncate", "purge"}
                  THEN ApplyRecord(log, last) ELSE log
        /\ stopped' = (stopped \/ good < Len(batch))
        /\ batch' = <<>>

\* Mutant: the callbacks run before the sync.
ActorSyncEarly ==
    /\ batch # <<>>
    /\ Deliver(TRUE)
    /\ UNCHANGED <<meta, queue, sm, cur, images, half, built, file, synced,
                   dMeta, dState, dSnap, promised, chosen, crashes, faults>>

(* One sync for the whole batch, then its callbacks. *)
ActorSync ==
    /\ batch # <<>>
    /\ synced' = Len(file)
    /\ Deliver(TRUE)
    /\ UNCHANGED <<meta, queue, sm, cur, images, half, built, file, dMeta,
                   dState, dSnap, promised, chosen, crashes, faults>>

(* The sync fails: every frame of the batch is reported failed. *)
ActorSyncFails ==
    /\ batch # <<>>
    /\ faults < MaxFaults /\ faults' = faults + 1
    /\ Deliver(FALSE)
    /\ UNCHANGED <<meta, queue, sm, cur, images, half, built, file, synced,
                   dMeta, dState, dSnap, promised, chosen, crashes>>

-----------------------------------------------------------------------------
(* The state machine. *)

(* apply: in memory only. *)
Apply ==
    LET i == Len(sm) + 1
    IN  /\ ~stopped /\ i <= meta.committed /\ i \in DOMAIN log.ents
        /\ sm' = Append(sm, log.ents[i])
        /\ UNCHANGED <<log, meta, call, queue, batch, cur, images, half,
                       built, stopped, diskVars, histVars>>

Building == \/ \E i \in 1..Len(images) : images[i].by = "build"
            \/ built # {}

(* build_snapshot: the state is copied and both images queued under the     *)
(* state lock.                                                              *)
BuildSnapshot ==
    /\ ~stopped /\ ~Building /\ Len(sm) > Len(cur)
    /\ images' = Append(images, [by |-> "build", data |-> sm])
    /\ UNCHANGED <<log, meta, call, queue, batch, sm, cur, half, built,
                   stopped, diskVars, histVars>>

(* install_snapshot of what the group has committed up to i: memory is      *)
(* replaced before the images are durable.                                  *)
InstallSnapshot(i, t) ==
    LET data == [j \in 1..i |-> IF j <= Len(chosen) THEN chosen[j] ELSE t]
    IN  /\ Ready /\ Len(sm) < i /\ LastIndex(log) <= i
        /\ \A k \in 1..Len(images) : images[k].by = "build"
        /\ images' = Append(images, [by |-> "install", data |-> data])
        /\ sm' = data
        /\ chosen' = IF i <= Len(chosen) THEN chosen ELSE data
        /\ call' = "install"
        /\ UNCHANGED <<log, meta, queue, batch, cur, half, built, stopped,
                       diskVars, acked, promised, crashes, faults>>

(* The actor writes the state image, then the snapshot image. *)
ImageState ==
    /\ images # <<>> /\ ~half
    /\ dState' = Head(images).data
    /\ half' = TRUE
    /\ UNCHANGED <<log, meta, call, queue, batch, sm, cur, images, built,
                   stopped, file, synced, dMeta, dSnap, histVars>>

(* install_snapshot returns with the new current snapshot; the builder's    *)
(* task is only woken.                                                      *)
ImageSnapshot ==
    /\ half
    /\ half' = FALSE
    /\ images' = Tail(images)
    /\ dSnap' = Head(images).data
    /\ IF Head(images).by = "install"
       THEN cur' = dSnap' /\ call' = "none" /\ UNCHANGED built
       ELSE built' = {dSnap'} /\ UNCHANGED <<cur, call>>
    /\ UNCHANGED <<log, meta, queue, batch, sm, stopped, file, synced, dMeta,
                   dState, histVars>>

(* Writing either image of the pair fails, and OpenRaft stops. *)
ImageFails ==
    /\ images # <<>>
    /\ faults < MaxFaults /\ faults' = faults + 1
    /\ images' = Tail(images)
    /\ half' = FALSE
    /\ stopped' = TRUE
    /\ UNCHANGED <<log, meta, call, queue, batch, sm, cur, built, diskVars,
                   acked, promised, chosen, crashes>>

BuildReturns ==
    /\ built # {}
    /\ cur' \in built
    /\ built' = {}
    /\ UNCHANGED <<log, meta, call, queue, batch, sm, images, half, stopped,
                   diskVars, histVars>>

-----------------------------------------------------------------------------
(* The process dies; of the unsynced frames any prefix is in the file when  *)
(* it starts again.  open and open_local_on_consensus_runtime rebuild the   *)
(* log, cut a torn tail off, load the images and give up a leadership the   *)
(* vote still claims.  A refused journal leaves the replica closed.         *)
Reopened(n) ==
    LET v == dMeta.vote
        nv == IF v.led THEN [term |-> v.term + 1, led |-> FALSE] ELSE v
        rec == Recovered(n)
        (* OpenRaft closes a hole between the log and a newer state. *)
        hole == LastIndex(rec) < Len(dState)
        purge == [op |-> "purge", index |-> Len(dState)]
        kept == SubSeq(file, 1, Complete(file, n))
    IN  /\ file' = IF hole THEN Append(kept, purge) ELSE kept
        /\ synced' = Len(file')
        /\ log' = IF hole THEN ApplyRecord(rec, purge) ELSE rec
        /\ dMeta' = [dMeta EXCEPT !.vote = nv]
        /\ meta' = dMeta'
        /\ promised' = nv
        /\ acked' = log'.ents
        /\ stopped' = FALSE

Crash(n) ==
    /\ crashes < MaxCrashes
    /\ crashes' = crashes + 1
    /\ n \in synced..Len(file)
    /\ call' = "none" /\ queue' = <<>> /\ batch' = <<>>
    /\ images' = <<>> /\ half' = FALSE /\ built' = {}
    /\ sm' = dState /\ cur' = dSnap
    /\ \/ Reopened(n)
       \/ /\ Refused(n)
          /\ stopped' = TRUE
          /\ UNCHANGED <<log, meta, file, synced, dMeta, acked, promised>>
    /\ UNCHANGED <<dState, dSnap, chosen, faults>>

-----------------------------------------------------------------------------
StoreNext ==
    \/ \E t \in Terms : AppendEntry(t)
    \/ AppendRefused
    \/ \E i \in Slots : Truncate(i) \/ Purge(i) \/ SaveCommitted(i)
    \/ \E t \in VoteTerms, led \in BOOLEAN : SaveVote([term |-> t, led |-> led])
    \/ MetaReturn \/ MetaFails
    \/ ActorWrite \/ ActorSync \/ ActorSyncFails
    \/ Apply \/ BuildSnapshot
    \/ \E i \in Slots, t \in Terms : InstallSnapshot(i, t)
    \/ ImageState \/ ImageSnapshot \/ ImageFails \/ BuildReturns
    \/ \E n \in 0..Len(file) : Crash(n)

StoreSpec == StoreInit /\ [][StoreNext]_storeVars

-----------------------------------------------------------------------------
(* Properties. *)

Records == [op : {"append"}, index : Slots, term : Terms]
             \cup [op : {"truncate", "purge"}, index : Slots]

Votes   == [term : Nat, led : BOOLEAN]
States  == {s \in Seq(Terms) : Len(s) <= MaxEntries}

StoreTypeOK ==
    /\ DOMAIN log.ents \subseteq Slots /\ \A i \in DOMAIN log.ents : log.ents[i] \in Terms
    /\ log.purged \in 0..MaxEntries
    /\ DOMAIN acked \subseteq Slots /\ \A i \in DOMAIN acked : acked[i] \in Terms
    /\ meta \in [vote : Votes, committed : 0..MaxEntries]
    /\ dMeta \in [vote : Votes, committed : 0..MaxEntries]
    /\ promised \in Votes
    /\ call \in {"none", "truncate", "purge", "meta", "install"}
    /\ queue \in Seq(Records) /\ Len(queue) <= Capacity
    /\ batch \in Seq([rec : Records, ok : BOOLEAN]) /\ (Len(batch) <= 2 \/ Len(batch) <= Capacity)
    /\ file \in Seq(Records \cup {Torn}) /\ synced \in 0..Len(file)
    /\ sm \in States /\ cur \in States /\ dState \in States /\ dSnap \in States
    /\ chosen \in States /\ built \subseteq States
    /\ images \in Seq([by : {"build", "install"}, data : States])
    /\ half \in BOOLEAN /\ stopped \in BOOLEAN

(* What recovery can start from: every crash that leaves n frames. *)
CrashPoints == synced..Len(file)

(* An entry whose flush callback succeeded is in the log that any crash at  *)
(* this moment recovers, unless the log was purged past it: group commit,   *)
(* a torn frame, and a truncate that is queued behind it, written but not   *)
(* synced, or lost, do not cost an acknowledged entry.                      *)
AckedRecovered ==
    ~stopped => \A n \in CrashPoints : \A i \in DOMAIN acked :
       LET l == Recovered(n)
       IN  i > l.purged => i \in DOMAIN l.ents /\ l.ents[i] = acked[i]

(* The applied state survives any crash although apply writes nothing: the  *)
(* state image on disk and the recovered log together hold every applied    *)
(* entry, with no gap where the log was purged, also between the two files  *)
(* of a snapshot that is built.  While one is being installed the memory    *)
(* runs ahead of the disk, which nobody relies on before the call returns.  *)
AppliedRecoverable ==
    (~stopped /\ call # "install") => \A n \in CrashPoints :
       LET l == Recovered(n)
       IN  /\ l.purged <= Len(dState)
           /\ \A i \in 1..Len(sm) :
                \/ i <= Len(dState) /\ dState[i] = sm[i]
                \/ i \in DOMAIN l.ents /\ l.ents[i] = sm[i]

(* A vote that was promised is on disk: saving the committed index, which   *)
(* rewrites the same file, never takes a vote back, and a restarted leader  *)
(* comes back in a newer term.                                              *)
VoteKept == AtMost(promised, dMeta.vote)

=============================================================================

------------------------------ MODULE Writeback ------------------------------
(***************************************************************************)
(* The write-back tier of one cache node (crates/verglas-writeback): a PUT  *)
(* is acknowledged once its fragments are staged, its header is committed   *)
(* and its journal is on disk; it reaches the origin later, alone or inside *)
(* a pack object.  Components: WriteCoordinator (coordinator.rs), the       *)
(* JournalStore with its in-memory dirty index (journal.rs), the offload    *)
(* stream and the pack index (offload.rs), the read wrapper (reader.rs),    *)
(* the write wrapper (writer.rs) and the commit barrier (barrier.rs).       *)
(*                                                                          *)
(* One object is one accepted PUT.  The fragments of an object are one      *)
(* flag here; FragmentRepair models them one by one.  Object ids are        *)
(* hashes: their order, which decides what a restart indexes, has nothing   *)
(* to do with the order of the PUTs.                                        *)
(***************************************************************************)
EXTENDS Integers, Sequences, FiniteSets

CONSTANTS
    Keys,           \* logical object keys of one (storage binding, bucket)
    Objects,        \* object ids, integers so that list() can sort them
    Lens,           \* object lengths a client may send
    SizeLimit,      \* offload_size_limit
    Attempts,       \* PROPAGATION_ATTEMPTS
    Through,        \* the objects written around the tier (multipart, copy,
                    \* or a prefix that is not opted in)
    Faulty,         \* the objects whose client may hang up and whose journal
                    \* file may fail (a bound)
    MaxRestarts     \* bound on process restarts

ASSUME WritebackAssumption ==
    /\ Objects \subseteq Nat
    /\ Lens \subseteq Nat
    /\ SizeLimit \in Nat \ {0}
    /\ Attempts \in Nat \ {0}
    /\ Through \subseteq Objects
    /\ Faulty \subseteq Objects
    /\ MaxRestarts \in Nat

None    == -1       \* no object
Drainer == -2       \* the periodic drain loop, as the owner of a flush
Deleter == -3       \* a DELETE, as the holder of a key lock
Owners  == Objects \cup {Drainer}

VARIABLES
    keyOf,          \* the key of each object that was ever written
    len,            \* its length
    pc,             \* where the task of each object stands
    tries,          \* attempts of that task's direct upload
    lock,           \* key_locks: the holder of each key's guard
    delPc,          \* the step of the DELETE that holds a key's guard
    journal,        \* the journal file of each object: absent, dirty, clean
    frags,          \* the objects whose fragments can still be reassembled
    dirty,          \* JournalStore.dirty: the object each key is indexed to
    stream,         \* OffloadBuffer.pending
    bytes,          \* OffloadBuffer.bytes
    flush,          \* the flush_pack call each owner is in
    packIndex,      \* PackIndex.entries: the packed object each key reads
    origin,         \* the object stored at each key of the origin
    shutdown,       \* the coordinator's shutdown flag
    restarts,       \* restarts so far
    latest,         \* history: the last acknowledged operation of each key
    uploaded,       \* history: the objects the origin accepted at their key
    packed,         \* history: the objects of the committed packs
    dropped,        \* history: the objects whose journal a DELETE removed
    shadowed,       \* history: the keys a restart found two dirty journals of
    torn            \* history: the keys whose last operation is a DELETE that
                    \* failed half-way

coordVars == <<keyOf, len, pc, tries, lock, delPc>>
diskVars  == <<journal, frags>>
offVars   == <<stream, bytes, flush>>
histVars  == <<latest, uploaded, packed, dropped, shadowed, torn>>
vars == <<coordVars, diskVars, dirty, offVars, packIndex, origin, shutdown,
          restarts, histVars>>

IdleFlush == [stage |-> "idle", todo |-> <<>>, pack |-> <<>>, tries |-> 0]

Stages == {"idle", "reading", "uploading", "indexing", "cleaning", "freeing"}

PCs == {"idle", "staging", "committed", "acked", "flushing", "resume",
        "bypass", "uploaded", "cleaned", "done", "failed", "orphan", "stray"}

Init ==
    /\ keyOf = [o \in Objects |-> None]
    /\ len = [o \in Objects |-> 0]
    /\ pc = [o \in Objects |-> "idle"]
    /\ tries = [o \in Objects |-> 0]
    /\ lock = [k \in Keys |-> None]
    /\ delPc = [k \in Keys |-> "idle"]
    /\ journal = [o \in Objects |-> "absent"]
    /\ frags = {}
    /\ dirty = [k \in Keys |-> None]
    /\ stream = <<>>
    /\ bytes = 0
    /\ flush = [t \in Owners |-> IdleFlush]
    /\ packIndex = [k \in Keys |-> None]
    /\ origin = [k \in Keys |-> None]
    /\ shutdown = FALSE
    /\ restarts = 0
    /\ latest = [k \in Keys |-> None]
    /\ uploaded = {}
    /\ packed = {}
    /\ dropped = {}
    /\ shadowed = {}
    /\ torn = {}

-----------------------------------------------------------------------------
(* JournalStore. *)

\* Mutant: an older object of the key clears the index too.
RemoveIndexAny(o) == [dirty EXCEPT ![keyOf[o]] = None]

(* remove_index: only the current holder of its key leaves the index. *)
RemoveIndex(o) ==
    IF dirty[keyOf[o]] = o THEN [dirty EXCEPT ![keyOf[o]] = None] ELSE dirty

(* mark_clean: rewrite an existing journal as clean and unindex it. *)
MarkClean(o) ==
    /\ journal' = IF journal[o] = "absent" THEN journal
                  ELSE [journal EXCEPT ![o] = "clean"]
    /\ dirty' = IF journal[o] = "absent" THEN dirty ELSE RemoveIndex(o)

(* Free the fragments of o, then JournalStore::delete. *)
Free(o) ==
    /\ frags' = frags \ {o}
    /\ journal' = [journal EXCEPT ![o] = "absent"]
    /\ dirty' = IF journal[o] = "absent" THEN dirty ELSE RemoveIndex(o)

(* open_inner: the dirty journals are inserted in the order of their ids,   *)
(* so of two journals of one key the larger id stays indexed.               *)
DirtyOf(k) == {o \in Objects : journal[o] = "dirty" /\ keyOf[o] = k}

Rebuilt == [k \in Keys |->
              IF DirtyOf(k) = {} THEN None
              ELSE CHOOSE o \in DirtyOf(k) : \A p \in DirtyOf(k) : p <= o]

-----------------------------------------------------------------------------
(* PUT. *)

(* put_stream takes the key's guard, then stages the body as fragments. *)
PutStart(o, k, n) ==
    /\ pc[o] = "idle" /\ o \notin Through
    /\ lock[k] = None
    /\ keyOf' = [keyOf EXCEPT ![o] = k]
    /\ len' = [len EXCEPT ![o] = n]
    /\ pc' = [pc EXCEPT ![o] = "staging"]
    /\ lock' = [lock EXCEPT ![k] = o]
    /\ UNCHANGED <<tries, delPc, diskVars, dirty, offVars, packIndex, origin,
                   shutdown, restarts, histVars>>

(* A body error, a placement shortfall, the ack deadline, a refused header  *)
(* commit or a failed journal write: the error reaches the client and the   *)
(* guard is dropped.  The fragments are cleaned up after a shortfall and    *)
(* leaked after a later failure: nothing names them.                        *)
PutFail(o) ==
    /\ pc[o] \in {"staging", "committed"}
    /\ pc' = [pc EXCEPT ![o] = "failed"]
    /\ lock' = [lock EXCEPT ![keyOf[o]] = None]
    /\ frags' = IF pc[o] = "staging" THEN frags \ {o} ELSE frags
    /\ UNCHANGED <<keyOf, len, tries, delPc, journal, dirty, offVars,
                   packIndex, origin, shutdown, restarts, histVars>>

(* The journal write fails after its rename (write_fsynced syncs the        *)
(* directory last): the client is refused, yet a dirty journal that is not  *)
(* indexed stays for a restart to find.                                     *)
PutStray(o) ==
    /\ pc[o] = "committed" /\ o \in Faulty
    /\ pc' = [pc EXCEPT ![o] = "stray"]
    /\ journal' = [journal EXCEPT ![o] = "dirty"]
    /\ lock' = [lock EXCEPT ![keyOf[o]] = None]
    /\ UNCHANGED <<keyOf, len, tries, delPc, frags, dirty, offVars,
                   packIndex, origin, shutdown, restarts, histVars>>

(* The client hangs up while journals.put runs on the blocking pool: the    *)
(* dropped future frees the guard, the put goes on.                         *)
PutCancel(o) ==
    /\ pc[o] = "committed" /\ o \in Faulty
    /\ pc' = [pc EXCEPT ![o] = "orphan"]
    /\ lock' = [lock EXCEPT ![keyOf[o]] = None]
    /\ UNCHANGED <<keyOf, len, tries, delPc, diskVars, dirty, offVars,
                   packIndex, origin, shutdown, restarts, histVars>>

(* That put ends without a guard, whatever was written or deleted since: it *)
(* fails, or writes the journal and may index it.  No task offloads it.     *)
LateJournal(o) ==
    /\ pc[o] = "orphan"
    /\ \/ /\ pc' = [pc EXCEPT ![o] = "failed"]
          /\ UNCHANGED <<journal, dirty>>
       \/ /\ pc' = [pc EXCEPT ![o] = "stray"]
          /\ journal' = [journal EXCEPT ![o] = "dirty"]
          /\ dirty' \in {dirty, [dirty EXCEPT ![keyOf[o]] = o]}
    /\ UNCHANGED <<keyOf, len, tries, lock, delPc, frags, offVars, packIndex,
                   origin, shutdown, restarts, histVars>>

(* w fragments are durable and finish_stream_ack commits the header. *)
PutCommit(o) ==
    /\ pc[o] = "staging"
    /\ pc' = [pc EXCEPT ![o] = "committed"]
    /\ frags' = frags \cup {o}
    /\ UNCHANGED <<keyOf, len, tries, lock, delPc, journal, dirty, offVars,
                   packIndex, origin, shutdown, restarts, histVars>>

(* JournalStore::put writes and indexes the dirty journal; the client is    *)
(* acknowledged while the spawned task keeps the guard.                     *)
PutAck(o) ==
    /\ pc[o] = "committed"
    /\ pc' = [pc EXCEPT ![o] = "acked"]
    /\ journal' = [journal EXCEPT ![o] = "dirty"]
    /\ dirty' = [dirty EXCEPT ![keyOf[o]] = o]
    /\ latest' = [latest EXCEPT ![keyOf[o]] = o]
    /\ torn' = torn \ {keyOf[o]}
    /\ UNCHANGED <<keyOf, len, tries, lock, delPc, frags, offVars, packIndex,
                   origin, shutdown, restarts, uploaded, packed, dropped,
                   shadowed>>

(* A write the tier delegates goes straight to the origin: no guard, no     *)
(* journal, and the pack index keeps its row.                               *)
WriteThrough(o, k) ==
    /\ pc[o] = "idle" /\ o \in Through
    /\ pc' = [pc EXCEPT ![o] = "done"]
    /\ keyOf' = [keyOf EXCEPT ![o] = k]
    /\ origin' = [origin EXCEPT ![k] = o]
    /\ latest' = [latest EXCEPT ![k] = o]
    /\ uploaded' = uploaded \cup {o}
    /\ torn' = torn \ {k}
    /\ UNCHANGED <<len, tries, lock, delPc, diskVars, dirty, offVars,
                   packIndex, shutdown, restarts, packed, dropped, shadowed>>

-----------------------------------------------------------------------------
(* Offload. *)

Release(o) == lock' = [lock EXCEPT ![keyOf[o]] = None]

\* Mutant: the guard is dropped before the direct upload.
BeginBypassUnlocked(o) ==
    /\ pc' = [pc EXCEPT ![o] = IF shutdown THEN "done" ELSE "bypass"]
    /\ Release(o)
    /\ UNCHANGED <<keyOf, len, tries, delPc, diskVars, dirty, offVars,
                   packIndex, origin, shutdown, restarts, histVars>>

(* bypass_upload_with_retry begins: its first attempt is under way, unless  *)
(* the coordinator is shutting down.                                        *)
BeginBypass(o) ==
    /\ pc' = [pc EXCEPT ![o] = IF shutdown THEN "done" ELSE "bypass"]
    /\ lock' = [lock EXCEPT ![keyOf[o]] = IF shutdown THEN None ELSE o]
    /\ UNCHANGED <<keyOf, len, tries, delPc, diskVars, dirty, offVars,
                   packIndex, origin, shutdown, restarts, histVars>>

(* offload, object_len > size_limit: a direct upload under the guard. *)
OffloadBypass(o) ==
    /\ pc[o] = "acked" /\ len[o] > SizeLimit
    /\ BeginBypass(o)

(* offload, append below the limit: the guard is dropped with the object    *)
(* still pending in the stream.                                             *)
OffloadPend(o) ==
    /\ pc[o] = "acked" /\ len[o] <= SizeLimit
    /\ bytes + len[o] < SizeLimit
    /\ stream' = Append(stream, o)
    /\ bytes' = bytes + len[o]
    /\ pc' = [pc EXCEPT ![o] = "done"]
    /\ Release(o)
    /\ UNCHANGED <<keyOf, len, tries, delPc, diskVars, dirty, flush,
                   packIndex, origin, shutdown, restarts, histVars>>

StartFlush(t, batch) ==
    /\ flush' = [flush EXCEPT ![t] = [IdleFlush EXCEPT !.stage = "reading",
                                                       !.todo = batch]]
    /\ stream' = <<>>
    /\ bytes' = 0

(* offload, append reaching the limit: this task flushes the whole batch    *)
(* under the guard of its own key only.                                     *)
OffloadFlush(o) ==
    /\ pc[o] = "acked" /\ len[o] <= SizeLimit
    /\ bytes + len[o] >= SizeLimit
    /\ StartFlush(o, Append(stream, o))
    /\ pc' = [pc EXCEPT ![o] = "flushing"]
    /\ UNCHANGED <<keyOf, len, tries, lock, delPc, diskVars, dirty, packIndex,
                   origin, shutdown, restarts, histVars>>

(* drain_all_offload: the drain loop flushes whatever is pending; it holds  *)
(* no key's guard.                                                          *)
Drain ==
    /\ flush[Drainer].stage = "idle"
    /\ stream # <<>>
    /\ StartFlush(Drainer, stream)
    /\ UNCHANGED <<coordVars, diskVars, dirty, packIndex, origin, shutdown,
                   restarts, histVars>>

(* The end of flush_pack: the task that carried it drops its guard. *)
EndFlush(t) ==
    /\ flush' = [flush EXCEPT ![t] = IdleFlush]
    /\ IF t = Drainer
       THEN UNCHANGED <<pc, lock>>
       ELSE /\ pc' = [pc EXCEPT ![t] = "done"]
            /\ Release(t)

(* flush_pack reads the journal of the next pending object and reassembles  *)
(* it; an absent or clean journal, or a failed reassembly, is skipped.      *)
FlushRead(t) ==
    LET f == flush[t]
        o == Head(f.todo)
        ok == journal[o] = "dirty" /\ o \in frags
    IN  /\ f.stage = "reading" /\ f.todo # <<>>
        /\ \E pick \in IF ok THEN {TRUE, FALSE} ELSE {FALSE} :
             flush' = [flush EXCEPT ![t].todo = Tail(@),
                                    ![t].pack = IF pick THEN Append(@, o) ELSE @]
        /\ UNCHANGED <<coordVars, diskVars, dirty, stream, bytes, packIndex,
                       origin, shutdown, restarts, histVars>>

(* The batch is read: the first upload attempt begins, unless nothing was   *)
(* packed or the coordinator is shutting down.                              *)
FlushSeal(t) ==
    LET f == flush[t]
    IN  /\ f.stage = "reading" /\ f.todo = <<>>
        /\ IF f.pack = <<>> \/ shutdown
           THEN EndFlush(t)
           ELSE /\ flush' = [flush EXCEPT ![t].stage = "uploading"]
                /\ UNCHANGED <<pc, lock>>
        /\ UNCHANGED <<keyOf, len, tries, delPc, diskVars, dirty, stream,
                       bytes, packIndex, origin, shutdown, restarts, histVars>>

PackSet(t) == {flush[t].pack[i] : i \in 1..Len(flush[t].pack)}

(* upload_and_commit_pack succeeds: pack object and index are durable. *)
FlushCommit(t) ==
    /\ flush[t].stage = "uploading"
    /\ flush' = [flush EXCEPT ![t].stage = "indexing"]
    /\ packed' = packed \cup PackSet(t)
    /\ UNCHANGED <<coordVars, diskVars, dirty, stream, bytes, packIndex,
                   origin, shutdown, restarts, latest, uploaded, dropped,
                   shadowed, torn>>

\* Mutant: the last failure falls through to the clean-up.
FlushFailThrough(t) ==
    /\ flush[t].stage = "uploading"
    /\ flush' = IF shutdown \/ flush[t].tries + 1 = Attempts
                THEN [flush EXCEPT ![t].stage = "cleaning"]
                ELSE [flush EXCEPT ![t].tries = @ + 1]
    /\ UNCHANGED <<coordVars, diskVars, dirty, stream, bytes, packIndex, origin,
                   shutdown, restarts, histVars>>

(* An attempt fails: after the last one, or when the coordinator is         *)
(* shutting down, the batch is dropped, its objects dirty and in no stream. *)
FlushFail(t) ==
    /\ flush[t].stage = "uploading"
    /\ IF shutdown \/ flush[t].tries + 1 = Attempts
       THEN EndFlush(t)
       ELSE /\ flush' = [flush EXCEPT ![t].tries = @ + 1]
            /\ UNCHANGED <<pc, lock>>
    /\ UNCHANGED <<keyOf, len, tries, delPc, diskVars, dirty, stream, bytes,
                   packIndex, origin, shutdown, restarts, histVars>>

\* Mutant: the rows of the pack are not inserted.
FlushIndexSkipped(t) ==
    /\ flush[t].stage = "indexing"
    /\ flush' = [flush EXCEPT ![t].stage = "cleaning"]
    /\ UNCHANGED <<coordVars, diskVars, dirty, stream, bytes, packIndex, origin,
                   shutdown, restarts, histVars>>

(* pack_index.insert of every packed row: the last row of a key stays. *)
FlushIndex(t) ==
    LET p == flush[t].pack
        At(k) == {i \in 1..Len(p) : keyOf[p[i]] = k}
        Last(k) == CHOOSE i \in At(k) : \A j \in At(k) : j <= i
    IN  /\ flush[t].stage = "indexing"
        /\ packIndex' = [k \in Keys |-> IF At(k) = {} THEN packIndex[k]
                                        ELSE p[Last(k)]]
        /\ flush' = [flush EXCEPT ![t].stage = "cleaning"]
        /\ UNCHANGED <<coordVars, diskVars, dirty, stream, bytes, origin,
                       shutdown, restarts, histVars>>

(* mark_clean of the next packed object. *)
FlushClean(t) ==
    LET f == flush[t]
    IN  /\ f.stage = "cleaning" /\ f.pack # <<>>
        /\ MarkClean(Head(f.pack))
        /\ flush' = [flush EXCEPT ![t].stage = "freeing"]
        /\ UNCHANGED <<coordVars, frags, stream, bytes, packIndex, origin,
                       shutdown, restarts, histVars>>

(* Its fragments and its journal are deleted. *)
FlushFree(t) ==
    LET f == flush[t]
    IN  /\ f.stage = "freeing"
        /\ Free(Head(f.pack))
        /\ flush' = [flush EXCEPT ![t].stage = "cleaning", ![t].pack = Tail(@)]
        /\ UNCHANGED <<coordVars, stream, bytes, packIndex, origin, shutdown,
                       restarts, histVars>>

FlushEnd(t) ==
    /\ flush[t].stage = "cleaning" /\ flush[t].pack = <<>>
    /\ EndFlush(t)
    /\ UNCHANGED <<keyOf, len, tries, delPc, diskVars, dirty, stream, bytes,
                   packIndex, origin, shutdown, restarts, histVars>>

-----------------------------------------------------------------------------
(* The direct upload. *)

(* bypass_upload_once puts a dirty object at its own key of the origin. *)
BypassUpload(o) ==
    /\ pc[o] = "bypass"
    /\ journal[o] = "dirty" /\ o \in frags
    /\ origin' = [origin EXCEPT ![keyOf[o]] = o]
    /\ uploaded' = uploaded \cup {o}
    /\ pc' = [pc EXCEPT ![o] = "uploaded"]
    /\ UNCHANGED <<keyOf, len, tries, lock, delPc, diskVars, dirty, offVars,
                   packIndex, shutdown, restarts, latest, packed, dropped,
                   shadowed, torn>>

(* Reassembly or the origin's PUT fails: retried up to the last attempt,    *)
(* then the guard is dropped and the journal left dirty.  A shutdown, or a  *)
(* journal that is gone or clean, ends the task at once.                    *)
BypassFail(o) ==
    /\ pc[o] = "bypass"
    /\ LET over == shutdown \/ journal[o] # "dirty" \/ tries[o] + 1 = Attempts
       IN  /\ tries' = [tries EXCEPT ![o] = IF over THEN 0 ELSE @ + 1]
           /\ pc' = [pc EXCEPT ![o] = IF over THEN "done" ELSE @]
           /\ lock' = [lock EXCEPT ![keyOf[o]] = IF over THEN None ELSE @]
    /\ UNCHANGED <<keyOf, len, delPc, diskVars, dirty, offVars, packIndex,
                   origin, shutdown, restarts, histVars>>

BypassClean(o) ==
    /\ pc[o] = "uploaded"
    /\ MarkClean(o)
    /\ pc' = [pc EXCEPT ![o] = "cleaned"]
    /\ UNCHANGED <<keyOf, len, tries, lock, delPc, frags, offVars, packIndex,
                   origin, shutdown, restarts, histVars>>

(* mark_clean fails, before its rename or after it, when the journal is     *)
(* clean and still indexed: the attempt counts as failed, and the next one, *)
(* if there is one, uploads a dirty object again.                           *)
BypassCleanFail(o) ==
    /\ pc[o] = "uploaded" /\ o \in Faulty
    /\ journal[o] # "absent"
    /\ journal' \in {journal, [journal EXCEPT ![o] = "clean"]}
    /\ LET over == shutdown \/ tries[o] + 1 = Attempts
       IN  /\ tries' = [tries EXCEPT ![o] = IF over THEN 0 ELSE @ + 1]
           /\ pc' = [pc EXCEPT ![o] = IF over THEN "done" ELSE "bypass"]
           /\ lock' = [lock EXCEPT ![keyOf[o]] = IF over THEN None ELSE @]
    /\ UNCHANGED <<keyOf, len, delPc, frags, dirty, offVars, packIndex,
                   origin, shutdown, restarts, histVars>>

BypassFree(o) ==
    /\ pc[o] = "cleaned"
    /\ Free(o)
    /\ pc' = [pc EXCEPT ![o] = "done"]
    /\ Release(o)
    /\ UNCHANGED <<keyOf, len, tries, delPc, offVars, packIndex, origin,
                   shutdown, restarts, histVars>>

-----------------------------------------------------------------------------
(* DELETE. *)

(* The origin's delete succeeds under the key's guard.  When it fails the   *)
(* DELETE returns its error and nothing has changed.                        *)
DeleteOrigin(k) ==
    /\ lock[k] = None
    /\ lock' = [lock EXCEPT ![k] = Deleter]
    /\ delPc' = [delPc EXCEPT ![k] = "index"]
    /\ origin' = [origin EXCEPT ![k] = None]
    /\ UNCHANGED <<keyOf, len, pc, tries, diskVars, dirty, offVars, packIndex,
                   shutdown, restarts, histVars>>

DeleteIndex(k) ==
    /\ delPc[k] = "index"
    /\ packIndex' = [packIndex EXCEPT ![k] = None]
    /\ delPc' = [delPc EXCEPT ![k] = "journal"]
    /\ UNCHANGED <<keyOf, len, pc, tries, lock, diskVars, dirty, offVars,
                   origin, shutdown, restarts, histVars>>

(* find_dirty, JournalStore::delete and the fragments of the one object the *)
(* index names; then the DELETE succeeds.                                   *)
DeleteJournal(k) ==
    LET o == dirty[k]
    IN  /\ delPc[k] = "journal"
        /\ journal' = IF o = None THEN journal
                      ELSE [journal EXCEPT ![o] = "absent"]
        /\ frags' = frags \ {o}
        /\ dropped' = dropped \cup ({o} \ {None})
        /\ dirty' = [dirty EXCEPT ![k] = None]
        /\ lock' = [lock EXCEPT ![k] = None]
        /\ delPc' = [delPc EXCEPT ![k] = "idle"]
        /\ latest' = [latest EXCEPT ![k] = None]
        /\ torn' = torn \ {k}
        /\ UNCHANGED <<keyOf, len, pc, tries, offVars, packIndex, origin,
                       shutdown, restarts, uploaded, packed, shadowed>>

(* Reading the journal fails, or unlinking it once it is unindexed: the     *)
(* DELETE fails although the origin's object and the pack row are gone.     *)
DeleteFail(k) ==
    /\ delPc[k] = "journal" /\ dirty[k] \in Faulty
    /\ dirty' \in {dirty, [dirty EXCEPT ![k] = None]}
    /\ lock' = [lock EXCEPT ![k] = None]
    /\ delPc' = [delPc EXCEPT ![k] = "idle"]
    /\ torn' = torn \cup {k}
    /\ UNCHANGED <<keyOf, len, pc, tries, diskVars, offVars, packIndex, origin,
                   shutdown, restarts, latest, uploaded, packed, dropped,
                   shadowed>>

-----------------------------------------------------------------------------
(* Shutdown, crash and restart. *)

Shutdown ==
    /\ ~shutdown
    /\ shutdown' = TRUE
    /\ UNCHANGED <<coordVars, diskVars, dirty, offVars, packIndex, origin,
                   restarts, histVars>>

(* The process dies at any point and is started again: the journals and     *)
(* fragments on disk, the origin and the committed packs survive; the       *)
(* stream, the pack index and every task do not.  open_inner rebuilds the   *)
(* dirty index and resume_propagation starts a task for each indexed        *)
(* object, which still has to take its key's guard.                         *)
Restart ==
    /\ restarts < MaxRestarts
    /\ restarts' = restarts + 1
    /\ shutdown' = FALSE
    /\ dirty' = Rebuilt
    /\ shadowed' = shadowed \cup {k \in Keys : Cardinality(DirtyOf(k)) > 1}
    /\ pc' = [o \in Objects |->
                IF \E k \in Keys : Rebuilt[k] = o THEN "resume"
                ELSE IF pc[o] \in {"staging", "committed", "orphan"} THEN "failed"
                ELSE IF pc[o] \in {"idle", "failed"} THEN pc[o] ELSE "done"]
    /\ tries' = [o \in Objects |-> 0]
    /\ lock' = [k \in Keys |-> None]
    /\ delPc' = [k \in Keys |-> "idle"]
    /\ stream' = <<>>
    /\ bytes' = 0
    /\ flush' = [t \in Owners |-> IdleFlush]
    /\ packIndex' = [k \in Keys |-> None]
    /\ UNCHANGED <<keyOf, len, diskVars, origin, latest, uploaded, packed,
                   dropped, torn>>

(* resume_propagation's task gets the guard; its journal may be gone. *)
Resume(o) ==
    /\ pc[o] = "resume"
    /\ lock[keyOf[o]] = None
    /\ BeginBypass(o)

-----------------------------------------------------------------------------
TaskStep(o) ==
    \/ PutFail(o) \/ PutCommit(o) \/ PutAck(o)
    \/ PutStray(o) \/ PutCancel(o) \/ LateJournal(o)
    \/ OffloadBypass(o) \/ OffloadPend(o) \/ OffloadFlush(o)
    \/ BypassUpload(o) \/ BypassFail(o) \/ BypassClean(o)
    \/ BypassCleanFail(o) \/ BypassFree(o)

FlushStep(t) ==
    \/ FlushRead(t) \/ FlushSeal(t) \/ FlushCommit(t) \/ FlushFail(t)
    \/ FlushIndex(t) \/ FlushClean(t) \/ FlushFree(t) \/ FlushEnd(t)

DeleteStep(k) == DeleteIndex(k) \/ DeleteJournal(k) \/ DeleteFail(k)

Next ==
    \/ \E o \in Objects, k \in Keys :
         \/ \E n \in Lens : PutStart(o, k, n)
         \/ WriteThrough(o, k)
    \/ \E o \in Objects : TaskStep(o) \/ Resume(o)
    \/ \E t \in Owners : FlushStep(t)
    \/ Drain
    \/ \E k \in Keys : DeleteOrigin(k) \/ DeleteStep(k)
    \/ Shutdown
    \/ Restart

Spec == Init /\ [][Next]_vars

-----------------------------------------------------------------------------
(* What a reader and the commit barrier see. *)

(* WritebackReader::get: the dirty journal first, then the pack index, then *)
(* the origin.                                                              *)
Get(k) ==
    IF dirty[k] # None /\ journal[dirty[k]] # "absent" THEN dirty[k]
    ELSE IF packIndex[k] # None THEN packIndex[k] ELSE origin[k]

(* JournalBarrier::await_referenced lets a commit pass. *)
BarrierOpen(k) == dirty[k] = None

-----------------------------------------------------------------------------
(* Properties. *)

FlushType == [stage : Stages, todo : Seq(Objects), pack : Seq(Objects),
              tries : 0..(Attempts - 1)]

TypeOK ==
    /\ keyOf \in [Objects -> Keys \cup {None}]
    /\ len \in [Objects -> Lens \cup {0}]
    /\ pc \in [Objects -> PCs]
    /\ tries \in [Objects -> 0..(Attempts - 1)]
    /\ lock \in [Keys -> Objects \cup {None, Deleter}]
    /\ delPc \in [Keys -> {"idle", "index", "journal"}]
    /\ journal \in [Objects -> {"absent", "dirty", "clean"}]
    /\ frags \subseteq Objects
    /\ dirty \in [Keys -> Objects \cup {None}]
    /\ stream \in Seq(Objects)
    /\ bytes \in Nat
    /\ flush \in [Owners -> FlushType]
    /\ packIndex \in [Keys -> Objects \cup {None}]
    /\ origin \in [Keys -> Objects \cup {None}]
    /\ shutdown \in BOOLEAN
    /\ restarts \in 0..MaxRestarts
    /\ latest \in [Keys -> Objects \cup {None}]
    /\ uploaded \subseteq Objects
    /\ packed \subseteq Objects
    /\ dropped \subseteq Objects
    /\ shadowed \subseteq Keys
    /\ torn \subseteq Keys

(* The origin has accepted the bytes of o, at its key or inside a pack. *)
Offloaded(o) == o \in uploaded \cup packed

(* The journal of o was written, whatever its client was told. *)
Journaled(o) ==
    /\ o \notin Through
    /\ pc[o] \notin {"idle", "staging", "committed", "failed", "orphan"}

(* No journaled object, hence no acknowledged one, is lost by the tier:     *)
(* until a DELETE removes it, it is in a dirty journal with its fragments,  *)
(* or the origin has accepted it, alone or in a committed pack.  Failed     *)
(* flushes, exhausted uploads, hang-ups, failing journal files, shutdowns   *)
(* and a crash between any two steps of the clean-up included.              *)
AckedDurable ==
    \A o \in Objects :
      Journaled(o) => \/ Offloaded(o)
                      \/ journal[o] = "dirty" /\ o \in frags
                      \/ o \in dropped

(* What await_referenced leaves a committer sure of: when the barrier lets  *)
(* a key pass, the last acknowledged write of that key was put at that key  *)
(* of the origin or, if the offload groups objects of its length, is in a   *)
(* committed pack.  An older object of the key that is flushed, or replayed *)
(* after a restart, never opens the barrier for a newer one.  Excepted are  *)
(* the keys of which a restart found two dirty journals, since only one of  *)
(* them is indexed, and the keys of a DELETE that failed half-way.          *)
BarrierSound ==
    \A k \in Keys \ (shadowed \cup torn) :
      (BarrierOpen(k) /\ latest[k] # None) =>
        \/ latest[k] \in uploaded
        \/ latest[k] \in packed /\ len[latest[k]] <= SizeLimit

(* What barrier.rs promises more: a commit "can never publish files absent  *)
(* from the origin" to readers that go to the origin directly.  A grouped   *)
(* object is not at its key (writeback_barrier.cfg).                        *)
BarrierAtKey ==
    \A k \in Keys \ (shadowed \cup torn) :
      (BarrierOpen(k) /\ latest[k] # None) => latest[k] \in uploaded

(* A key all of whose objects go to the origin directly, and none of which  *)
(* was journaled behind its client's back, is linearizable until the first  *)
(* restart: with no operation in progress a read returns the last           *)
(* acknowledged write, or nothing after a DELETE, also when uploads or      *)
(* clean-ups were exhausted and older journals are still dirty.  A DELETE   *)
(* that failed half-way leaves it open until the next write.                *)
DirectOnly(k) ==
    \A o \in Objects : (pc[o] # "idle" /\ keyOf[o] = k) =>
                        o \notin Through /\ len[o] > SizeLimit /\ pc[o] # "stray"

DirectKeyLinear ==
    \A k \in Keys \ torn :
      (restarts = 0 /\ DirectOnly(k) /\ lock[k] = None) => Get(k) = latest[k]

(* An acknowledged key stays readable until the first restart: a reader may *)
(* see an older version but never finds the key missing, unless a DELETE is *)
(* under way or has failed half-way.                                        *)
NeverMissing ==
    \A k \in Keys \ torn :
      (restarts = 0 /\ latest[k] # None /\ lock[k] # Deleter) => Get(k) # None

(* What key_locks and finish_stream_ack promise: a PUT holds its guard so   *)
(* that a later DELETE cannot "be resurrected by it", which "makes a        *)
(* subsequent successful DELETE final" (coordinator.rs).  A deleted key     *)
(* stays absent until something is written to it.                           *)
DeleteFinal ==
    [][\A k \in Keys :
         (latest[k] = None /\ Get(k) = None /\ lock[k] = None
            /\ latest'[k] = None) => Get(k)' = None]_vars

=============================================================================

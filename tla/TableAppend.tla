------------------------------ MODULE TableAppend ------------------------------
(***************************************************************************)
(* Appends to one Iceberg table through the table services of the cache      *)
(* nodes (verglas-iceberg async_ingest.rs, tables_api.rs, write.rs and the   *)
(* ingest route of cache-node/tables_api.rs): the journaled asynchronous     *)
(* append with its coalescing committer and its replay after a restart, and  *)
(* the synchronous append under a client's idempotency key, which looks the  *)
(* key up through the process's TableCache.                                  *)
(*                                                                           *)
(* The table is the sequence of its snapshots.  A commit's idempotency key   *)
(* determines its rows: the sorted WAL ids of a coalesced commit, or the     *)
(* client's key, so a snapshot is the set of the requests it holds.  The     *)
(* catalog is external: a commit attempt fetches the table and lands only if *)
(* nobody committed in between.                                              *)
(***************************************************************************)
EXTENDS Integers, Sequences, FiniteSets

CONSTANTS
    Nodes,          \* serving processes, each with its WAL directory and cache
    Entries,        \* asynchronous append requests
    Key,            \* the request of a client that retries under one key
    MaxTries,       \* how often that client sends it
    CommitAttempts, \* COMMIT_ATTEMPTS of commit_data_files
    MaxCrashes,     \* bound on process crashes
    MaxFaults,      \* bound on failed calls and lost answers
    None

ASSUME AppendAssumption ==
    /\ Key \notin Entries /\ MaxTries \in Nat
    /\ CommitAttempts \in Nat \ {0}
    /\ MaxCrashes \in Nat /\ MaxFaults \in Nat

Tries == 1..MaxTries
NoJob == [pc |-> "none", mode |-> "drain", ids |-> {}, base |-> 0, tries |-> 0]

VARIABLES
    snaps,      \* the table's snapshots
    phase,      \* how far the ingest handler of an entry got
    home,       \* the node that serves it
    wal,        \* the WAL files on each node's disk
    pending,    \* TableQueueState.pending
    committing, \* TableQueueState.committing
    job,        \* the background commit, or the replay, of a node
    replayed,   \* the OnceCell of TableState
    cache,      \* TableCache: how many snapshots the cached table has
    try,        \* the attempts of the keyed request
    crashes, faults,
    gaveup      \* a commit has ended in an error

queueVars == <<wal, pending, committing, job, replayed>>
vars == <<snaps, phase, home, queueVars, cache, try, crashes, faults, gaveup>>

Init ==
    /\ snaps = <<>>
    /\ phase = [e \in Entries |-> "new"] /\ home = [e \in Entries |-> None]
    /\ wal = [n \in Nodes |-> {}] /\ pending = [n \in Nodes |-> {}]
    /\ committing = [n \in Nodes |-> FALSE]
    /\ job = [n \in Nodes |-> NoJob]
    /\ replayed = [n \in Nodes |-> FALSE]
    /\ cache = [n \in Nodes |-> None]
    /\ try = [i \in Tries |-> [pc |-> "new", node |-> None, base |-> 0, tries |-> 0]]
    /\ crashes = 0 /\ faults = 0 /\ gaveup = FALSE

\* Mutant: a key matches when it shares an entry.
HasAny(v, rows) == \E i \in 1..v : snaps[i] \cap rows # {}
(* find_idempotent_commit over the first v snapshots. *)
Has(v, rows) == \E i \in 1..v : snaps[i] = rows
Committed(r) == \E i \in 1..Len(snaps) : r \in snaps[i]

(* A conflict is retried up to the last attempt. *)
MoreAttempts(tries) == tries < CommitAttempts

Fault == faults < MaxFaults /\ faults' = faults + 1

-----------------------------------------------------------------------------
(* The ingest handler of an asynchronous append. *)

(* async_queue: the first asynchronous request since the start of the       *)
(* process, even one without rows, replays the journal before it goes on.   *)
ReplayStart(n) ==
    /\ ~replayed[n] /\ job[n] = NoJob
    /\ IF wal[n] = {}
       THEN replayed' = [replayed EXCEPT ![n] = TRUE] /\ UNCHANGED job
       ELSE /\ job' = [job EXCEPT ![n] = [NoJob EXCEPT !.pc = "load", !.mode = "replay",
                                                       !.ids = wal[n]]]
            /\ UNCHANGED replayed
    /\ UNCHANGED <<snaps, phase, home, wal, pending, committing, cache, try,
                   crashes, faults, gaveup>>

(* ack_append: the rows are fsynced to a WAL file of their own. *)
Journal(n, e) ==
    /\ phase[e] = "new" /\ replayed[n]
    /\ home' = [home EXCEPT ![e] = n]
    /\ \/ /\ phase' = [phase EXCEPT ![e] = "journaled"]
          /\ wal' = [wal EXCEPT ![n] = @ \cup {e}]
          /\ UNCHANGED faults
       \/ /\ Fault
          /\ phase' = [phase EXCEPT ![e] = "refused"]
          /\ wal' \in {wal, [wal EXCEPT ![n] = @ \cup {e}]}
    /\ UNCHANGED <<snaps, pending, committing, job, replayed, cache, try,
                   crashes, gaveup>>

Push(e) ==
    /\ phase[e] = "journaled"
    /\ phase' = [phase EXCEPT ![e] = "pushed"]
    /\ pending' = [pending EXCEPT ![home[e]] = @ \cup {e}]
    /\ UNCHANGED <<snaps, home, wal, committing, job, replayed, cache, try,
                   crashes, faults, gaveup>>

(* spawn_commit_if_idle, then the answer. *)
SpawnAndAck(e) ==
    LET n == home[e]
    IN  /\ phase[e] = "pushed"
        /\ phase' = [phase EXCEPT ![e] = "acked"]
        /\ committing' = [committing EXCEPT ![n] = @ \/ pending[n] # {}]
        /\ UNCHANGED <<snaps, home, wal, pending, job, replayed, cache, try,
                       crashes, faults, gaveup>>

-----------------------------------------------------------------------------
(* drain_and_commit_loop, and the commit of replay. *)

\* Mutant: the committer waits for a second entry.
DrainPairs(n) ==
    /\ committing[n] /\ job[n] = NoJob /\ Cardinality(pending[n]) # 1
    /\ IF pending[n] = {}
       THEN committing' = [committing EXCEPT ![n] = FALSE] /\ UNCHANGED <<job, pending>>
       ELSE /\ job' = [job EXCEPT ![n] = [NoJob EXCEPT !.pc = "load", !.ids = pending[n]]]
            /\ pending' = [pending EXCEPT ![n] = {}]
            /\ UNCHANGED committing
    /\ UNCHANGED <<snaps, phase, home, wal, replayed, cache, try, crashes,
                   faults, gaveup>>

Drain(n) ==
    /\ committing[n] /\ job[n] = NoJob
    /\ IF pending[n] = {}
       THEN committing' = [committing EXCEPT ![n] = FALSE] /\ UNCHANGED <<job, pending>>
       ELSE /\ job' = [job EXCEPT ![n] = [NoJob EXCEPT !.pc = "load", !.ids = pending[n]]]
            /\ pending' = [pending EXCEPT ![n] = {}]
            /\ UNCHANGED committing
    /\ UNCHANGED <<snaps, phase, home, wal, replayed, cache, try, crashes,
                   faults, gaveup>>

\* Mutant: the entries of a failed commit leave the queue.
FailedDropping(n) ==
    /\ gaveup' = TRUE
    /\ job' = [job EXCEPT ![n] = NoJob]
    /\ IF job[n].mode = "replay"
       THEN UNCHANGED <<pending, committing>>
       ELSE committing' = [committing EXCEPT ![n] = FALSE] /\ UNCHANGED pending

(* A failed commit: the committer queues its entries again and stops; a     *)
(* failed replay answers the request with the error.                        *)
Failed(n) ==
    /\ gaveup' = TRUE
    /\ job' = [job EXCEPT ![n] = NoJob]
    /\ IF job[n].mode = "replay"
       THEN UNCHANGED <<pending, committing>>
       ELSE /\ pending' = [pending EXCEPT ![n] = @ \cup job[n].ids]
            /\ committing' = [committing EXCEPT ![n] = FALSE]

(* commit_batches: the key is looked up in the table as it is now. *)
Load(n) ==
    /\ job[n].pc = "load"
    /\ \/ /\ job' = [job EXCEPT ![n].pc = IF Has(Len(snaps), job[n].ids)
                                          THEN "clean" ELSE "attempt",
                                ![n].base = Len(snaps), ![n].tries = 1]
          /\ UNCHANGED <<pending, committing, faults, gaveup>>
       \/ Fault /\ Failed(n)
    /\ UNCHANGED <<snaps, phase, home, wal, replayed, cache, try, crashes>>

(* commit_data_files: one attempt.  It fetches the table and lands on what  *)
(* it fetched; a call that fails may have landed or not; and a commit that  *)
(* came after the attempt began may be a conflict, on which the same files  *)
(* are put on the table as reloaded, without another look at the key.       *)
Attempt(n) ==
    /\ job[n].pc = "attempt"
    /\ \/ /\ snaps' = Append(snaps, job[n].ids)
          /\ job' = [job EXCEPT ![n].pc = "clean"]
          /\ UNCHANGED <<pending, committing, faults, gaveup>>
       \/ /\ Fault /\ Failed(n)
          /\ snaps' \in {snaps, Append(snaps, job[n].ids)}
       \/ /\ job[n].base < Len(snaps)
          /\ IF MoreAttempts(job[n].tries)
             THEN /\ job' = [job EXCEPT ![n].base = Len(snaps), ![n].tries = @ + 1]
                  /\ UNCHANGED <<pending, committing, gaveup>>
             ELSE Failed(n)
          /\ UNCHANGED <<snaps, faults>>
    /\ UNCHANGED <<phase, home, wal, replayed, cache, try, crashes>>

\* Mutant: the committer stops after one commit.
RemoveLast(n, e) ==
    LET left == job[n].ids \ {e}
    IN  /\ job[n].pc = "clean" /\ e \in job[n].ids
        /\ wal' = [wal EXCEPT ![n] = @ \ {e}]
        /\ job' = [job EXCEPT ![n] = IF left = {} THEN NoJob ELSE [@ EXCEPT !.ids = left]]
        /\ replayed' = [replayed EXCEPT ![n] = @ \/ left = {}]
        /\ committing' = [committing EXCEPT ![n] = @ /\ left # {}]
        /\ UNCHANGED <<snaps, phase, home, pending, cache, try, crashes, faults, gaveup>>

(* remove_wal_entry of the next file.  The committer ignores a failure;     *)
(* replay gives up, to start over at the next request.                      *)
Remove(n, e) ==
    LET left == job[n].ids \ {e}
        next == IF left = {} THEN NoJob ELSE [job[n] EXCEPT !.ids = left]
    IN  /\ job[n].pc = "clean" /\ e \in job[n].ids
        /\ \/ /\ wal' = [wal EXCEPT ![n] = @ \ {e}]
              /\ job' = [job EXCEPT ![n] = next]
              /\ replayed' = [replayed EXCEPT ![n] = @ \/ next = NoJob]
              /\ UNCHANGED faults
           \/ /\ Fault
              /\ job' = [job EXCEPT ![n] = IF @.mode = "replay" THEN NoJob ELSE next]
              /\ UNCHANGED <<wal, replayed>>
        /\ UNCHANGED <<snaps, phase, home, pending, committing, cache, try,
                       crashes, gaveup>>

-----------------------------------------------------------------------------
(* commit_batches_cached: the synchronous append under the client's key.    *)

(* The key is looked up in the cached table; a miss loads and caches it.    *)
KeyedStart(i, n) ==
    LET view == IF cache[n] = None THEN Len(snaps) ELSE cache[n]
    IN  /\ try[i].pc = "new"
        /\ cache' = [cache EXCEPT ![n] = view]
        /\ try' = [try EXCEPT ![i] = [pc |-> IF Has(view, {Key}) THEN "replayed" ELSE "attempt",
                                      node |-> n, base |-> Len(snaps), tries |-> 1]]
        /\ UNCHANGED <<snaps, phase, home, queueVars, crashes, faults, gaveup>>

KeyedAttempt(i) ==
    /\ try[i].pc = "attempt"
    /\ \/ /\ snaps' = Append(snaps, {Key})
          /\ try' = [try EXCEPT ![i].pc = "done"]
          /\ cache' = [cache EXCEPT ![try[i].node] = Len(snaps')]
          /\ UNCHANGED faults
       \/ /\ Fault
          /\ snaps' \in {snaps, Append(snaps, {Key})}
          /\ try' = [try EXCEPT ![i].pc = "failed"]
          /\ UNCHANGED cache
       \/ /\ try[i].base < Len(snaps)
          /\ try' = IF MoreAttempts(try[i].tries)
                    THEN [try EXCEPT ![i].base = Len(snaps), ![i].tries = @ + 1]
                    ELSE [try EXCEPT ![i].pc = "failed"]
          /\ UNCHANGED <<snaps, cache, faults>>
    /\ UNCHANGED <<phase, home, queueVars, crashes, gaveup>>

-----------------------------------------------------------------------------
(* The process dies and starts again: only the WAL files remain.  A commit  *)
(* on its way to the catalog has landed by then or never does.              *)
Crash(n) ==
    /\ crashes < MaxCrashes
    /\ crashes' = crashes + 1
    /\ phase' = [e \in Entries |-> IF home[e] = n /\ phase[e] \in {"journaled", "pushed"}
                                   THEN "cut" ELSE phase[e]]
    /\ pending' = [pending EXCEPT ![n] = {}]
    /\ committing' = [committing EXCEPT ![n] = FALSE]
    /\ job' = [job EXCEPT ![n] = NoJob]
    /\ replayed' = [replayed EXCEPT ![n] = FALSE]
    /\ cache' = [cache EXCEPT ![n] = None]
    /\ try' = [i \in Tries |-> IF try[i].node = n /\ try[i].pc = "attempt"
                               THEN [try[i] EXCEPT !.pc = "failed"] ELSE try[i]]
    /\ UNCHANGED <<snaps, home, wal, faults, gaveup>>

-----------------------------------------------------------------------------
Handler(e) == Push(e) \/ SpawnAndAck(e)
Committer(n) == Drain(n) \/ Load(n) \/ Attempt(n) \/ \E e \in Entries : Remove(n, e)

Next ==
    \/ \E n \in Nodes : ReplayStart(n) \/ Committer(n) \/ Crash(n)
    \/ \E n \in Nodes, e \in Entries : Journal(n, e)
    \/ \E e \in Entries : Handler(e)
    \/ \E i \in Tries, n \in Nodes : KeyedStart(i, n)
    \/ \E i \in Tries : KeyedAttempt(i)

Spec == Init /\ [][Next]_vars

(* A handler and a committer that can go on do: both are tasks of a runtime *)
(* that keeps polling them.  Nothing makes a client send another append.    *)
FairSpec ==
    /\ Spec
    /\ \A e \in Entries : WF_vars(Handler(e))
    /\ \A n \in Nodes : WF_vars(Committer(n))

-----------------------------------------------------------------------------
(* Properties. *)

JobType == [pc : {"none", "load", "attempt", "clean"}, mode : {"drain", "replay"},
            ids : SUBSET Entries, base : Nat, tries : Nat]
TryType == [pc : {"new", "attempt", "replayed", "done", "failed"},
            node : Nodes \cup {None}, base : Nat, tries : Nat]

TypeOK ==
    /\ snaps \in Seq(SUBSET (Entries \cup {Key}))
    /\ phase \in [Entries -> {"new", "journaled", "pushed", "acked", "refused", "cut"}]
    /\ home \in [Entries -> Nodes \cup {None}]
    /\ wal \in [Nodes -> SUBSET Entries] /\ pending \in [Nodes -> SUBSET Entries]
    /\ committing \in [Nodes -> BOOLEAN] /\ replayed \in [Nodes -> BOOLEAN]
    /\ job \in [Nodes -> JobType]
    /\ cache \in [Nodes -> Nat \cup {None}]
    /\ try \in [Tries -> TryType]
    /\ crashes \in 0..MaxCrashes /\ faults \in 0..MaxFaults
    /\ gaveup \in BOOLEAN

(* An acknowledged append is never lost to a crash of its process: until a  *)
(* snapshot holds it, its WAL file is on disk, whatever the committer and   *)
(* the replay are doing with it; and a keyed append answered with success   *)
(* is in the table.                                                         *)
AckedKept ==
    /\ \A e \in Entries : phase[e] = "acked" => Committed(e) \/ e \in wal[home[e]]
    /\ \A i \in Tries : try[i].pc \in {"done", "replayed"} => Committed(Key)

(* No wake-up is lost between the committer's last look at the queue and a  *)
(* handler's: entries wait without a committer only while the handler that  *)
(* will start one is on its way, or after a failed commit.                  *)
Woken ==
    \A n \in Nodes :
       (pending[n] # {} /\ ~committing[n] /\ ~gaveup)
          => \E e \in Entries : home[e] = n /\ phase[e] = "pushed"

(* An idle queue of a process that has not crashed owes nothing: is_idle,   *)
(* which a graceful shutdown waits for, is true only when every append the  *)
(* process acknowledged since it started is in the table.                   *)
IdleMeansCommitted ==
    \A n \in Nodes :
       (replayed[n] /\ ~committing[n] /\ pending[n] = {})
          => \A e \in Entries : home[e] = n /\ phase[e] = "acked" => Committed(e)

(* While no commit fails and no process dies, every acknowledged append     *)
(* reaches the table, though no client ever sends another.                  *)
EventuallyCommitted ==
    \A e \in Entries :
       phase[e] = "acked" ~> (Committed(e) \/ crashes > 0 \/ gaveup)
=============================================================================

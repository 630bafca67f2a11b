----------------------------- MODULE HostedCatalog -----------------------------
(***************************************************************************)
(* The hosted Iceberg catalog (verglas-catalog-storage: hosted.rs,           *)
(* idempotency.rs, transaction.rs, metadata_store.rs): handlers that read    *)
(* documents of the warehouse's consensus group, publish an immutable        *)
(* metadata object, and submit one compare-and-write batch to the group      *)
(* (verglas-consensus catalog.rs, raft_store.rs).  Many handlers run at once *)
(* and only the batch is atomic.                                             *)
(*                                                                           *)
(* The metadata of a table or a view is the sequence of the updates it has   *)
(* absorbed.  A namespace's document is the set of its property updates.     *)
(* The group is a linearizable service here; TimelineGroup and GroupRouting  *)
(* model it.  Left out: a location that the client chooses for a new table   *)
(* or view, which two of them may share, and an update that moves one        *)
(* (set-location); a second registration of one location, which the code     *)
(* does not refuse and which makes two names of it.                          *)
(***************************************************************************)
EXTENDS Integers, Sequences

CONSTANTS
    Requests,   \* calls of the endpoints
    RequestIds, \* the x-request-ids they carry, which calls may share
    Key,        \* the idempotency key some of them carry
    Inputs,     \* what an update says
    Calls,      \* what the calls may ask together
    MaxFaults,  \* bound on dead handlers and lost answers
    None

Tables == {"a", "b"}
Views == {"v", "w"}
Pointers == Tables \cup Views
Records == {"ns"} \cup Pointers

(* What an endpoint may be asked.  The id is the one the client sends       *)
(* (x-request-id, or a fresh one when it sends none), or the idempotency    *)
(* key where the endpoint takes one.                                        *)
Ask(op, on, id, input) == [op |-> op, on |-> on, id |-> id, input |-> input]
Plain == {Ask(op, {"ns"}, i, None) : op \in {"create_namespace", "drop_namespace"}, i \in RequestIds}
         \cup {Ask("create_table", {t}, i, None) : t \in Tables, i \in RequestIds}
         \cup {Ask("register_table", {"b"}, i, None) : i \in RequestIds}
         \cup {Ask("drop_table", {"a"}, i, None) : i \in RequestIds}
         \cup {Ask("rename_table", Tables, i, None) : i \in RequestIds}
         \cup {Ask(op, {"v"}, i, None) : op \in {"create_view", "drop_view"}, i \in RequestIds}
         \cup {Ask("rename_view", Views, i, None) : i \in RequestIds}
Saying == {Ask("update_namespace_properties", {"ns"}, i, u) : i \in RequestIds, u \in Inputs}
          \cup {Ask("commit_view", {"v"}, i, u) : i \in RequestIds, u \in Inputs}
          \cup {Ask("commit_table", {"a"}, i, u) : i \in RequestIds \cup {Key}, u \in Inputs}
          \cup {Ask("commit_transaction", Tables, i, u) : i \in RequestIds \cup {Key}, u \in Inputs}
Asks == Plain \cup Saying

(* A root is named by the id of the call that creates it and by what it     *)
(* creates; the metadata below "x" was written by another catalog and can   *)
(* be registered.                                                           *)
Ids   == RequestIds \cup {Key, "init"}
Roots == (RequestIds \cup {"init"}) \X (Pointers \cup {"x"})
Paths == Roots \X Ids

(* The documents of the group and the batches. *)
Pointer == {p \in [root : Roots, at : Paths] : p.at[1] = p.root}
Document(k) == IF k = "ns" THEN SUBSET Inputs ELSE Pointer
Reads(on) == [on -> {None} \cup IF on = {"ns"} THEN SUBSET Inputs ELSE Pointer]
Batches == UNION {{a} \X Reads(a.on) : a \in Asks}

(* The request id made from a key is taken to be no x-request-id (it is a   *)
(* digest); None is the absence of a document, an object, an input or a     *)
(* batch.                                                                   *)
ASSUME CatalogAssumption ==
    /\ Calls \subseteq [Requests -> Asks]
    /\ Key \notin RequestIds /\ "init" \notin RequestIds \cup {Key}
    /\ None \notin Inputs /\ None \notin Pointer
    /\ None \notin Seq(Inputs) /\ None \notin Asks
    /\ \A a \in Asks : None \notin {a} \X Reads(a.on)
    /\ MaxFaults \in Nat

VARIABLES
    ask,        \* what each call asks
    pc,         \* how far its handler got
    expect,     \* the documents its batch requires
    body,       \* the metadata it is to publish, by table
    rec,        \* the group's records
    idem,       \* the key's record: the operation and input that succeeded
    retries,    \* the batch applied under a request id
    objects,    \* the metadata objects
    stray,      \* calls with an attempt that was not answered and may still arrive
    faults,
    history,    \* by root, the updates in the order the group applied them
    overlapped  \* the ids under which two calls have been in flight together

groupVars == <<rec, idem, retries, history>>
vars == <<ask, pc, expect, body, groupVars, objects, stray, faults, overlapped>>

Ended == {"ok", "refused", "failed"}
Updates(r) == ask[r].op \in {"commit_table", "commit_transaction", "commit_view"}
Creates(r) == ask[r].op \in {"create_table", "create_view"}
Renames(r) == ask[r].op \in {"rename_table", "rename_view"}
Publishes(r) == Updates(r) \/ Creates(r)
Source(r) == IF ask[r].op = "rename_table" THEN "a" ELSE "v"
IsKeyed(r) == ask[r].id = Key

(* The request id: the client's x-request-id, or the key's own. *)
Id(r) == ask[r].id

Init ==
    /\ ask \in Calls
    /\ pc = [r \in Requests |-> "start"]
    /\ expect = [r \in Requests |-> <<>>] /\ body = [r \in Requests |-> <<>>]
    /\ \E present \in {{"a", "v"}, {"a", "b"}} :
         /\ rec = [k \in Records |-> IF k = "ns" THEN {}
                                     ELSE IF k \in present
                                     THEN [root |-> <<"init", k>>, at |-> <<<<"init", k>>, "init">>] ELSE None]
         /\ objects = [p \in Paths |-> IF p[1] \in {"init"} \X (present \cup {"x"}) /\ p[2] = "init"
                                       THEN <<>> ELSE None]
    /\ idem = None /\ retries = [i \in Ids |-> None]
    /\ stray = {} /\ faults = 0
    /\ history = [x \in Roots |-> <<>>] /\ overlapped = {}

Goto(r, where) == pc' = [pc EXCEPT ![r] = where]
Fault == faults < MaxFaults /\ faults' = faults + 1

-----------------------------------------------------------------------------
InFlight(r) == pc[r] \notin Ended \cup {"start"}

(* A call under the key looks for a finished result first (replay): the     *)
(* same operation and input are answered with it, others are a conflict.    *)
LookUp(r) ==
    /\ pc[r] = "start"
    /\ Goto(r, IF ~IsKeyed(r) \/ idem = None THEN "read"
               ELSE IF idem = ask[r] THEN "ok" ELSE "refused")
    /\ overlapped' = IF \E q \in Requests : Id(q) = Id(r) /\ InFlight(q)
                     THEN overlapped \cup {Id(r)} ELSE overlapped
    /\ UNCHANGED <<ask, expect, body, groupVars, objects, stray, faults>>

(* The documents the handler reads, and refuses without (404): a create     *)
(* reads its namespace, a rename only its source.  A transaction reads its  *)
(* tables one after the other; here at once, since a batch that is accepted *)
(* could have read them all at the time of the last read.                   *)
Needs(r) ==
    CASE ask[r].op = "create_namespace" -> {}
      [] Creates(r) \/ ask[r].op = "register_table" -> {"ns"}
      [] Renames(r) -> {Source(r)}
      [] OTHER -> ask[r].on

(* What the batch will require: the documents read, or their absence. *)
Expects(r) == [k \in ask[r].on |-> IF k \in Needs(r) THEN rec[k] ELSE None]

Read(r) ==
    /\ pc[r] = "read"
    /\ IF \E k \in Needs(r) : rec[k] = None
       THEN Goto(r, "refused") /\ UNCHANGED expect
       ELSE /\ Goto(r, IF Publishes(r) THEN "publish" ELSE "commit")
            /\ expect' = [expect EXCEPT ![r] = Expects(r)]
    /\ UNCHANGED <<ask, body, groupVars, objects, stray, faults, overlapped>>

(* The root of a table that is there, or allocated_root. *)
Root(r, k) == IF Updates(r) THEN expect[r][k].root ELSE <<Id(r), k>>

(* metadata_path: below the root, named by the request id. *)
Path(r, k) == <<Root(r, k), Id(r)>>

(* The metadata built from the one the document names (apply_commit), or a  *)
(* first one.                                                               *)
Built(r, k) == IF Updates(r) THEN Append(objects[expect[r][k].at], ask[r].input) ELSE <<>>

(* Publication of the tables' objects, one after the other: build, see that *)
(* the path is free, write, read back.  An object already there is accepted *)
(* only with the same bytes (and the bytes hold a time stamp); apply_commit *)
(* may find a requirement of the request unmet.                             *)
Unpublished(r) == ask[r].on \ DOMAIN body[r]

(* The metadata of r with that of table k added. *)
With(r, k) == [j \in DOMAIN body[r] \cup {k} |-> IF j = k THEN Built(r, k) ELSE body[r][j]]

Check(r, k) ==
    /\ pc[r] = "publish" /\ k \in Unpublished(r)
    /\ (k = "b" => "a" \notin Unpublished(r))
    /\ \/ /\ objects[Path(r, k)] = None
          /\ body' = [body EXCEPT ![r] = With(r, k)]
          /\ Goto(r, "write")
       \/ /\ objects[Path(r, k)] = Built(r, k)
          /\ body' = [body EXCEPT ![r] = With(r, k)]
          /\ Goto(r, IF Unpublished(r) = {k} THEN "commit" ELSE "publish")
       \/ /\ Updates(r) \/ objects[Path(r, k)] # None
          /\ Goto(r, "refused")
          /\ UNCHANGED body
    /\ UNCHANGED <<ask, expect, groupVars, objects, stray, faults, overlapped>>

Latest(r) == IF DOMAIN body[r] = Tables THEN "b" ELSE CHOOSE k \in DOMAIN body[r] : TRUE

(* The PUT of the object takes effect. *)
Store(r) == objects' = [objects EXCEPT ![Path(r, Latest(r))] = body[r][Latest(r)]]

Write(r) ==
    /\ pc[r] = "write"
    /\ Store(r)
    /\ Goto(r, "verify")
    /\ UNCHANGED <<ask, expect, body, groupVars, stray, faults, overlapped>>

(* The object read back must have the same bytes; those of a rival for the  *)
(* path differ at least in their time stamp.                                *)
Verify(r) ==
    /\ pc[r] = "verify"
    /\ \/ /\ objects[Path(r, Latest(r))] = body[r][Latest(r)]
          /\ Goto(r, IF Unpublished(r) = {} THEN "commit" ELSE "publish")
       \/ /\ objects[Path(r, Latest(r))] # body[r][Latest(r)] \/ Id(r) \in overlapped
          /\ Goto(r, "refused")
    /\ UNCHANGED <<ask, expect, body, groupVars, objects, stray, faults, overlapped>>

(* The PUT of a handler that is gone takes effect after all. *)
LatePut(r) ==
    /\ pc[r] = "hung"
    /\ Store(r)
    /\ Goto(r, "failed")
    /\ UNCHANGED <<ask, expect, body, groupVars, stray, faults, overlapped>>

-----------------------------------------------------------------------------
(* The group. *)

\* Mutant: a table's document is not compared.
HoldsAny(r) ==
    /\ \A k \in DOMAIN expect[r] : (rec[k] = None) = (expect[r][k] = None)
    /\ IsKeyed(r) => idem = None

(* apply_records: every requirement holds in the state the batch meets. *)
Holds(r) ==
    /\ \A k \in DOMAIN expect[r] : rec[k] = expect[r][k]
    /\ IsKeyed(r) => idem = None

(* What each handler's batch puts in a record, None where it deletes one. *)
create_namespace(r, k)            == {}
update_namespace_properties(r, k) == expect[r][k] \cup {ask[r].input}
drop_namespace(r, k)              == None
create_table(r, k)                == [root |-> Root(r, k), at |-> Path(r, k)]
register_table(r, k)              == [root |-> <<"init", "x">>, at |-> <<<<"init", "x">>, "init">>]
commit_table(r, k)                == [expect[r][k] EXCEPT !.at = Path(r, k)]
commit_transaction(r, k)          == [expect[r][k] EXCEPT !.at = Path(r, k)]
drop_table(r, k)                  == None
rename_table(r, k)                == IF k = "a" THEN None ELSE expect[r]["a"]
create_view(r, k)                 == [root |-> Root(r, k), at |-> Path(r, k)]
commit_view(r, k)                 == [expect[r][k] EXCEPT !.at = Path(r, k)]
drop_view(r, k)                   == None
rename_view(r, k)                 == IF k = "v" THEN None ELSE expect[r]["v"]

Put(r, k) ==
    CASE ask[r].op = "create_namespace" -> create_namespace(r, k)
      [] ask[r].op = "update_namespace_properties" -> update_namespace_properties(r, k)
      [] ask[r].op = "drop_namespace" -> drop_namespace(r, k)
      [] ask[r].op = "create_table" -> create_table(r, k)
      [] ask[r].op = "register_table" -> register_table(r, k)
      [] ask[r].op = "commit_table" -> commit_table(r, k)
      [] ask[r].op = "commit_transaction" -> commit_transaction(r, k)
      [] ask[r].op = "drop_table" -> drop_table(r, k)
      [] ask[r].op = "rename_table" -> rename_table(r, k)
      [] ask[r].op = "create_view" -> create_view(r, k)
      [] ask[r].op = "commit_view" -> commit_view(r, k)
      [] ask[r].op = "drop_view" -> drop_view(r, k)
      [] ask[r].op = "rename_view" -> rename_view(r, k)

Batch(r) == <<ask[r], expect[r]>>

\* Mutant: the deletions of a batch are not carried out.
ApplyPuts(r) ==
    /\ rec' = [k \in Records |-> IF k \in DOMAIN expect[r] /\ Put(r, k) # None
                              THEN Put(r, k) ELSE rec[k]]
    /\ idem' = IF IsKeyed(r) THEN ask[r] ELSE idem
    /\ retries' = [retries EXCEPT ![Id(r)] = Batch(r)]
    /\ UNCHANGED history

Apply(r) ==
    /\ rec' = [k \in Records |-> IF k \in DOMAIN expect[r] THEN Put(r, k) ELSE rec[k]]
    /\ idem' = IF IsKeyed(r) THEN ask[r] ELSE idem
    /\ retries' = [retries EXCEPT ![Id(r)] = Batch(r)]
    /\ history' = IF Updates(r)
                  THEN [x \in Roots |-> IF \E k \in DOMAIN expect[r] : expect[r][k].root = x
                                        THEN Append(history[x], ask[r].input) ELSE history[x]]
                  ELSE history

\* Mutant: no record of applied requests.
AcceptedFresh(r) == Holds(r)

(* A request the group has applied is answered as it was then; the same id  *)
(* with another batch is a conflict, which is not remembered.               *)
Accepted(r) == retries[Id(r)] = Batch(r) \/ (retries[Id(r)] = None /\ Holds(r))

(* An attempt that is answered. *)
Submit(r) ==
    /\ pc[r] = "commit"
    /\ IF Accepted(r)
       THEN /\ IF retries[Id(r)] = None THEN Apply(r) ELSE UNCHANGED groupVars
            /\ Goto(r, "ok")
       ELSE /\ Goto(r, IF IsKeyed(r) THEN "replay" ELSE "refused")
            /\ UNCHANGED groupVars
    /\ UNCHANGED <<ask, expect, body, objects, stray, faults, overlapped>>

(* One that is not, or with a 503: the client of the group sends the batch  *)
(* again, to the next ingress, or gives up.                                 *)
Lose(r) ==
    /\ pc[r] = "commit" /\ Fault
    /\ stray' = stray \cup {r}
    /\ pc' \in {pc, [pc EXCEPT ![r] = "failed"]}
    /\ UNCHANGED <<ask, expect, body, groupVars, objects, overlapped>>

(* A lost attempt reaches the group, whatever its call was told since. *)
Late(r) ==
    /\ r \in stray
    /\ retries[Id(r)] = None /\ Holds(r)
    /\ Apply(r)
    /\ UNCHANGED <<ask, pc, expect, body, objects, stray, faults, overlapped>>

(* After a conflict a keyed call looks for the result of a rival. *)
Replay(r) ==
    /\ pc[r] = "replay"
    /\ Goto(r, IF idem = ask[r] THEN "ok" ELSE "refused")
    /\ UNCHANGED <<ask, expect, body, groupVars, objects, stray, faults, overlapped>>

(* The process dies, or the store or the group does not answer; a PUT may   *)
(* still be on its way.                                                     *)
Fail(r) ==
    /\ InFlight(r) /\ pc[r] # "hung" /\ Fault
    /\ \/ Goto(r, "failed")
       \/ pc[r] = "write" /\ Goto(r, "hung")
    /\ UNCHANGED <<ask, expect, body, groupVars, objects, stray, overlapped>>

Next == \E r \in Requests :
    \/ LookUp(r) \/ Read(r) \/ Write(r) \/ Verify(r) \/ LatePut(r)
    \/ Submit(r) \/ Lose(r) \/ Late(r) \/ Replay(r) \/ Fail(r)
    \/ \E k \in Pointers : Check(r, k)

Spec == Init /\ [][Next]_vars

-----------------------------------------------------------------------------
(* Properties. *)

Stages == {"publish", "write", "hung", "verify", "commit", "replay"}

TypeOK ==
    /\ ask \in [Requests -> Asks]
    /\ pc \in [Requests -> Ended \cup Stages \cup {"start", "read"}]
    /\ DOMAIN expect = Requests /\ DOMAIN body = Requests
    /\ \A r \in Requests :
         /\ pc[r] \in Stages \/ r \in stray => expect[r] \in Reads(ask[r].on)
         /\ DOMAIN body[r] \subseteq ask[r].on
         /\ \A k \in DOMAIN body[r] : body[r][k] \in Seq(Inputs)
    /\ DOMAIN rec = Records /\ \A k \in Records : rec[k] \in {None} \cup Document(k)
    /\ idem \in {None} \cup Asks
    /\ retries \in [Ids -> {None} \cup Batches]
    /\ objects \in [Paths -> {None} \cup Seq(Inputs)]
    /\ stray \subseteq Requests
    /\ faults \in 0..MaxFaults
    /\ history \in [Roots -> Seq(Inputs)]
    /\ overlapped \subseteq Ids

(* Calls in flight together under one id wrote below this root. *)
Contested(x) == \E i \in overlapped : objects[<<x, i>>] # None

(* Optimistic concurrency loses nothing: whatever the handlers interleave,  *)
(* and however late a lost batch or PUT arrives, the metadata a table's     *)
(* pointer names is exactly the updates the group applied to that table,    *)
(* each once and in that order.  The exception is a table that two calls    *)
(* with one idempotency key or one x-request-id, in flight together, wrote  *)
(* to: publish lets the later PUT replace the object of the earlier one.    *)
MetadataIsHistory ==
    \A t \in Pointers : rec[t] # None /\ ~Contested(rec[t].root)
                        => objects[rec[t].at] = history[rec[t].root]

(* A pointer never names an object that is not there, and no two names      *)
(* stand for one table or view, through any race of create, rename, drop    *)
(* and commit, any sharing of ids, and one registration.                    *)
PointersSound ==
    /\ \A t \in Pointers : rec[t] # None => objects[rec[t].at] # None
    /\ \A t, u \in Pointers : t # u /\ rec[t] # None /\ rec[u] # None
                             => rec[t].root # rec[u].root

Alone(r) == \A q \in Requests : Id(q) = Id(r) => q = r

(* The answers are true when they are given.  A call is told of success     *)
(* only if the group has applied a batch of its operation and input under   *)
(* its id: its own, or that of another call which shares the id.  A call    *)
(* that is refused has not taken effect, if no other call shares its id,    *)
(* however often its batch was sent; a lost attempt may still bring it      *)
(* about afterwards.                                                        *)
AnswersTrue ==
    [][\A r \in Requests : pc'[r] # pc[r] =>
         /\ pc'[r] = "ok" => retries'[Id(r)] # None /\ retries'[Id(r)][1] = ask[r]
         /\ pc'[r] = "refused" /\ Alone(r) => retries'[Id(r)] = None]_vars

(* The request id is "an exact client retry identity" (transaction.rs): a   *)
(* call that is sent again under the id of one that succeeded is not        *)
(* refused.                                                                 *)
RetryAnsweredAlike ==
    \A r, q \in Requests : ask[r] = ask[q] /\ pc[r] = "ok" => pc[q] # "refused"

(* A refusal is final: what was refused does not happen.                    *)
RefusedForGood ==
    \A r \in Requests : pc[r] = "refused" /\ Alone(r) => retries[Id(r)] = None

(* "The generated UUID makes a collision fail closed today instead of       *)
(* overwriting a prior object" (metadata_store.rs).                         *)
Immutable ==
    [][\A p \in Paths : objects[p] # None => objects'[p] = objects[p]]_vars
=============================================================================

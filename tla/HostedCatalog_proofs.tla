------------------------- MODULE HostedCatalog_proofs -------------------------
(***************************************************************************)
(* Theorems about HostedCatalog, for every set of calls and of request ids, *)
(* shared or not: the module's two tables and two views, and one            *)
(* idempotency key.                                                         *)
(***************************************************************************)
EXTENDS HostedCatalog, SequenceTheorems, TLAPS

(* A handler between its reads and the answer of the group; one whose batch *)
(* is complete; one that holds documents, which a lost attempt does for     *)
(* good; and an object that is not written yet.                             *)
Placed == {"publish", "write", "hung", "verify", "commit"}
Ready(r) == pc[r] = "commit" \/ r \in stray
Holding(r) == pc[r] \in Placed \/ r \in stray
Pending(r, k) == pc[r] \in {"write", "hung"} /\ k = Latest(r)

(* What a handler holds of the documents it read: a document for each one   *)
(* it needs, whose object is there, no two of one table; None for a name    *)
(* that is to be free.                                                      *)
Readings ==
    \A r \in Requests : Holding(r) =>
      /\ \A k \in ask[r].on \ Needs(r) : expect[r][k] = None
      /\ \A k \in ask[r].on \cap Needs(r) : expect[r][k] \in Document(k)
      /\ \A k \in ask[r].on \cap Needs(r) \cap Pointers :
           /\ objects[expect[r][k].at] # None
           /\ \A j \in ask[r].on \cap Needs(r) \cap Pointers :
                j # k => expect[r][j].root # expect[r][k].root

(* How far its publication is: the tables in their order, each object there *)
(* before the next one is built and before the batch.                       *)
Bodies ==
    \A r \in Requests :
      /\ r \in stray => pc[r] \in Ended \cup {"commit", "replay"}
      /\ pc[r] \in {"start", "read"} \/ ~Publishes(r) => DOMAIN body[r] = {}
      /\ pc[r] \in {"publish", "write", "hung", "verify"} => Publishes(r)
      /\ pc[r] \in {"write", "hung", "verify"} => DOMAIN body[r] # {}
      /\ Ready(r) /\ Publishes(r) => DOMAIN body[r] = ask[r].on
      /\ Holding(r) => /\ "b" \in DOMAIN body[r] /\ "a" \in ask[r].on => "a" \in DOMAIN body[r]
                       /\ \A k \in DOMAIN body[r] : Pending(r, k) \/ objects[Path(r, k)] # None

(* A root belongs to one name; a root named by a request id comes into use  *)
(* with the batch of that id, and the one of another catalog with its       *)
(* registration as "b".                                                     *)
Rooted ==
    /\ \A t \in Pointers : rec[t] # None /\ rec[t].root[1] # "init" => retries[rec[t].root[1]] # None
    /\ \A t \in Pointers : rec[t] # None /\ rec[t].root = <<"init", "x">> => t = "b"
    /\ \A x \in Roots : x[1] # "init" /\ history[x] # <<>> => retries[x[1]] # None
    /\ history[<<"init", "x">>] # <<>> => rec["b"] # None
    /\ objects[<<<<"init", "x">>, "init">>] = <<>>

(* What the group remembers of a request, and where its call can be then. *)
Answers ==
    /\ idem # None => retries[Key] # None /\ retries[Key][1] = idem
    /\ \A r \in Requests : Alone(r) /\ retries[Id(r)] # None =>
         /\ pc[r] \in Ended \cup {"commit", "replay"}
         /\ pc[r] = "commit" => retries[Id(r)] = Batch(r)
         /\ pc[r] = "replay" => idem = ask[r]
    /\ \A r \in Requests : pc[r] = "replay" => IsKeyed(r)

(* Under an id whose calls do not overlap, a handler finds at its path what *)
(* it has written, and nothing before; what it has written is built from    *)
(* the document it read, unless others contest that table.                  *)
Exact ==
    /\ \A r, q \in Requests : r # q /\ Id(r) = Id(q) /\ Id(r) \notin overlapped
                              => ~(InFlight(r) /\ InFlight(q))
    /\ \A r \in Requests : Holding(r) /\ Id(r) \notin overlapped =>
         \A k \in DOMAIN body[r] :
           /\ IF Pending(r, k) THEN objects[Path(r, k)] = None ELSE objects[Path(r, k)] = body[r][k]
           /\ ~Contested(Root(r, k)) => body[r][k] = Built(r, k)

IInv == /\ TypeOK /\ Readings /\ Bodies /\ Rooted /\ Answers /\ Exact
        /\ PointersSound /\ MetadataIsHistory

(* A step of the call r. *)
StepOf(r) ==
    \/ LookUp(r) \/ Read(r) \/ Write(r) \/ Verify(r) \/ LatePut(r)
    \/ Submit(r) \/ Lose(r) \/ Late(r) \/ Replay(r) \/ Fail(r)
    \/ \E k \in Pointers : Check(r, k)

-----------------------------------------------------------------------------
(* What a call can ask. *)

LEMMA Kinds ==
    ASSUME TypeOK, NEW r \in Requests
    PROVE  \/ ask[r].op \in {"create_namespace", "drop_namespace"} /\ ask[r].on = {"ns"} /\ ask[r].id \in RequestIds
           \/ /\ ask[r].op = "update_namespace_properties" /\ ask[r].on = {"ns"} /\ ask[r].id \in RequestIds
              /\ ask[r].input \in Inputs
           \/ /\ ask[r].op = "create_table" /\ ask[r].id \in RequestIds
              /\ ask[r].on = {"a"} \/ ask[r].on = {"b"}
           \/ ask[r].op = "register_table" /\ ask[r].on = {"b"} /\ ask[r].id \in RequestIds
           \/ /\ ask[r].op = "commit_table" /\ ask[r].on = {"a"} /\ ask[r].id \in RequestIds \cup {Key}
              /\ ask[r].input \in Inputs
           \/ ask[r].op = "drop_table" /\ ask[r].on = {"a"} /\ ask[r].id \in RequestIds
           \/ ask[r].op = "rename_table" /\ ask[r].on = Tables /\ ask[r].id \in RequestIds
           \/ /\ ask[r].op = "commit_transaction" /\ ask[r].on = Tables /\ ask[r].id \in RequestIds \cup {Key}
              /\ ask[r].input \in Inputs
           \/ ask[r].op \in {"create_view", "drop_view"} /\ ask[r].on = {"v"} /\ ask[r].id \in RequestIds
           \/ /\ ask[r].op = "commit_view" /\ ask[r].on = {"v"} /\ ask[r].id \in RequestIds
              /\ ask[r].input \in Inputs
           \/ ask[r].op = "rename_view" /\ ask[r].on = Views /\ ask[r].id \in RequestIds
<1>1. ask[r] \in Plain \/ ask[r] \in Saying
  BY DEF TypeOK, Asks
<1>2. CASE ask[r] \in Plain
  BY <1>2 DEF Plain, Ask, Tables
<1>3. CASE ask[r] \in Saying
  BY <1>3 DEF Saying, Ask
<1> QED
  BY <1>1, <1>2, <1>3

Drops(r) == ask[r].op \in {"drop_table", "drop_view"}
Registers(r) == ask[r].op = "register_table"
OnNamespace(r) == ask[r].op \in {"create_namespace", "drop_namespace", "update_namespace_properties"}

LEMMA Shape ==
    ASSUME TypeOK, NEW r \in Requests
    PROVE  /\ OnNamespace(r) \/ Updates(r) \/ Creates(r) \/ Registers(r) \/ Renames(r) \/ Drops(r)
           /\ Id(r) = ask[r].id /\ Id(r) \in RequestIds \cup {Key}
           /\ Updates(r) \/ ask[r].op = "update_namespace_properties" => ask[r].input \in Inputs
           /\ OnNamespace(r) => /\ ask[r].on = {"ns"} /\ Needs(r) \subseteq {"ns"}
                                /\ ~Publishes(r) /\ ~Renames(r) /\ ~Registers(r) /\ ~Drops(r)
           /\ Updates(r) => /\ Needs(r) = ask[r].on /\ ~Creates(r)
                            /\ ask[r].on = {"a"} \/ ask[r].on = {"v"} \/ ask[r].on = Tables
           /\ Creates(r) => /\ Needs(r) = {"ns"} /\ Id(r) \in RequestIds
                            /\ ask[r].on = {"a"} \/ ask[r].on = {"b"} \/ ask[r].on = {"v"}
           /\ Registers(r) => Needs(r) = {"ns"} /\ ask[r].on = {"b"} /\ ~Publishes(r)
           /\ Renames(r) => /\ Needs(r) = {Source(r)} /\ ~Publishes(r)
                            /\ \/ ask[r].on = {"a", "b"} /\ Source(r) = "a"
                               \/ ask[r].on = {"v", "w"} /\ Source(r) = "v"
           /\ Drops(r) => /\ Needs(r) = ask[r].on /\ ~Publishes(r)
                          /\ ask[r].on = {"a"} \/ ask[r].on = {"v"}
<1> USE Kinds
           DEF OnNamespace, Updates, Creates, Registers, Renames, Drops, Publishes, Tables, Views
<1>1. OnNamespace(r) \/ Updates(r) \/ Creates(r) \/ Registers(r) \/ Renames(r) \/ Drops(r)
  OBVIOUS
<1>2. Id(r) = ask[r].id /\ Id(r) \in RequestIds \cup {Key}
  BY DEF Id
<1>3. Updates(r) \/ ask[r].op = "update_namespace_properties" => ask[r].input \in Inputs
  OBVIOUS
<1>4. OnNamespace(r) => /\ ask[r].on = {"ns"} /\ Needs(r) \subseteq {"ns"}
                        /\ ~Publishes(r) /\ ~Renames(r) /\ ~Registers(r) /\ ~Drops(r)
  BY DEF Needs
<1>5. Updates(r) => /\ Needs(r) = ask[r].on /\ ~Creates(r)
                    /\ ask[r].on = {"a"} \/ ask[r].on = {"v"} \/ ask[r].on = Tables
  BY DEF Needs
<1>6. Creates(r) => /\ Needs(r) = {"ns"} /\ Id(r) \in RequestIds
                    /\ ask[r].on = {"a"} \/ ask[r].on = {"b"} \/ ask[r].on = {"v"}
  BY DEF Needs, Id
<1>7. Registers(r) => Needs(r) = {"ns"} /\ ask[r].on = {"b"} /\ ~Publishes(r)
  BY DEF Needs
<1>8. Renames(r) => /\ Needs(r) = {Source(r)} /\ ~Publishes(r)
                    /\ \/ ask[r].on = {"a", "b"} /\ Source(r) = "a"
                       \/ ask[r].on = {"v", "w"} /\ Source(r) = "v"
  BY DEF Needs, Source
<1>9. Drops(r) => /\ Needs(r) = ask[r].on /\ ~Publishes(r)
                  /\ ask[r].on = {"a"} \/ ask[r].on = {"v"}
  BY DEF Needs
<1> QED
  BY <1>1, <1>2, <1>3, <1>4, <1>5, <1>6, <1>7, <1>8, <1>9

LEMMA IdType ==
    ASSUME TypeOK, NEW r \in Requests
    PROVE  Id(r) \in Ids /\ Id(r) # "init"
BY Shape, CatalogAssumption DEF Ids

LEMMA RootParts ==
    ASSUME NEW x \in Roots
    PROVE  x[1] \in RequestIds \cup {"init"} /\ (x[1] # "init" => x[1] \in Ids)
BY DEF Roots, Ids

LEMMA PathParts ==
    ASSUME NEW p \in Pointer
    PROVE  /\ p.root \in Roots /\ p.at \in Paths /\ p.at[1] = p.root
           /\ p.at[2] \in Ids /\ p.at = <<p.root, p.at[2]>>
BY DEF Pointer, Paths

LEMMA Held ==
    ASSUME TypeOK, Readings, NEW r \in Requests, Holding(r)
    PROVE  /\ expect[r] \in Reads(ask[r].on) /\ DOMAIN expect[r] = ask[r].on
           /\ Publishes(r) => ask[r].on \subseteq Pointers
           /\ Updates(r) => \A k \in ask[r].on :
                /\ expect[r][k] \in Pointer
                /\ expect[r][k].root \in Roots /\ expect[r][k].at \in Paths
                /\ objects[expect[r][k].at] \in Seq(Inputs)
           /\ Publishes(r) => \A k \in ask[r].on :
                /\ Root(r, k) \in Roots /\ Path(r, k) = <<Root(r, k), Id(r)>>
                /\ Path(r, k) \in Paths /\ Built(r, k) \in Seq(Inputs)
<1>1. expect[r] \in Reads(ask[r].on) /\ DOMAIN expect[r] = ask[r].on
  BY DEF TypeOK, Reads, Holding, Placed, Stages
<1>2. Publishes(r) => ask[r].on \subseteq Pointers
  BY Shape DEF Publishes, Pointers, Tables, Views
<1>3. ASSUME Updates(r), NEW k \in ask[r].on
      PROVE  /\ expect[r][k] \in Pointer
             /\ expect[r][k].root \in Roots /\ expect[r][k].at \in Paths
             /\ objects[expect[r][k].at] \in Seq(Inputs)
  <2>1. k \in Pointers /\ k # "ns" /\ k \in Needs(r)
    BY <1>2, <1>3, Shape DEF Publishes, Pointers, Tables, Views
  <2>2. expect[r][k] \in Pointer /\ objects[expect[r][k].at] # None
    BY <2>1 DEF Readings, Document
  <2>3. expect[r][k].root \in Roots /\ expect[r][k].at \in Paths
    BY <2>2, PathParts
  <2> QED
    BY <2>2, <2>3 DEF TypeOK
<1>4. ASSUME Publishes(r), NEW k \in ask[r].on
      PROVE  /\ Root(r, k) \in Roots /\ Path(r, k) = <<Root(r, k), Id(r)>>
             /\ Path(r, k) \in Paths /\ Built(r, k) \in Seq(Inputs)
  <2>1. Path(r, k) = <<Root(r, k), Id(r)>>
    BY DEF Path
  <2>2. CASE Updates(r)
    <3>1. Root(r, k) = expect[r][k].root
      BY <2>2 DEF Root
    <3>2. Append(objects[expect[r][k].at], ask[r].input) \in Seq(Inputs)
      BY <1>3, <2>2, Shape, AppendProperties
    <3> QED
      BY <1>3, <2>1, <2>2, <3>1, <3>2, IdType DEF Paths, Built
  <2>3. CASE ~Updates(r)
    <3>1. Root(r, k) = <<Id(r), k>> /\ Id(r) \in RequestIds /\ Built(r, k) = <<>>
      BY <1>4, <2>3, Shape DEF Root, Built, Publishes
    <3>2. Root(r, k) \in Roots
      BY <1>2, <1>4, <3>1 DEF Roots
    <3> QED
      BY <2>1, <3>1, <3>2, EmptySeq, IdType DEF Paths
  <2> QED
    BY <2>2, <2>3
<1> QED
  BY <1>1, <1>2, <1>3, <1>4


LEMMA LatestIs ==
    ASSUME NEW r \in Requests, DOMAIN body[r] # {}
    PROVE  Latest(r) \in DOMAIN body[r]
BY DEF Latest, Tables

LEMMA LatestNew ==
    ASSUME TypeOK, Bodies, NEW r \in Requests, NEW k \in Pointers, Check(r, k), body'[r] = With(r, k)
    PROVE  Latest(r)' = k /\ DOMAIN body'[r] = DOMAIN body[r] \cup {k}
<1>1. DOMAIN body'[r] = DOMAIN body[r] \cup {k}
  BY DEF With
<1>2. /\ pc[r] = "publish" /\ k \in ask[r].on /\ k \notin DOMAIN body[r]
      /\ k = "b" => ("a" \in ask[r].on => "a" \in DOMAIN body[r])
  BY DEF Check, Unpublished
<1>3. DOMAIN body[r] \subseteq ask[r].on
  BY DEF TypeOK
<1>4. Publishes(r) /\ ("b" \in DOMAIN body[r] /\ "a" \in ask[r].on => "a" \in DOMAIN body[r])
  BY <1>2 DEF Bodies, Placed, Holding
<1>5. CASE ask[r].on = Tables
  <2>1. CASE k = "b"
    <3>1. DOMAIN body'[r] = Tables
      BY <1>1, <1>2, <1>3, <1>5, <2>1 DEF Tables
    <3> QED
      BY <1>1, <2>1, <3>1 DEF Latest
  <2>2. CASE k = "a"
    <3>1. DOMAIN body'[r] = {"a"}
      BY <1>1, <1>2, <1>3, <1>4, <1>5, <2>2 DEF Tables
    <3> QED
      BY <1>1, <2>2, <3>1 DEF Latest, Tables
  <2> QED
    BY <1>2, <1>5, <2>1, <2>2 DEF Tables
<1>6. CASE ask[r].on # Tables
  <2>1. ask[r].on = {k}
    BY <1>2, <1>4, <1>6, Shape DEF Publishes
  <2>2. DOMAIN body'[r] = {k}
    BY <1>1, <1>3, <2>1
  <2> QED
    BY <1>1, <2>2 DEF Latest, Tables
<1> QED
  BY <1>5, <1>6

(* What a handler computes depends on its own call, its documents and the   *)
(* objects they name.                                                       *)
LEMMA Frame ==
    ASSUME ask' = ask, NEW r \in Requests
    PROVE  /\ Id(r)' = Id(r) /\ IsKeyed(r)' = IsKeyed(r) /\ Needs(r)' = Needs(r)
           /\ Updates(r)' = Updates(r) /\ Creates(r)' = Creates(r) /\ Publishes(r)' = Publishes(r)
           /\ Alone(r)' = Alone(r)
           /\ body'[r] = body[r] => Latest(r)' = Latest(r)
           /\ expect'[r] = expect[r] => /\ Batch(r)' = Batch(r)
                                        /\ \A k : Root(r, k)' = Root(r, k) /\ Path(r, k)' = Path(r, k)
<1>1. Updates(r)' = Updates(r) /\ Creates(r)' = Creates(r) /\ Renames(r)' = Renames(r)
      /\ Source(r)' = Source(r)
  BY DEF Updates, Creates, Renames, Source
<1>2. \A q \in Requests : Id(q)' = Id(q) /\ IsKeyed(q)' = IsKeyed(q)
  BY DEF Id, IsKeyed
<1>3. Needs(r)' = Needs(r)
  BY <1>1 DEF Needs
<1>4. Publishes(r)' = Publishes(r) /\ Alone(r)' = Alone(r)
  BY <1>1, <1>2 DEF Publishes, Alone
<1>5. body'[r] = body[r] => Latest(r)' = Latest(r)
  BY DEF Latest
<1>6. expect'[r] = expect[r] => Batch(r)' = Batch(r)
  BY DEF Batch
<1>7. ASSUME expect'[r] = expect[r], NEW k
      PROVE  Root(r, k)' = Root(r, k) /\ Path(r, k)' = Path(r, k)
  <2>1. Root(r, k)' = Root(r, k)
    BY <1>1, <1>2, <1>7 DEF Root
  <2> QED
    BY <1>2, <2>1 DEF Path
<1> QED
  BY <1>1, <1>2, <1>3, <1>4, <1>5, <1>6, <1>7

(* The calls a step does not belong to are where they were. *)
LEMMA Others ==
    ASSUME TypeOK, [Next]_vars
    PROVE  /\ ask' = ask /\ overlapped \subseteq overlapped' /\ stray \subseteq stray'
           /\ (\E q \in Requests : StepOf(q)) \/ UNCHANGED vars
           /\ \A r \in Requests :
                \/ StepOf(r)
                \/ /\ pc'[r] = pc[r] /\ expect'[r] = expect[r] /\ body'[r] = body[r]
                   /\ r \in stray' => r \in stray
<1>1. pc \in [Requests -> Ended \cup Stages \cup {"start", "read"}]
      /\ DOMAIN expect = Requests /\ DOMAIN body = Requests
  BY DEF TypeOK
<1>2. ASSUME NEW q \in Requests, StepOf(q), NEW r \in Requests, r # q
      PROVE  /\ pc'[r] = pc[r] /\ expect'[r] = expect[r] /\ body'[r] = body[r]
             /\ r \in stray' => r \in stray
  <2>1. CASE LookUp(q) \/ Write(q) \/ Verify(q) \/ LatePut(q) \/ Replay(q) \/ Fail(q)
    BY <1>1, <1>2, <2>1 DEF LookUp, Write, Verify, LatePut, Replay, Fail, Goto
  <2>2. CASE Read(q)
    BY <1>1, <1>2, <2>2 DEF Read, Goto
  <2>3. CASE Submit(q)
    <3>1. UNCHANGED <<expect, body, stray>> /\ \E v : pc' = [pc EXCEPT ![q] = v]
      BY <2>3 DEF Submit, Goto
    <3> QED
      BY <1>1, <1>2, <3>1
  <2>4. CASE Lose(q) \/ Late(q)
    BY <1>1, <1>2, <2>4 DEF Lose, Late
  <2>5. ASSUME NEW k \in Pointers, Check(q, k)
        PROVE  /\ pc'[r] = pc[r] /\ expect'[r] = expect[r] /\ body'[r] = body[r]
               /\ r \in stray' => r \in stray
    BY <1>1, <1>2, <2>5 DEF Check, Goto
  <2> QED
    BY <1>2, <2>1, <2>2, <2>3, <2>4, <2>5 DEF StepOf
<1>3. (\E q \in Requests : StepOf(q)) \/ UNCHANGED vars
  BY DEF Next, StepOf
<1>4. ASSUME NEW q \in Requests, StepOf(q)
      PROVE  ask' = ask /\ overlapped \subseteq overlapped' /\ stray \subseteq stray'
  <2>1. CASE LookUp(q)
    BY <2>1 DEF LookUp
  <2>2. CASE Lose(q)
    BY <2>2 DEF Lose
  <2>3. CASE ~LookUp(q) /\ ~Lose(q)
    <3>1. ask' = ask /\ overlapped' = overlapped /\ stray' = stray
      BY <1>4, <2>3 DEF StepOf, Read, Write, Verify, LatePut, Submit, Late, Replay, Fail, Check
    <3> QED
      BY <3>1
  <2> QED
    BY <2>1, <2>2, <2>3
<1> QED
  BY <1>2, <1>3, <1>4 DEF vars

-----------------------------------------------------------------------------
(* What a step does to the objects and to the group. *)

(* The group carries out the batch of r, on arrival or late. *)
Applies(r) == (Submit(r) \/ Late(r)) /\ Apply(r) /\ Holds(r) /\ retries[Id(r)] = None

(* A PUT of r takes effect. *)
Writes(r) == Write(r) \/ LatePut(r)

LEMMA BatchType ==
    ASSUME TypeOK, NEW r \in Requests, Holding(r)
    PROVE  Batch(r) \in Batches /\ Batch(r) # None
<1>1. expect[r] \in Reads(ask[r].on) /\ ask[r] \in Asks
  BY DEF TypeOK, Holding, Placed, Stages
<1>2. Batch(r) \in {ask[r]} \X Reads(ask[r].on)
  BY <1>1 DEF Batch
<1>3. Batch(r) \in Batches
  BY <1>1, <1>2 DEF Batches
<1> QED
  BY <1>1, <1>2, <1>3, CatalogAssumption

LEMMA Effects ==
    ASSUME TypeOK, [Next]_vars
    PROVE  /\ objects' = objects \/ \E r \in Requests : Writes(r)
           /\ UNCHANGED groupVars \/ \E r \in Requests : Applies(r)
<1>1. ASSUME NEW r \in Requests, StepOf(r), ~Submit(r), ~Late(r)
      PROVE  UNCHANGED groupVars /\ (objects' = objects \/ Writes(r))
  BY <1>1 DEF StepOf, LookUp, Read, Write, Verify, LatePut, Lose, Replay, Fail, Check, Writes
<1>2. ASSUME NEW r \in Requests, Submit(r)
      PROVE  objects' = objects /\ (UNCHANGED groupVars \/ Applies(r))
  <2>1. pc[r] = "commit" /\ objects' = objects
    BY <1>2 DEF Submit
  <2>2. Batch(r) # None
    BY <2>1, BatchType DEF Placed, Holding
  <2>3. CASE Accepted(r) /\ retries[Id(r)] = None
    BY <1>2, <2>1, <2>2, <2>3 DEF Submit, Accepted, Applies
  <2>4. CASE ~(Accepted(r) /\ retries[Id(r)] = None)
    BY <1>2, <2>1, <2>4 DEF Submit
  <2> QED
    BY <2>1, <2>3, <2>4
<1>3. ASSUME NEW r \in Requests, Late(r)
      PROVE  objects' = objects /\ Applies(r)
  BY <1>3 DEF Late, Applies
<1> QED
  BY <1>1, <1>2, <1>3, Others DEF vars

LEMMA WriteEffect ==
    ASSUME TypeOK, Readings, Bodies, NEW r \in Requests, Writes(r)
    PROVE  /\ pc[r] \in {"write", "hung"} /\ Publishes(r) /\ Latest(r) \in DOMAIN body[r]
           /\ Latest(r) \in ask[r].on /\ Path(r, Latest(r)) \in Paths
           /\ Path(r, Latest(r))[2] = Id(r) /\ body[r][Latest(r)] \in Seq(Inputs)
           /\ objects'[Path(r, Latest(r))] = body[r][Latest(r)]
           /\ \A p \in Paths : p # Path(r, Latest(r)) => objects'[p] = objects[p]
<1>1. /\ pc[r] \in {"write", "hung"}
      /\ objects' = [objects EXCEPT ![Path(r, Latest(r))] = body[r][Latest(r)]]
  BY DEF Writes, Write, LatePut, Store
<1>2. Publishes(r) /\ DOMAIN body[r] # {}
  BY <1>1 DEF Bodies
<1>3. Latest(r) \in DOMAIN body[r] /\ Latest(r) \in ask[r].on
  BY <1>2, LatestIs DEF TypeOK
<1>4. Path(r, Latest(r)) \in Paths /\ Path(r, Latest(r))[2] = Id(r)
  BY <1>1, <1>2, <1>3, Held DEF Placed, Holding
<1>5. body[r][Latest(r)] \in Seq(Inputs)
  BY <1>3 DEF TypeOK
<1> QED
  BY <1>1, <1>2, <1>3, <1>4, <1>5 DEF TypeOK

(* No object disappears, and no contest ends. *)
LEMMA ObjectsStay ==
    ASSUME TypeOK, Readings, Bodies, [Next]_vars, NEW p \in Paths, objects[p] # None
    PROVE  objects'[p] # None
<1>1. ASSUME NEW r \in Requests, Writes(r)
      PROVE  objects'[p] # None
  BY <1>1, WriteEffect, CatalogAssumption
<1> QED
  BY <1>1, Effects

LEMMA ContestStays ==
    ASSUME TypeOK, Readings, Bodies, [Next]_vars, NEW x \in Roots, Contested(x)
    PROVE  Contested(x)'
<1>1. PICK i \in overlapped : objects[<<x, i>>] # None
  BY DEF Contested
<1>2. i \in overlapped' /\ <<x, i>> \in Paths
  BY Others DEF TypeOK, Paths
<1>3. objects'[<<x, i>>] # None
  BY <1>1, <1>2, ObjectsStay
<1> QED
  BY <1>2, <1>3 DEF Contested

(* What the batch of a handler puts in a record. *)
LEMMA PutIs ==
    ASSUME TypeOK, NEW r \in Requests, NEW k \in ask[r].on
    PROVE  /\ Updates(r) => Put(r, k) = [expect[r][k] EXCEPT !.at = Path(r, k)]
           /\ Creates(r) => Put(r, k) = [root |-> Root(r, k), at |-> Path(r, k)]
           /\ Registers(r) => Put(r, k) = [root |-> <<"init", "x">>, at |-> <<<<"init", "x">>, "init">>]
           /\ Renames(r) => Put(r, k) = IF k = Source(r) THEN None ELSE expect[r][Source(r)]
           /\ Drops(r) => Put(r, k) = None
           /\ ask[r].op = "create_namespace" => Put(r, k) = {}
           /\ ask[r].op = "update_namespace_properties" => Put(r, k) = expect[r][k] \cup {ask[r].input}
           /\ ask[r].op = "drop_namespace" => Put(r, k) = None
<1>1. Updates(r) => Put(r, k) = [expect[r][k] EXCEPT !.at = Path(r, k)]
  BY DEF Updates, Put, commit_table, commit_transaction, commit_view
<1>2. Creates(r) => Put(r, k) = [root |-> Root(r, k), at |-> Path(r, k)]
  BY DEF Creates, Put, create_table, create_view
<1>3. Registers(r) => Put(r, k) = [root |-> <<"init", "x">>, at |-> <<<<"init", "x">>, "init">>]
  BY DEF Registers, Put, register_table
<1>4. Renames(r) => Put(r, k) = IF k = Source(r) THEN None ELSE expect[r][Source(r)]
  BY DEF Renames, Put, rename_table, rename_view, Source
<1>5. Drops(r) => Put(r, k) = None
  BY DEF Drops, Put, drop_table, drop_view
<1>6. /\ ask[r].op = "create_namespace" => Put(r, k) = {}
      /\ ask[r].op = "update_namespace_properties" => Put(r, k) = expect[r][k] \cup {ask[r].input}
      /\ ask[r].op = "drop_namespace" => Put(r, k) = None
  BY DEF Put, create_namespace, update_namespace_properties, drop_namespace
<1> QED
  BY <1>1, <1>2, <1>3, <1>4, <1>5, <1>6

LEMMA Applied ==
    ASSUME TypeOK, Readings, NEW r \in Requests, Applies(r)
    PROVE  /\ Ready(r) /\ Holding(r) /\ UNCHANGED <<ask, expect, body, objects, stray, overlapped>>
           /\ \A k \in ask[r].on : rec[k] = expect[r][k] /\ rec'[k] = Put(r, k)
           /\ \A k \in Records \ ask[r].on : rec'[k] = rec[k]
           /\ DOMAIN rec' = Records
           /\ retries'[Id(r)] = Batch(r)
           /\ \A i \in Ids : i # Id(r) => retries'[i] = retries[i]
           /\ ~Updates(r) => history' = history
           /\ Updates(r) => \A x \in Roots :
                history'[x] = IF \E k \in ask[r].on : expect[r][k].root = x
                              THEN Append(history[x], ask[r].input) ELSE history[x]
           /\ idem' = IF IsKeyed(r) THEN ask[r] ELSE idem
           /\ IsKeyed(r) => idem = None
<1>1. Ready(r) /\ Holding(r) /\ UNCHANGED <<ask, expect, body, objects, stray, overlapped>>
  BY DEF Applies, Submit, Late, Ready, Holding, Placed
<1>2. DOMAIN expect[r] = ask[r].on
  BY <1>1, Held
<1>3. ask[r].on \subseteq Records
  BY Shape DEF Records, Pointers, Tables, Views, Publishes
<1>4. rec' = [k \in Records |-> IF k \in ask[r].on THEN Put(r, k) ELSE rec[k]]
  BY <1>2 DEF Applies, Apply
<1>5. /\ \A k \in ask[r].on : rec[k] = expect[r][k] /\ rec'[k] = Put(r, k)
      /\ \A k \in Records \ ask[r].on : rec'[k] = rec[k]
      /\ DOMAIN rec' = Records
  BY <1>2, <1>3, <1>4 DEF Applies, Holds
<1>6. /\ retries'[Id(r)] = Batch(r)
      /\ \A i \in Ids : i # Id(r) => retries'[i] = retries[i]
  BY IdType DEF Applies, Apply, TypeOK
<1>7. /\ idem' = IF IsKeyed(r) THEN ask[r] ELSE idem
      /\ IsKeyed(r) => idem = None
  BY DEF Applies, Apply, Holds
<1>8. ~Updates(r) => history' = history
  BY DEF Applies, Apply
<1>9. ASSUME Updates(r), NEW x \in Roots
      PROVE  history'[x] = IF \E k \in ask[r].on : expect[r][k].root = x
                           THEN Append(history[x], ask[r].input) ELSE history[x]
  BY <1>2, <1>9 DEF Applies, Apply
<1> QED
  BY <1>1, <1>5, <1>6, <1>7, <1>8, <1>9

(* The five ways in which a batch leaves the document of a table or view. *)
LEMMA Named ==
    ASSUME TypeOK, Readings, NEW r \in Requests, Applies(r), NEW t \in Pointers
    PROVE  /\ \/ t \notin ask[r].on /\ rec'[t] = rec[t]
              \/ rec'[t] = None
              \/ /\ Updates(r) /\ t \in ask[r].on /\ rec[t] \in Pointer /\ rec'[t] \in Pointer
                 /\ rec'[t].root = rec[t].root /\ rec'[t].at = Path(r, t)
              \/ /\ Creates(r) /\ t \in ask[r].on /\ rec'[t] \in Pointer
                 /\ rec'[t].root = <<Id(r), t>> /\ rec'[t].at = Path(r, t) /\ rec[t] = None
              \/ /\ Registers(r) /\ t = "b" /\ rec'[t] \in Pointer /\ rec[t] = None
                 /\ rec'[t].root = <<"init", "x">> /\ rec'[t].at = <<<<"init", "x">>, "init">>
              \/ /\ Renames(r) /\ t \in ask[r].on /\ t # Source(r)
                 /\ Source(r) \in Pointers /\ rec[Source(r)] \in Pointer
                 /\ rec'[t] = rec[Source(r)] /\ rec'[Source(r)] = None /\ rec[t] = None
           /\ t = "b" /\ rec[t] # None => rec'[t] # None
<1>0. t \in Records /\ t # "ns" /\ Holding(r)
  BY Applied DEF Records, Pointers, Tables, Views
<1>1. CASE t \notin ask[r].on
  BY <1>0, <1>1, Applied
<1>2. CASE t \in ask[r].on /\ Updates(r)
  <2>1. expect[r][t] \in Pointer /\ Path(r, t) \in Paths /\ Path(r, t) = <<expect[r][t].root, Id(r)>>
    BY <1>0, <1>2, Held DEF Publishes, Root
  <2>2. rec[t] = expect[r][t] /\ rec'[t] = [expect[r][t] EXCEPT !.at = Path(r, t)]
    BY <1>2, Applied, PutIs
  <2>3. expect[r][t] \in [root : Roots, at : Paths]
    BY <2>1 DEF Pointer
  <2>4. /\ rec'[t] \in [root : Roots, at : Paths]
        /\ rec'[t].root = expect[r][t].root /\ rec'[t].at = Path(r, t)
    BY <2>1, <2>2, <2>3
  <2>5. rec'[t].at[1] = rec'[t].root
    BY <2>1, <2>4
  <2>6. rec'[t] \in Pointer /\ rec'[t].root = rec[t].root /\ rec'[t].at = Path(r, t)
    BY <2>2, <2>4, <2>5 DEF Pointer
  <2> QED
    BY <1>2, <2>1, <2>2, <2>6, CatalogAssumption
<1>3. CASE t \in ask[r].on /\ Creates(r)
  <2>1. ~Updates(r) /\ Root(r, t) = <<Id(r), t>>
    BY <1>3, Shape DEF Root
  <2>2. rec[t] = expect[r][t] /\ rec'[t] = [root |-> <<Id(r), t>>, at |-> Path(r, t)]
    BY <1>3, <2>1, Applied, PutIs
  <2>3. Path(r, t) \in Paths /\ <<Id(r), t>> \in Roots /\ Path(r, t) = <<<<Id(r), t>>, Id(r)>>
    BY <1>0, <1>3, <2>1, Held DEF Publishes
  <2>4. rec[t] = None
    BY <1>0, <1>3, <2>2, Shape DEF Readings
  <2>5. rec'[t].root = <<Id(r), t>> /\ rec'[t].at = Path(r, t) /\ rec'[t].at[1] = rec'[t].root
    BY <2>2, <2>3
  <2>6. rec'[t] \in Pointer
    BY <2>2, <2>3, <2>5 DEF Pointer
  <2>7. rec'[t] # None
    BY <2>6, CatalogAssumption
  <2> QED
    BY <1>3, <2>4, <2>5, <2>6, <2>7
<1>4. CASE t \in ask[r].on /\ Registers(r)
  <2>1. rec[t] = expect[r][t] /\ rec'[t] = [root |-> <<"init", "x">>, at |-> <<<<"init", "x">>, "init">>]
    BY <1>4, Applied, PutIs
  <2>2. t = "b" /\ rec[t] = None
    BY <1>0, <1>4, <2>1, Shape DEF Readings
  <2>3. <<"init", "x">> \in Roots /\ <<<<"init", "x">>, "init">> \in Paths
    BY DEF Paths, Roots, Ids
  <2>4. rec'[t] \in Pointer /\ rec'[t].root = <<"init", "x">> /\ rec'[t].at = <<<<"init", "x">>, "init">>
    BY <2>1, <2>3 DEF Pointer
  <2>5. rec'[t] # None
    BY <2>4, CatalogAssumption
  <2> QED
    BY <1>4, <2>2, <2>4, <2>5
<1>5. CASE t \in ask[r].on /\ Renames(r)
  <2>1. Source(r) \in ask[r].on /\ Source(r) \in Pointers /\ Source(r) # "ns" /\ Source(r) # "b"
    BY <1>5, Shape DEF Pointers, Tables, Views
  <2>2. rec[Source(r)] = expect[r][Source(r)] /\ rec'[Source(r)] = None
    BY <1>5, <2>1, Applied, PutIs
  <2>3. rec[Source(r)] \in Pointer
    BY <1>0, <1>5, <2>1, <2>2, Shape DEF Readings, Document
  <2>4. CASE t = Source(r)
    BY <2>1, <2>2, <2>4
  <2>5. CASE t # Source(r)
    <3>1. rec'[t] = rec[Source(r)] /\ rec[t] = expect[r][t]
      BY <1>5, <2>2, <2>5, Applied, PutIs
    <3>2. rec[t] = None
      BY <1>0, <1>5, <2>5, <3>1, Shape DEF Readings
    <3> QED
      BY <1>5, <2>1, <2>2, <2>3, <2>5, <3>1, <3>2
  <2> QED
    BY <2>4, <2>5
<1>6. CASE t \in ask[r].on /\ Drops(r)
  <2>1. rec'[t] = None /\ t # "b"
    BY <1>6, Applied, PutIs, Shape
  <2> QED
    BY <2>1
<1>7. CASE OnNamespace(r)
  BY <1>0, <1>1, <1>7, Shape
<1> QED
  BY <1>1, <1>2, <1>3, <1>4, <1>5, <1>6, <1>7, Shape

-----------------------------------------------------------------------------
(* How a call moves. *)

Everywhere == Ended \cup Stages \cup {"start", "read"}

(* Read(r) found what it needs. *)
Found(r) ==
    /\ pc[r] = "read" /\ \A k \in Needs(r) : rec[k] # None
    /\ pc'[r] = IF Publishes(r) THEN "publish" ELSE "commit"
    /\ expect'[r] = Expects(r) /\ body'[r] = body[r]
    /\ UNCHANGED <<groupVars, objects, stray, overlapped>>

(* Check(r, k) accepted what it built. *)
Checked(r, k) ==
    /\ k \in Pointers /\ Check(r, k) /\ pc[r] = "publish" /\ body'[r] = With(r, k)
    /\ expect'[r] = expect[r] /\ UNCHANGED <<groupVars, objects, stray, overlapped>>
    /\ \/ pc'[r] = "write" /\ objects[Path(r, k)] = None
       \/ /\ pc'[r] = IF Unpublished(r) = {k} THEN "commit" ELSE "publish"
          /\ objects[Path(r, k)] = Built(r, k)

(* Any other step of a handler, of which it keeps what it holds. *)
Moved(r) ==
    /\ expect'[r] = expect[r] /\ body'[r] = body[r]
    /\ r \in stray' => r \in stray \/ pc[r] = "commit"
    /\ \/ pc'[r] = pc[r] \/ pc'[r] \in Ended
       \/ LookUp(r) /\ pc[r] = "start" /\ pc'[r] = "read"
       \/ Write(r) /\ pc[r] = "write" /\ pc'[r] = "verify"
       \/ /\ Verify(r) /\ pc[r] = "verify" /\ UNCHANGED <<groupVars, objects, overlapped>>
          /\ objects[Path(r, Latest(r))] = body[r][Latest(r)]
          /\ pc'[r] = IF Unpublished(r) = {} THEN "commit" ELSE "publish"
       \/ Submit(r) /\ pc[r] = "commit" /\ pc'[r] = "replay"
       \/ Fail(r) /\ pc[r] = "write" /\ pc'[r] = "hung"

LEMMA Moves ==
    ASSUME TypeOK, [Next]_vars, NEW r \in Requests
    PROVE  Found(r) \/ (\E k \in ask[r].on : Checked(r, k)) \/ Moved(r)
<1>1. /\ pc \in [Requests -> Everywhere] /\ DOMAIN expect = Requests /\ DOMAIN body = Requests
  BY DEF TypeOK, Everywhere
<1> USE DEF Goto
<1>2. CASE LookUp(r)
  BY <1>1, <1>2 DEF LookUp, Moved, Ended
<1>3. CASE Read(r)
  <2>1. pc[r] = "read" /\ UNCHANGED <<body, groupVars, objects, stray, overlapped>>
    BY <1>3 DEF Read
  <2>2. CASE \E k \in Needs(r) : rec[k] = None
    BY <1>1, <1>3, <2>1, <2>2 DEF Read, Moved, Ended
  <2>3. CASE ~\E k \in Needs(r) : rec[k] = None
    <3>1. /\ pc' = [pc EXCEPT ![r] = IF Publishes(r) THEN "publish" ELSE "commit"]
          /\ expect' = [expect EXCEPT ![r] = Expects(r)]
      BY <1>3, <2>3 DEF Read
    <3>2. /\ pc'[r] = IF Publishes(r) THEN "publish" ELSE "commit"
          /\ expect'[r] = Expects(r)
      BY <1>1, <3>1
    <3> QED
      BY <2>1, <2>3, <3>2 DEF Found
  <2> QED
    BY <2>2, <2>3
<1>4. CASE Write(r) \/ LatePut(r)
  BY <1>1, <1>4 DEF Write, LatePut, Moved, Ended
<1>5. CASE Verify(r)
  <2>1. pc[r] = "verify" /\ UNCHANGED <<expect, body, groupVars, objects, stray, overlapped>>
    BY <1>5 DEF Verify
  <2>2. \/ pc'[r] = "refused"
        \/ /\ objects[Path(r, Latest(r))] = body[r][Latest(r)]
           /\ pc'[r] = IF Unpublished(r) = {} THEN "commit" ELSE "publish"
    BY <1>1, <1>5 DEF Verify
  <2> QED
    BY <1>5, <2>1, <2>2 DEF Moved, Ended
<1>6. CASE Submit(r)
  <2>1. pc[r] = "commit" /\ UNCHANGED <<expect, body, stray>>
    BY <1>6 DEF Submit
  <2>2. pc'[r] \in {"ok", "refused", "replay"}
    <3>1. \/ pc' = [pc EXCEPT ![r] = "ok"]
          \/ pc' = [pc EXCEPT ![r] = IF IsKeyed(r) THEN "replay" ELSE "refused"]
      BY <1>6 DEF Submit
    <3> QED
      BY <1>1, <3>1
  <2> QED
    BY <1>6, <2>1, <2>2 DEF Moved, Ended
<1>7. CASE Lose(r)
  <2>1. pc[r] = "commit" /\ UNCHANGED <<expect, body>>
    BY <1>7 DEF Lose
  <2>2. pc' = pc \/ pc' = [pc EXCEPT ![r] = "failed"]
    BY <1>7 DEF Lose
  <2>3. pc'[r] \in Ended \/ pc'[r] = pc[r]
    BY <1>1, <2>2 DEF Ended
  <2> QED
    BY <2>1, <2>3 DEF Moved
<1>8. CASE Late(r)
  BY <1>8 DEF Late, Moved
<1>9. CASE Replay(r)
  BY <1>1, <1>9 DEF Replay, Moved, Ended
<1>10. CASE Fail(r)
  <2>1. UNCHANGED <<expect, body, stray>>
    BY <1>10 DEF Fail
  <2>2. pc'[r] = "failed" \/ (pc[r] = "write" /\ pc'[r] = "hung")
    BY <1>1, <1>10 DEF Fail
  <2> QED
    BY <1>10, <2>1, <2>2 DEF Moved, Ended
<1>11. ASSUME NEW k \in Pointers, Check(r, k)
      PROVE  (\E j \in ask[r].on : Checked(r, j)) \/ Moved(r)
  <2>1. /\ pc[r] = "publish" /\ k \in ask[r].on
        /\ UNCHANGED <<expect, groupVars, objects, stray, overlapped>>
    BY <1>11 DEF Check, Unpublished
  <2>2. CASE pc' = [pc EXCEPT ![r] = "refused"] /\ body' = body
    BY <1>1, <2>1, <2>2 DEF Moved, Ended
  <2>3. CASE ~(pc' = [pc EXCEPT ![r] = "refused"] /\ body' = body)
    <3>1. /\ body' = [body EXCEPT ![r] = With(r, k)]
          /\ \/ pc' = [pc EXCEPT ![r] = "write"] /\ objects[Path(r, k)] = None
             \/ /\ pc' = [pc EXCEPT ![r] = IF Unpublished(r) = {k} THEN "commit" ELSE "publish"]
                /\ objects[Path(r, k)] = Built(r, k)
      BY <1>11, <2>3 DEF Check
    <3>2. body'[r] = With(r, k)
      BY <1>1, <3>1
    <3>3. \/ pc'[r] = "write" /\ objects[Path(r, k)] = None
          \/ /\ pc'[r] = IF Unpublished(r) = {k} THEN "commit" ELSE "publish"
             /\ objects[Path(r, k)] = Built(r, k)
      BY <1>1, <3>1
    <3>4. Checked(r, k)
      BY <1>11, <2>1, <3>2, <3>3 DEF Checked
    <3> QED
      BY <2>1, <3>4
  <2> QED
    BY <2>2, <2>3
<1>12. CASE ~StepOf(r)
  BY <1>12, Others DEF Moved
<1> QED
  BY <1>2, <1>3, <1>4, <1>5, <1>6, <1>7, <1>8, <1>9, <1>10, <1>11, <1>12 DEF StepOf

(* A handler holds documents only after its reads. *)
LEMMA HoldingFrom ==
    ASSUME TypeOK, [Next]_vars, NEW r \in Requests, Holding(r)', ~Found(r)
    PROVE  Holding(r) /\ expect'[r] = expect[r]
<1>1. CASE \E k \in ask[r].on : Checked(r, k)
  BY <1>1 DEF Checked, Placed, Holding
<1>2. CASE Moved(r)
  BY <1>2 DEF Moved, Placed, Ended, Holding
<1> QED
  BY <1>1, <1>2, Moves

-----------------------------------------------------------------------------
(* Types. *)

LEMMA ExpectsType ==
    ASSUME TypeOK, NEW r \in Requests
    PROVE  Expects(r) \in Reads(ask[r].on)
<1>1. ask[r].on = {"ns"} \/ (ask[r].on \subseteq Pointers /\ "ns" \notin ask[r].on)
  BY Shape DEF Pointers, Tables, Views, Publishes
<1>2. \A k \in Records : rec[k] \in {None} \cup Document(k)
  BY DEF TypeOK
<1>3. CASE ask[r].on = {"ns"}
  BY <1>2, <1>3 DEF Expects, Reads, Document, Records
<1>4. CASE ask[r].on \subseteq Pointers /\ "ns" \notin ask[r].on
  <2>1. \A k \in ask[r].on : (IF k \in Needs(r) THEN rec[k] ELSE None) \in {None} \cup Pointer
    BY <1>2, <1>4 DEF Document, Records
  <2>2. ask[r].on # {"ns"}
    BY <1>4
  <2> QED
    BY <2>1, <2>2 DEF Expects, Reads
<1> QED
  BY <1>1, <1>3, <1>4

LEMMA TypeStep ==
    ASSUME TypeOK, Readings, Bodies, [Next]_vars
    PROVE  TypeOK'
<1>1. ask' = ask
  BY Others
<1>2. pc' \in [Requests -> Ended \cup Stages \cup {"start", "read"}]
  <2>1. DOMAIN pc' = Requests /\ pc' = [r \in Requests |-> pc'[r]]
    <3>1. pc \in [Requests -> Everywhere]
      BY DEF TypeOK, Everywhere
    <3>2. ASSUME NEW r \in Requests, StepOf(r)
          PROVE  pc' = pc \/ \E v : pc' = [pc EXCEPT ![r] = v]
      <4>1. CASE Submit(r) \/ Lose(r) \/ Late(r)
        BY <4>1 DEF Submit, Lose, Late, Goto
      <4>2. CASE LookUp(r) \/ Read(r) \/ Write(r) \/ Verify(r) \/ LatePut(r) \/ Replay(r) \/ Fail(r)
        BY <4>2 DEF LookUp, Read, Write, Verify, LatePut, Replay, Fail, Goto
      <4>3. CASE \E k \in Pointers : Check(r, k)
        BY <4>3 DEF Check, Goto
      <4> QED
        BY <3>2, <4>1, <4>2, <4>3 DEF StepOf
    <3> QED
      BY <3>1, <3>2, Others DEF vars
  <2>2. ASSUME NEW r \in Requests PROVE pc'[r] \in Ended \cup Stages \cup {"start", "read"}
    BY Moves DEF TypeOK, Found, Checked, Moved, Stages
  <2> QED
    BY <2>1, <2>2
<1>3. DOMAIN expect' = Requests /\ DOMAIN body' = Requests
  <2>1. ASSUME NEW r \in Requests, StepOf(r)
        PROVE  DOMAIN expect' = DOMAIN expect /\ DOMAIN body' = DOMAIN body
    <3>1. CASE LookUp(r) \/ Write(r) \/ Verify(r) \/ LatePut(r) \/ Replay(r) \/ Fail(r)
      BY <3>1 DEF LookUp, Write, Verify, LatePut, Replay, Fail
    <3>2. CASE Submit(r) \/ Lose(r) \/ Late(r)
      BY <3>2 DEF Submit, Lose, Late
    <3>3. CASE Read(r)
      BY <3>3 DEF Read
    <3>4. CASE \E k \in Pointers : Check(r, k)
      BY <3>4 DEF Check
    <3> QED
      BY <2>1, <3>1, <3>2, <3>3, <3>4 DEF StepOf
  <2> QED
    BY <2>1, Others DEF vars, TypeOK
<1>4. ASSUME NEW r \in Requests
      PROVE  /\ pc'[r] \in Stages \/ r \in stray' => expect'[r] \in Reads(ask[r].on)
             /\ DOMAIN body'[r] \subseteq ask[r].on
             /\ \A k \in DOMAIN body'[r] : body'[r][k] \in Seq(Inputs)
  <2>0. /\ pc[r] \in Stages \/ r \in stray => expect[r] \in Reads(ask[r].on)
        /\ DOMAIN body[r] \subseteq ask[r].on
        /\ \A k \in DOMAIN body[r] : body[r][k] \in Seq(Inputs)
    BY DEF TypeOK
  <2>1. CASE Found(r)
    BY <2>0, <2>1, ExpectsType DEF Found
  <2>2. ASSUME NEW k \in ask[r].on, Checked(r, k)
        PROVE  /\ expect'[r] \in Reads(ask[r].on)
               /\ DOMAIN body'[r] \subseteq ask[r].on
               /\ \A j \in DOMAIN body'[r] : body'[r][j] \in Seq(Inputs)
    <3>1. pc[r] = "publish" /\ expect'[r] = expect[r] /\ body'[r] = With(r, k) /\ Publishes(r)
      BY <2>2 DEF Checked, Bodies
    <3>2. Built(r, k) \in Seq(Inputs)
      BY <3>1, Held DEF Placed, Holding
    <3> QED
      BY <2>0, <3>1, <3>2 DEF With, Stages
  <2>3. CASE Moved(r)
    BY <2>0, <2>3 DEF Moved, Stages, Ended
  <2> QED
    BY <2>1, <2>2, <2>3, Moves
<1>5. DOMAIN rec' = Records /\ \A k \in Records : rec'[k] \in {None} \cup Document(k)
  <2>1. CASE rec' = rec
    BY <2>1 DEF TypeOK
  <2>2. ASSUME NEW r \in Requests, Applies(r)
        PROVE  DOMAIN rec' = Records /\ \A k \in Records : rec'[k] \in {None} \cup Document(k)
    <3>1. ASSUME NEW k \in Pointers PROVE rec'[k] \in {None} \cup Pointer
      <4>1. k \in Records /\ Document(k) = Pointer
        BY DEF Records, Document, Pointers, Tables, Views
      <4>2. rec[k] \in {None} \cup Pointer
        BY <4>1 DEF TypeOK
      <4> QED
        BY <2>2, <4>2, Named
    <3>2. rec'["ns"] \in {None} \cup SUBSET Inputs
      <4>1. "ns" \in Records /\ Document("ns") = SUBSET Inputs
        BY DEF Records, Document
      <4>2. rec["ns"] \in {None} \cup SUBSET Inputs
        BY <4>1 DEF TypeOK
      <4>3. CASE OnNamespace(r)
        <5>1. ask[r].on = {"ns"} /\ rec["ns"] = expect[r]["ns"] /\ rec'["ns"] = Put(r, "ns")
          BY <2>2, <4>3, Applied, Shape
        <5>2. ASSUME ask[r].op = "update_namespace_properties"
              PROVE  expect[r]["ns"] \in SUBSET Inputs /\ ask[r].input \in Inputs
          <6>1. Needs(r) = {"ns"} /\ Holding(r)
            BY <2>2, <5>1, <5>2, Applied DEF Needs, Creates, Renames
          <6> QED
            BY <4>1, <5>1, <5>2, <6>1, Shape DEF Readings
        <5> QED
          BY <4>3, <5>1, <5>2, PutIs DEF OnNamespace
      <4>4. CASE ~OnNamespace(r)
        <5>1. "ns" \notin ask[r].on
          BY <4>4, Shape DEF Tables
        <5> QED
          BY <2>2, <4>1, <4>2, <5>1, Applied
      <4> QED
        BY <4>3, <4>4
    <3> QED
      BY <2>2, <3>1, <3>2, Applied DEF Records, Document, Pointers, Tables, Views
  <2> QED
    BY <2>1, <2>2, Effects DEF groupVars
<1>6. idem' \in {None} \cup Asks
  <2>1. ASSUME NEW r \in Requests, Applies(r) PROVE idem' \in {None} \cup Asks
    <3>1. ask[r] \in Asks /\ idem \in {None} \cup Asks
      BY DEF TypeOK
    <3>2. idem' = ask[r] \/ idem' = idem
      BY <2>1, Applied
    <3> QED
      BY <3>1, <3>2
  <2>2. idem' = idem => idem' \in {None} \cup Asks
    BY DEF TypeOK
  <2> QED
    BY <2>1, <2>2, Effects DEF groupVars
<1>7. retries' \in [Ids -> {None} \cup Batches]
  <2>1. ASSUME NEW r \in Requests, Applies(r) PROVE retries' \in [Ids -> {None} \cup Batches]
    <3>1. Batch(r) \in Batches
      BY <2>1, Applied, BatchType
    <3>2. retries' = [retries EXCEPT ![Id(r)] = Batch(r)]
      BY <2>1 DEF Applies, Apply
    <3> QED
      BY <3>1, <3>2 DEF TypeOK
  <2> QED
    BY <2>1, Effects DEF groupVars, TypeOK
<1>8. objects' \in [Paths -> {None} \cup Seq(Inputs)]
  <2>1. ASSUME NEW r \in Requests, Writes(r) PROVE objects' \in [Paths -> {None} \cup Seq(Inputs)]
    <3>1. objects' = [objects EXCEPT ![Path(r, Latest(r))] = body[r][Latest(r)]]
      BY <2>1 DEF Writes, Write, LatePut, Store
    <3>2. body[r][Latest(r)] \in Seq(Inputs)
      BY <2>1, WriteEffect
    <3> QED
      BY <3>1, <3>2 DEF TypeOK
  <2> QED
    BY <2>1, Effects DEF TypeOK
<1>9. stray' \subseteq Requests
  <2>1. ASSUME NEW r \in Requests, StepOf(r) PROVE stray' \subseteq stray \cup {r}
    BY <2>1 DEF StepOf, LookUp, Read, Write, Verify, LatePut, Submit, Lose, Late, Replay, Fail, Check
  <2> QED
    BY <2>1, Others DEF vars, TypeOK
<1>10. faults' \in 0..MaxFaults
  <2>1. ASSUME NEW r \in Requests, StepOf(r) PROVE faults' = faults \/ Fault
    BY <2>1 DEF StepOf, LookUp, Read, Write, Verify, LatePut, Submit, Lose, Late, Replay, Fail, Check
  <2>2. Fault => faults' \in 0..MaxFaults
    BY CatalogAssumption DEF Fault, TypeOK
  <2> QED
    BY <2>1, <2>2, Others DEF vars, TypeOK
<1>11. history' \in [Roots -> Seq(Inputs)]
  <2>0. history \in [Roots -> Seq(Inputs)]
    BY DEF TypeOK
  <2>1. ASSUME NEW r \in Requests, Applies(r) PROVE history' \in [Roots -> Seq(Inputs)]
    <3>1. CASE ~Updates(r)
      BY <2>0, <2>1, <3>1, Applied
    <3>2. CASE Updates(r)
      <4>1. \A x \in Roots : Append(history[x], ask[r].input) \in Seq(Inputs)
        BY <2>0, <3>2, Shape, AppendProperties
      <4>2. history' = [x \in Roots |-> IF \E k \in DOMAIN expect[r] : expect[r][k].root = x
                                        THEN Append(history[x], ask[r].input) ELSE history[x]]
        BY <2>1, <3>2 DEF Applies, Apply
      <4> QED
        BY <2>0, <4>1, <4>2
    <3> QED
      BY <3>1, <3>2
  <2> QED
    BY <2>0, <2>1, Effects DEF groupVars
<1>12. overlapped' \subseteq Ids
  <2>1. ASSUME NEW r \in Requests, StepOf(r) PROVE overlapped' \subseteq overlapped \cup {Id(r)}
    BY <2>1 DEF StepOf, LookUp, Read, Write, Verify, LatePut, Submit, Lose, Late, Replay, Fail, Check
  <2> QED
    BY <2>1, IdType, Others DEF vars, TypeOK
<1>13. \A r \in Requests : Reads(ask[r].on)' = Reads(ask[r].on)
  BY <1>1 DEF Reads
<1> QED
  BY <1>1, <1>2, <1>3, <1>4, <1>5, <1>6, <1>7, <1>8, <1>9, <1>10, <1>11, <1>12, <1>13 DEF TypeOK

-----------------------------------------------------------------------------
(* The invariant holds initially. *)

LEMMA InitIInv == Init => IInv
<1> SUFFICES ASSUME Init PROVE IInv
  OBVIOUS
<1>1. PICK present \in {{"a", "v"}, {"a", "b"}} :
         /\ rec = [k \in Records |-> IF k = "ns" THEN {}
                                     ELSE IF k \in present
                                     THEN [root |-> <<"init", k>>, at |-> <<<<"init", k>>, "init">>] ELSE None]
         /\ objects = [p \in Paths |-> IF p[1] \in {"init"} \X (present \cup {"x"}) /\ p[2] = "init"
                                       THEN <<>> ELSE None]
  BY DEF Init
<1>2. /\ ask \in [Requests -> Asks] /\ pc = [r \in Requests |-> "start"]
      /\ expect = [r \in Requests |-> <<>>] /\ body = [r \in Requests |-> <<>>]
      /\ idem = None /\ retries = [i \in Ids |-> None] /\ stray = {}
      /\ faults = 0 /\ history = [x \in Roots |-> <<>>] /\ overlapped = {}
  BY CatalogAssumption DEF Init
<1>3. <<>> \in Seq(Inputs) /\ <<>> # None
  BY EmptySeq, CatalogAssumption
<1>4. present \subseteq Pointers /\ Pointers \subseteq Records /\ "ns" \notin Pointers
  BY DEF Pointers, Tables, Views, Records
<1>5. ASSUME NEW t \in Pointers
      PROVE  \/ rec[t] = None
             \/ /\ rec[t] \in Pointer /\ rec[t].root = <<"init", t>> /\ rec[t].root \in Roots
                /\ objects[rec[t].at] = <<>>
  <2>1. CASE t \notin present
    BY <1>1, <1>4, <2>1
  <2>2. CASE t \in present
    <3> DEFINE x == <<"init", t>>
    <3>1. x \in Roots /\ <<x, "init">> \in Paths
      BY DEF Roots, Paths, Ids
    <3>2. rec[t] = [root |-> x, at |-> <<x, "init">>]
      BY <1>1, <1>4, <2>2
    <3>3. rec[t].root = x /\ rec[t].at = <<x, "init">> /\ rec[t] \in Pointer
      BY <3>1, <3>2 DEF Pointer
    <3>4. x \in {"init"} \X (present \cup {"x"})
      BY <2>2
    <3>5. objects[<<x, "init">>] = <<>>
      BY <1>1, <3>1, <3>4
    <3> QED
      BY <3>1, <3>3, <3>5
  <2> QED
    BY <2>1, <2>2
<1>6. TypeOK
  <2>1. DOMAIN rec = Records /\ \A k \in Records : rec[k] \in {None} \cup Document(k)
    <3>1. DOMAIN rec = Records /\ "ns" \in Records /\ rec["ns"] = {}
      BY <1>1 DEF Records
    <3> QED
      BY <1>5, <3>1 DEF Records, Document
  <2>2. objects \in [Paths -> {None} \cup Seq(Inputs)]
    BY <1>1, <1>3
  <2>3. 0 \in 0..MaxFaults
    BY CatalogAssumption
  <2>4. \A r \in Requests : pc[r] \notin Stages /\ r \notin stray /\ DOMAIN body[r] = {}
    <3>1. DOMAIN <<>> = {}
      OBVIOUS
    <3> QED
      BY <1>2, <3>1 DEF Stages
  <2>5. history \in [Roots -> Seq(Inputs)]
    BY <1>2, <1>3
  <2>6. pc \in [Requests -> Ended \cup Stages \cup {"start", "read"}]
    BY <1>2
  <2> QED
    BY <1>2, <2>1, <2>2, <2>3, <2>4, <2>5, <2>6 DEF TypeOK
<1>7. \A r \in Requests : ~Holding(r) /\ ~Ready(r) /\ ~InFlight(r) /\ pc[r] = "start" /\ DOMAIN body[r] = {}
  <2>1. DOMAIN <<>> = {}
    OBVIOUS
  <2> QED
    BY <1>2, <2>1 DEF Holding, Ready, Placed, InFlight
<1>8. Readings /\ Bodies
  BY <1>2, <1>7 DEF Readings, Bodies
<1>9. Rooted
  <2>1. <<"init", "x">> \in Roots /\ <<<<"init", "x">>, "init">> \in Paths
    BY DEF Paths, Roots, Ids
  <2>2. objects[<<<<"init", "x">>, "init">>] = <<>>
    BY <1>1, <2>1
  <2>3. \A t \in Pointers : <<"init", t>>[1] = "init" /\ <<"init", t>> # <<"init", "x">>
    BY DEF Pointers, Tables, Views
  <2>4. \A x \in Roots : history[x] = <<>>
    BY <1>2
  <2> QED
    BY <1>5, <2>1, <2>2, <2>3, <2>4 DEF Rooted
<1>10. Answers
  BY <1>2, <1>6, <1>7, IdType DEF Answers
<1>11. Exact
  BY <1>7 DEF Exact
<1>12. PointersSound
  <2>1. \A t, u \in Pointers : t # u => <<"init", t>> # <<"init", u>>
    OBVIOUS
  <2> QED
    BY <1>3, <1>5, <2>1 DEF PointersSound
<1>13. MetadataIsHistory
  BY <1>2, <1>5 DEF MetadataIsHistory
<1> QED
  BY <1>6, <1>8, <1>9, <1>10, <1>11, <1>12, <1>13 DEF IInv

-----------------------------------------------------------------------------
(* The documents read and the objects published. *)

LEMMA ReadingsStep ==
    ASSUME IInv, [Next]_vars
    PROVE  Readings'
<1> USE DEF IInv
<1>0. ask' = ask /\ \A r \in Requests : Needs(r)' = Needs(r)
  BY Others, Frame
<1> DEFINE P(r) == /\ \A k \in ask[r].on \ Needs(r) : expect'[r][k] = None
                   /\ \A k \in ask[r].on \cap Needs(r) : expect'[r][k] \in Document(k)
                   /\ \A k \in ask[r].on \cap Needs(r) \cap Pointers :
                        /\ objects'[expect'[r][k].at] # None
                        /\ \A j \in ask[r].on \cap Needs(r) \cap Pointers :
                             j # k => expect'[r][j].root # expect'[r][k].root
<1> SUFFICES ASSUME NEW r \in Requests, Holding(r)'
             PROVE  P(r)
  <2>1. Readings' <=>
          \A r \in Requests : Holding(r)' =>
            /\ \A k \in ask'[r].on \ Needs(r)' : expect'[r][k] = None
            /\ \A k \in ask'[r].on \cap Needs(r)' : expect'[r][k] \in Document(k)
            /\ \A k \in ask'[r].on \cap Needs(r)' \cap Pointers :
                 /\ objects'[expect'[r][k].at] # None
                 /\ \A j \in ask'[r].on \cap Needs(r)' \cap Pointers :
                      j # k => expect'[r][j].root # expect'[r][k].root
    BY DEF Readings
  <2> QED
    BY <1>0, <2>1
<1>1. CASE Found(r)
  <2>1. /\ \A k \in ask[r].on \ Needs(r) : expect'[r][k] = None
        /\ \A k \in ask[r].on \cap Needs(r) : expect'[r][k] = rec[k] /\ rec[k] # None
        /\ objects' = objects
    BY <1>1 DEF Found, Expects
  <2>2. ask[r].on \subseteq Records
    BY Shape DEF Records, Pointers, Tables, Views, Publishes
  <2>3. \A k \in ask[r].on \cap Needs(r) : expect'[r][k] \in Document(k)
    BY <2>1, <2>2 DEF TypeOK
  <2>4. \A k \in ask[r].on \cap Needs(r) \cap Pointers :
          /\ objects'[expect'[r][k].at] # None
          /\ \A j \in ask[r].on \cap Needs(r) \cap Pointers :
               j # k => expect'[r][j].root # expect'[r][k].root
    BY <2>1 DEF PointersSound
  <2> QED
    BY <2>1, <2>3, <2>4
<1>2. CASE ~Found(r)
  <2>1. Holding(r) /\ expect'[r] = expect[r]
    BY <1>2, HoldingFrom
  <2>2. ASSUME NEW k \in ask[r].on \cap Needs(r) \cap Pointers
        PROVE  objects'[expect[r][k].at] # None
    <3>1. expect[r][k] \in Pointer
      BY <2>1 DEF Readings, Document, Pointers, Tables, Views
    <3>2. expect[r][k].at \in Paths /\ objects[expect[r][k].at] # None
      BY <2>1, <3>1, PathParts DEF Readings
    <3> QED
      BY <3>2, ObjectsStay
  <2> QED
    BY <2>1, <2>2 DEF Readings
<1> QED
  BY <1>1, <1>2

LEMMA BodiesStep ==
    ASSUME IInv, [Next]_vars
    PROVE  Bodies'
<1> USE DEF IInv
<1>0. ask' = ask
  BY Others
<1> DEFINE Before(r) == pc[r] \in {"write", "hung"}
           After(r) == pc'[r] \in {"write", "hung"}
<1> SUFFICES ASSUME NEW r \in Requests
             PROVE  /\ r \in stray' => pc'[r] \in Ended \cup {"commit", "replay"}
                    /\ pc'[r] \in {"start", "read"} \/ ~Publishes(r) => DOMAIN body'[r] = {}
                    /\ pc'[r] \in {"publish", "write", "hung", "verify"} => Publishes(r)
                    /\ pc'[r] \in {"write", "hung", "verify"} => DOMAIN body'[r] # {}
                    /\ Ready(r)' /\ Publishes(r) => DOMAIN body'[r] = ask[r].on
                    /\ Holding(r)' =>
                         /\ "b" \in DOMAIN body'[r] /\ "a" \in ask[r].on => "a" \in DOMAIN body'[r]
                         /\ \A k \in DOMAIN body'[r] :
                              (After(r) /\ k = Latest(r)') \/ objects'[Path(r, k)'] # None
  BY <1>0, Frame DEF Bodies, Pending
<1>1. /\ r \in stray => pc[r] \in Ended \cup {"commit", "replay"}
      /\ pc[r] \in {"start", "read"} \/ ~Publishes(r) => DOMAIN body[r] = {}
      /\ pc[r] \in {"publish", "write", "hung", "verify"} => Publishes(r)
      /\ pc[r] \in {"write", "hung", "verify"} => DOMAIN body[r] # {}
      /\ Ready(r) /\ Publishes(r) => DOMAIN body[r] = ask[r].on
      /\ Holding(r) =>
           /\ "b" \in DOMAIN body[r] /\ "a" \in ask[r].on => "a" \in DOMAIN body[r]
           /\ \A k \in DOMAIN body[r] : (Before(r) /\ k = Latest(r)) \/ objects[Path(r, k)] # None
      /\ DOMAIN body[r] \subseteq ask[r].on
  BY DEF Bodies, TypeOK, Pending
<1>2. CASE Found(r)
  <2>1. r \notin stray' /\ pc'[r] \in {"publish", "commit"} /\ DOMAIN body'[r] = {}
        /\ (pc'[r] = "commit" => ~Publishes(r)) /\ (pc'[r] = "publish" => Publishes(r))
    BY <1>1, <1>2 DEF Found, Ended
  <2> QED
    BY <2>1 DEF Ready
<1>3. ASSUME Holding(r), NEW k \in DOMAIN body[r], objects[Path(r, k)] # None
      PROVE  objects'[Path(r, k)] # None
  <2>1. Publishes(r) /\ k \in ask[r].on
    BY <1>1, <1>3
  <2>2. Path(r, k) \in Paths
    BY <1>3, <2>1, Held
  <2> QED
    BY <1>3, <2>2, ObjectsStay
<1>4. ASSUME NEW k \in ask[r].on, Checked(r, k)
      PROVE  /\ DOMAIN body'[r] = DOMAIN body[r] \cup {k} /\ r \notin stray'
             /\ Publishes(r) /\ pc'[r] \in {"write", "publish", "commit"}
             /\ pc'[r] = "commit" => DOMAIN body'[r] = ask[r].on
             /\ "b" \in DOMAIN body'[r] /\ "a" \in ask[r].on => "a" \in DOMAIN body'[r]
             /\ \A j \in DOMAIN body'[r] :
                  (After(r) /\ j = Latest(r)') \/ objects'[Path(r, j)'] # None
  <2>1. /\ pc[r] = "publish" /\ expect'[r] = expect[r] /\ objects' = objects /\ stray' = stray
        /\ k \in Pointers /\ Check(r, k) /\ body'[r] = With(r, k)
    BY <1>4 DEF Checked
  <2>2. Latest(r)' = k /\ DOMAIN body'[r] = DOMAIN body[r] \cup {k}
    BY <2>1, LatestNew
  <2>3. \/ pc'[r] = "write"
        \/ /\ pc'[r] = IF Unpublished(r) = {k} THEN "commit" ELSE "publish"
           /\ objects[Path(r, k)] = Built(r, k)
    BY <1>4 DEF Checked
  <2>4. Built(r, k) # None /\ Holding(r)
    BY <1>1, <2>1, Held, CatalogAssumption DEF Placed, Holding
  <2>5. \A j : Path(r, j)' = Path(r, j)
    BY <1>0, <2>1, Frame
  <2>6. \A j \in DOMAIN body[r] : objects[Path(r, j)] # None
    BY <1>1, <2>1, <2>4
  <2>7. k = "b" => ("a" \in ask[r].on => "a" \in DOMAIN body[r])
    BY <2>1 DEF Check, Unpublished
  <2>8. Unpublished(r) = {k} => ask[r].on = DOMAIN body[r] \cup {k}
    BY <1>1 DEF Unpublished
  <2>9. \A j \in DOMAIN body'[r] :
                  (After(r) /\ j = Latest(r)') \/ objects'[Path(r, j)'] # None
    BY <2>1, <2>2, <2>3, <2>4, <2>5, <2>6
  <2>10. r \notin stray'
    BY <1>1, <2>1 DEF Ended
  <2> QED
    BY <1>1, <2>1, <2>2, <2>3, <2>4, <2>7, <2>8, <2>9, <2>10
<1>5. CASE Moved(r)
  <2>1. /\ expect'[r] = expect[r] /\ body'[r] = body[r]
        /\ r \in stray' => r \in stray \/ pc[r] = "commit"
    BY <1>5 DEF Moved
  <2>2. Latest(r)' = Latest(r) /\ \A k : Path(r, k)' = Path(r, k)
    BY <1>0, <2>1, Frame
  <2>3. CASE pc'[r] = pc[r]
    <3>1. Holding(r)' => Holding(r)
      BY <2>1, <2>3 DEF Holding, Placed
    <3>2. Ready(r)' => Ready(r)
      BY <2>1, <2>3 DEF Ready
    <3> QED
      BY <1>1, <1>3, <2>1, <2>2, <2>3, <3>1, <3>2
  <2>4. CASE pc'[r] \in Ended \cup {"replay"}
    <3>1. Holding(r)' => Ready(r)' /\ Ready(r) /\ Holding(r) /\ ~Before(r)
      BY <1>1, <2>1, <2>4 DEF Holding, Ready, Placed, Ended
    <3>2. Ready(r)' => Holding(r)'
      BY DEF Ready, Holding, Placed
    <3>3. \A k \in DOMAIN body[r] : Holding(r)' => objects'[Path(r, k)] # None
      BY <1>1, <1>3, <3>1
    <3>4. pc'[r] \notin {"start", "read", "publish", "write", "hung", "verify"}
      BY <2>4 DEF Ended
    <3> QED
      BY <1>1, <2>1, <2>2, <2>4, <3>1, <3>2, <3>3, <3>4
  <2>5. CASE pc[r] = "start" /\ pc'[r] = "read"
    BY <1>1, <2>1, <2>5 DEF Placed, Holding, Ready, Ended
  <2>6. CASE Write(r) /\ pc[r] = "write" /\ pc'[r] = "verify"
    <3>1. objects'[Path(r, Latest(r))] # None
      BY <2>6, WriteEffect, CatalogAssumption DEF Writes
    <3>2. r \notin stray' /\ Holding(r)
      BY <1>1, <2>1, <2>6 DEF Ended, Holding, Placed
    <3> QED
      BY <1>1, <1>3, <2>1, <2>2, <2>6, <3>1, <3>2 DEF Ready
  <2>7. CASE /\ pc[r] = "verify" /\ objects' = objects
             /\ pc'[r] = IF Unpublished(r) = {} THEN "commit" ELSE "publish"
    <3>1. Unpublished(r) = {} => ask[r].on = DOMAIN body[r]
      BY <1>1 DEF Unpublished
    <3>2. r \notin stray' /\ Holding(r)
      BY <1>1, <2>1, <2>7 DEF Ended, Holding, Placed
    <3> QED
      BY <1>1, <2>1, <2>2, <2>7, <3>1, <3>2 DEF Ready
  <2>8. CASE pc[r] = "write" /\ pc'[r] = "hung"
    <3>1. r \notin stray' /\ Holding(r)
      BY <1>1, <2>1, <2>8 DEF Ended, Holding, Placed
    <3> QED
      BY <1>1, <1>3, <2>1, <2>2, <2>8, <3>1 DEF Ready
  <2> QED
    BY <1>5, <2>3, <2>4, <2>5, <2>6, <2>7, <2>8 DEF Moved
<1>6. ASSUME NEW k \in ask[r].on, Checked(r, k)
      PROVE  /\ r \in stray' => pc'[r] \in Ended \cup {"commit", "replay"}
             /\ pc'[r] \in {"start", "read"} \/ ~Publishes(r) => DOMAIN body'[r] = {}
             /\ pc'[r] \in {"publish", "write", "hung", "verify"} => Publishes(r)
             /\ pc'[r] \in {"write", "hung", "verify"} => DOMAIN body'[r] # {}
             /\ Ready(r)' /\ Publishes(r) => DOMAIN body'[r] = ask[r].on
             /\ Holding(r)' =>
                  /\ "b" \in DOMAIN body'[r] /\ "a" \in ask[r].on => "a" \in DOMAIN body'[r]
                  /\ \A j \in DOMAIN body'[r] :
                       (After(r) /\ j = Latest(r)') \/ objects'[Path(r, j)'] # None
  BY <1>4, <1>6 DEF Ready
<1> HIDE DEF Before, After
<1> QED
  BY <1>2, <1>5, <1>6, Moves

-----------------------------------------------------------------------------
(* Names and roots. *)

(* What the group applied under a request id it remembers. *)
LEMMA Remembered ==
    ASSUME TypeOK, Readings, [Next]_vars, NEW i \in Ids, retries[i] # None
    PROVE  retries'[i] = retries[i]
<1>1. ASSUME NEW r \in Requests, Applies(r)
      PROVE  retries'[i] = retries[i]
  BY <1>1, Applied DEF Applies
<1> QED
  BY <1>1, Effects DEF groupVars

(* Where the name of a table or view comes from. *)
LEMMA RootFrom ==
    ASSUME IInv, NEW r \in Requests, Applies(r), NEW t \in Pointers, rec'[t] # None
    PROVE  \/ rec[t] # None /\ rec'[t].root = rec[t].root
           \/ /\ Renames(r) /\ t \in ask[r].on /\ t # Source(r) /\ Source(r) \in Pointers
              /\ rec[Source(r)] # None /\ rec'[t] = rec[Source(r)] /\ rec'[Source(r)] = None
           \/ /\ Creates(r) /\ t \in ask[r].on /\ rec'[t].root = <<Id(r), t>>
              /\ retries[Id(r)] = None /\ retries'[Id(r)] # None
           \/ Registers(r) /\ t = "b" /\ rec'[t].root = <<"init", "x">> /\ rec["b"] = None
<1> USE DEF IInv
<1>1. retries[Id(r)] = None /\ retries'[Id(r)] # None
  BY Applied, BatchType DEF Applies
<1>2. Pointer \cap {None} = {}
  BY CatalogAssumption
<1> QED
  BY <1>1, <1>2, Named

LEMMA RootedStep ==
    ASSUME IInv, [Next]_vars
    PROVE  Rooted'
<1> USE DEF IInv
<1> DEFINE x0 == <<"init", "x">>
           p0 == <<x0, "init">>
<1>0. x0 \in Roots /\ p0 \in Paths /\ p0[2] = "init"
  BY DEF Roots, Ids, Paths
<1>00. \A t \in Pointers : rec[t] # None => rec[t].root \in Roots
  <2>1. \A t \in Pointers : t \in Records /\ Document(t) = Pointer
    BY DEF Pointers, Tables, Views, Records, Document
  <2> QED
    BY <2>1, PathParts DEF TypeOK
<1>1. objects'[p0] = <<>>
  <2>1. ASSUME NEW r \in Requests, Writes(r)
        PROVE  objects'[p0] = <<>>
    <3>1. Path(r, Latest(r)) # p0
      BY <1>0, <2>1, WriteEffect, IdType
    <3>2. objects[p0] = <<>>
      BY DEF Rooted
    <3> QED
      BY <1>0, <2>1, <3>1, <3>2, WriteEffect
  <2> QED
    BY <2>1, Effects DEF Rooted
<1>2. CASE UNCHANGED groupVars
  BY <1>1, <1>2 DEF Rooted, groupVars
<1>3. ASSUME NEW r \in Requests, Applies(r)
      PROVE  Rooted'
  <2>1. ASSUME NEW t \in Pointers, rec'[t] # None, rec'[t].root[1] # "init"
        PROVE  retries'[rec'[t].root[1]] # None
    <3>1. CASE rec[t] # None /\ rec'[t].root = rec[t].root
      <4>1. rec[t].root[1] \in Ids /\ retries[rec[t].root[1]] # None
        BY <1>00, <2>1, <3>1, RootParts DEF Rooted
      <4> QED
        BY <3>1, <4>1, Remembered
    <3>2. CASE Source(r) \in Pointers /\ rec[Source(r)] # None /\ rec'[t] = rec[Source(r)]
      <4>1. rec'[t].root[1] \in Ids /\ retries[rec'[t].root[1]] # None
        BY <1>00, <2>1, <3>2, RootParts DEF Rooted
      <4> QED
        BY <4>1, Remembered
    <3>3. CASE rec'[t].root = <<Id(r), t>> /\ retries'[Id(r)] # None
      BY <3>3
    <3> QED
      BY <1>3, <2>1, <3>1, <3>2, <3>3, RootFrom
  <2>2. ASSUME NEW t \in Pointers, rec'[t] # None, rec'[t].root = x0
        PROVE  t = "b"
    <3>1. Renames(r) => Source(r) # "b"
      BY Shape
    <3>2. <<Id(r), t>> # x0
      BY IdType
    <3> QED
      BY <1>3, <2>2, <3>1, <3>2, RootFrom DEF Rooted
  <2>3. ASSUME NEW x \in Roots, history'[x] # history[x]
        PROVE  \E k \in Pointers : rec[k] # None /\ rec[k].root = x
    <3>1. Updates(r)
      BY <1>3, <2>3, Applied
    <3>2. PICK k \in ask[r].on : expect[r][k].root = x
      BY <1>3, <2>3, <3>1, Applied
    <3>3. Holding(r) /\ rec[k] = expect[r][k]
      BY <1>3, Applied
    <3>4. k \in Pointers /\ expect[r][k] \in Pointer
      BY <3>1, <3>3, Held DEF Publishes
    <3> QED
      BY <3>2, <3>3, <3>4, CatalogAssumption
  <2>4. ASSUME NEW x \in Roots, x[1] # "init", history'[x] # <<>>
        PROVE  retries'[x[1]] # None
    <3>1. retries[x[1]] # None
      BY <2>3, <2>4 DEF Rooted
    <3> QED
      BY <2>4, <3>1, Remembered, RootParts
  <2>5. ASSUME history'[x0] # <<>>
        PROVE  rec'["b"] # None
    <3>1. rec["b"] # None
      <4>1. CASE history[x0] # <<>>
        BY <4>1 DEF Rooted
      <4>2. CASE history[x0] = <<>>
        <5>1. PICK k \in Pointers : rec[k] # None /\ rec[k].root = x0
          BY <1>0, <2>3, <2>5, <4>2
        <5> QED
          BY <5>1 DEF Rooted
      <4> QED
        BY <4>1, <4>2
    <3>2. "b" \in Pointers
      BY DEF Pointers, Tables
    <3> QED
      BY <1>3, <3>1, <3>2, Named
  <2> QED
    BY <1>1, <2>1, <2>2, <2>4, <2>5 DEF Rooted
<1> QED
  BY <1>2, <1>3, Effects

LEMMA PointersStep ==
    ASSUME IInv, [Next]_vars
    PROVE  PointersSound'
<1> USE DEF IInv
<1>0. /\ \A t \in Pointers : rec[t] # None => rec[t] \in Pointer /\ rec[t].at \in Paths
      /\ <<>> # None
  <2>1. \A t \in Pointers : t \in Records /\ Document(t) = Pointer
    BY DEF Pointers, Tables, Views, Records, Document
  <2>2. \A t \in Pointers : rec[t] # None => rec[t] \in Pointer
    BY <2>1 DEF TypeOK
  <2> QED
    BY <2>2, PathParts, EmptySeq, CatalogAssumption
<1>1. CASE UNCHANGED groupVars
  <2>1. rec' = rec
    BY <1>1 DEF groupVars
  <2>2. ASSUME NEW t \in Pointers, rec[t] # None
        PROVE  objects'[rec[t].at] # None
    BY <1>0, <2>2, ObjectsStay DEF PointersSound
  <2> QED
    BY <2>1, <2>2 DEF PointersSound
<1>2. ASSUME NEW r \in Requests, Applies(r)
      PROVE  PointersSound'
  <2>1. objects' = objects /\ Ready(r) /\ Holding(r)
    BY <1>2, Applied
  <2>2. ASSUME NEW t \in Pointers, rec'[t] # None
        PROVE  objects[rec'[t].at] # None
    <3>1. ASSUME Publishes(r), t \in ask[r].on
          PROVE  objects[Path(r, t)] # None
      <4>1. t \in DOMAIN body[r] /\ ~Pending(r, t)
        BY <2>1, <3>1 DEF Bodies, Ready, Pending, Ended
      <4> QED
        BY <2>1, <4>1 DEF Bodies
    <3>2. objects[<<<<"init", "x">>, "init">>] # None
      BY <1>0 DEF Rooted
    <3> QED
      BY <1>0, <1>2, <2>2, <3>1, <3>2, Named, CatalogAssumption DEF Publishes, PointersSound
  <2>3. ASSUME NEW t \in Pointers, NEW u \in Pointers, t # u, rec'[t] # None, rec'[u] # None
        PROVE  rec'[t].root # rec'[u].root
    <3> DEFINE Kept(x) == rec[x] # None /\ rec'[x].root = rec[x].root
               Carried(x) == /\ Renames(r) /\ x \in ask[r].on /\ x # Source(r) /\ Source(r) \in Pointers
                            /\ rec[Source(r)] # None /\ rec'[x] = rec[Source(r)] /\ rec'[Source(r)] = None
               Made(x) == Creates(r) /\ x \in ask[r].on /\ rec'[x].root = <<Id(r), x>> /\ retries[Id(r)] = None
               Taken(x) == Registers(r) /\ x = "b" /\ rec'[x].root = <<"init", "x">> /\ rec["b"] = None
    <3>1. \A x \in {t, u} : Kept(x) \/ Carried(x) \/ Made(x) \/ Taken(x)
      BY <1>2, <2>3, RootFrom
    <3>2. \A x, y \in {t, u} : x # y /\ Kept(x) /\ Kept(y) => rec'[x].root # rec'[y].root
      BY DEF PointersSound
    <3>3. \A x, y \in {t, u} : x # y /\ Kept(x) /\ Carried(y) => rec'[x].root # rec'[y].root
      BY <2>3 DEF PointersSound
    <3>4. \A x, y \in {t, u} : x # y => ~(Carried(x) /\ Carried(y))
      BY Shape
    <3>5. \A x, y \in {t, u} : Kept(x) \/ Carried(x) => ~(Made(y) /\ rec'[x].root = rec'[y].root)
      <4>1. Id(r) # "init"
        BY IdType
      <4>2. \A y : <<Id(r), y>>[1] = Id(r)
        OBVIOUS
      <4> QED
        BY <4>1, <4>2 DEF Rooted
    <3>6. \A x, y \in {t, u} : x # y => ~(Made(x) /\ Made(y))
      BY Shape
    <3>7. \A x, y \in {t, u} : Kept(x) \/ Carried(x) => ~(Taken(y) /\ rec'[x].root = rec'[y].root)
      BY DEF Rooted
    <3>8. \A x, y \in {t, u} : x # y => ~(Taken(x) /\ Taken(y)) /\ ~(Taken(x) /\ Made(y))
      BY Shape DEF Publishes
    <3> HIDE DEF Kept, Carried, Made, Taken
    <3> QED
      BY <2>3, <3>1, <3>2, <3>3, <3>4, <3>5, <3>6, <3>7, <3>8
  <2> QED
    BY <2>1, <2>2, <2>3 DEF PointersSound
<1> QED
  BY <1>1, <1>2, Effects

-----------------------------------------------------------------------------
(* Answers. *)

(* How a call ends, or waits for a rival's result. *)
LEMMA Ends ==
    ASSUME IInv, [Next]_vars, NEW r \in Requests
    PROVE  /\ pc[r] \in Ended => pc'[r] = pc[r]
           /\ pc[r] = "commit" /\ Accepted(r) => pc'[r] \in {"commit", "ok", "failed"}
           /\ pc[r] = "replay" => pc'[r] \in {"replay", "failed", IF idem = ask[r] THEN "ok" ELSE "refused"}
           /\ pc'[r] = "ok" => \/ pc[r] = "ok"
                               \/ IsKeyed(r) /\ idem = ask[r]
                               \/ Submit(r) /\ Accepted(r)
           /\ pc'[r] = "refused" => pc[r] = "refused" \/ UNCHANGED groupVars
           /\ pc'[r] = "replay" => pc[r] = "replay" \/ IsKeyed(r)
<1> USE DEF IInv, Goto
<1>1. pc \in [Requests -> Everywhere]
  BY DEF TypeOK, Everywhere
<1>2. CASE LookUp(r)
  BY <1>1, <1>2 DEF LookUp, Ended
<1>3. CASE Read(r)
  BY <1>1, <1>3 DEF Read, Ended
<1>4. CASE Write(r) \/ LatePut(r)
  BY <1>1, <1>4 DEF Write, LatePut, Ended
<1>5. CASE Verify(r)
  BY <1>1, <1>5 DEF Verify, Ended
<1>6. CASE Submit(r)
  <2>1. pc[r] = "commit"
    BY <1>6 DEF Submit
  <2>2. CASE Accepted(r)
    <3>1. pc' = [pc EXCEPT ![r] = "ok"]
      BY <1>6, <2>2 DEF Submit
    <3> QED
      BY <1>1, <1>6, <2>1, <2>2, <3>1 DEF Ended
  <2>3. CASE ~Accepted(r)
    <3>1. UNCHANGED groupVars /\ pc' = [pc EXCEPT ![r] = IF IsKeyed(r) THEN "replay" ELSE "refused"]
      BY <1>6, <2>3 DEF Submit
    <3> QED
      BY <1>1, <2>1, <2>3, <3>1 DEF Ended
  <2> QED
    BY <2>2, <2>3
<1>7. CASE Replay(r)
  <2>1. /\ pc[r] = "replay" /\ pc'[r] = IF idem = ask[r] THEN "ok" ELSE "refused"
        /\ UNCHANGED groupVars
    BY <1>1, <1>7 DEF Replay
  <2>2. IsKeyed(r)
    BY <2>1 DEF Answers
  <2> QED
    BY <2>1, <2>2 DEF Ended
<1>8. CASE Fail(r)
  <2>1. InFlight(r) /\ pc'[r] \in {"failed", "hung"} /\ (pc'[r] = "hung" => pc[r] = "write")
    BY <1>1, <1>8 DEF Fail
  <2> QED
    BY <2>1 DEF InFlight, Ended
<1>9. CASE Lose(r)
  <2>1. pc[r] = "commit" /\ (pc' = pc \/ pc' = [pc EXCEPT ![r] = "failed"])
    BY <1>9 DEF Lose
  <2>2. pc'[r] \in {"commit", "failed"}
    BY <1>1, <2>1
  <2> QED
    BY <2>1, <2>2 DEF Ended
<1>10. CASE Late(r)
  <2>1. pc' = pc
    BY <1>10 DEF Late
  <2> QED
    BY <2>1
<1>11. ASSUME NEW k \in Pointers, Check(r, k)
      PROVE  /\ pc[r] = "publish" /\ pc'[r] \in {"write", "commit", "publish", "refused"}
             /\ UNCHANGED groupVars
  BY <1>1, <1>11 DEF Check
<1>12. CASE ~StepOf(r)
  BY <1>12, Others
<1> QED
  BY <1>2, <1>3, <1>4, <1>5, <1>6, <1>7, <1>8, <1>9, <1>10, <1>11, <1>12 DEF StepOf, Ended

LEMMA AnswersStep ==
    ASSUME IInv, [Next]_vars
    PROVE  Answers'
<1> USE DEF IInv
<1>0. /\ ask' = ask /\ Key \in Ids
      /\ \A r \in Requests : /\ Id(r) \in Ids /\ Id(r)' = Id(r) /\ Alone(r)' = Alone(r)
                             /\ IsKeyed(r)' = IsKeyed(r) /\ ask[r] # None
                             /\ IsKeyed(r) <=> Id(r) = Key
  BY Others, Frame, IdType, CatalogAssumption DEF Ids, TypeOK, IsKeyed, Id
<1>1. ASSUME idem' # None
      PROVE  retries'[Key] # None /\ retries'[Key][1] = idem'
  <2>1. CASE UNCHANGED groupVars
    BY <1>1, <2>1 DEF groupVars, Answers
  <2>2. ASSUME NEW r \in Requests, Applies(r)
        PROVE  retries'[Key] # None /\ retries'[Key][1] = idem'
    <3>1. CASE ~IsKeyed(r)
      <4>1. idem' = idem /\ retries'[Key] = retries[Key]
        BY <1>0, <2>2, <3>1, Applied
      <4> QED
        BY <1>1, <4>1 DEF Answers
    <3>2. CASE IsKeyed(r)
      <4>1. retries'[Key] = Batch(r) /\ idem' = ask[r] /\ Holding(r)
        BY <1>0, <2>2, <3>2, Applied
      <4> QED
        BY <4>1, BatchType DEF Batch
    <3> QED
      BY <3>1, <3>2
  <2> QED
    BY <2>1, <2>2, Effects
<1>2. ASSUME NEW r \in Requests, Alone(r), retries'[Id(r)] # None
      PROVE  /\ pc'[r] \in Ended \cup {"commit", "replay"}
             /\ pc'[r] = "commit" => retries'[Id(r)] = Batch(r)'
             /\ pc'[r] = "replay" => idem' = ask[r]
  <2>1. CASE retries[Id(r)] # None
    <3>1. /\ pc[r] \in Ended \cup {"commit", "replay"}
          /\ pc[r] = "commit" => retries[Id(r)] = Batch(r)
          /\ pc[r] = "replay" => idem = ask[r]
      BY <1>2, <2>1 DEF Answers
    <3>2. retries'[Id(r)] = retries[Id(r)]
      BY <1>0, <2>1, Remembered
    <3>3. CASE pc[r] = "commit"
      <4>1. pc'[r] \in {"commit", "ok", "failed"}
        BY <3>1, <3>3, Ends DEF Accepted
      <4>2. pc'[r] = "commit" => Batch(r)' = Batch(r)
        <5>1. ~Found(r)
          BY <3>3 DEF Found
        <5> QED
          BY <1>0, <5>1, HoldingFrom, Frame DEF Placed, Holding
      <4> QED
        BY <3>1, <3>2, <3>3, <4>1, <4>2 DEF Ended
    <3>4. CASE pc[r] = "replay"
      <4>1. idem' = idem
        <5>1. ASSUME NEW q \in Requests, Applies(q) PROVE idem' = idem
          BY <1>0, <3>1, <3>4, <5>1, Applied
        <5> QED
          BY <5>1, Effects DEF groupVars
      <4>2. pc'[r] \in {"replay", "failed", "ok"}
        BY <3>1, <3>4, Ends
      <4> QED
        BY <3>1, <3>4, <4>1, <4>2 DEF Ended
    <3>5. CASE pc[r] \in Ended
      <4>1. pc'[r] = pc[r]
        BY <3>5, Ends
      <4> QED
        BY <3>5, <4>1 DEF Ended
    <3> QED
      BY <3>1, <3>3, <3>4, <3>5
  <2>2. CASE retries[Id(r)] = None
    <3>1. PICK q \in Requests : Applies(q)
      BY <1>2, <2>2, Effects DEF groupVars
    <3>2. q = r
      <4>1. Id(q) = Id(r)
        BY <1>0, <1>2, <2>2, <3>1, Applied
      <4> QED
        BY <1>2, <4>1 DEF Alone
    <3>3. /\ retries'[Id(r)] = Batch(r) /\ expect'[r] = expect[r]
          /\ IsKeyed(r) => idem' = ask[r]
      BY <3>1, <3>2, Applied
    <3>4. Batch(r)' = Batch(r)
      BY <1>0, <3>3, Frame
    <3>5. CASE Submit(r)
      <4>1. pc[r] = "commit" /\ Accepted(r)
        BY <3>1, <3>2, <3>5 DEF Applies, Submit, Accepted
      <4>2. pc'[r] \in {"commit", "ok", "failed"}
        BY <4>1, Ends
      <4> QED
        BY <3>3, <3>4, <4>2 DEF Ended
    <3>6. CASE Late(r)
      <4>1. pc'[r] = pc[r] /\ pc[r] \in Ended \cup {"commit", "replay"}
        BY <3>6 DEF Late, Bodies
      <4>2. pc[r] = "replay" => IsKeyed(r)
        BY DEF Answers
      <4> QED
        BY <3>3, <3>4, <4>1, <4>2
    <3> QED
      BY <3>1, <3>2, <3>5, <3>6 DEF Applies
  <2> QED
    BY <2>1, <2>2
<1>3. ASSUME NEW r \in Requests, pc'[r] = "replay" PROVE IsKeyed(r)
  BY <1>3, Ends DEF Answers
<1> QED
  BY <1>0, <1>1, <1>2, <1>3 DEF Answers

(* What a call is told by a step. *)
LEMMA AnswersStepTrue ==
    ASSUME IInv, [Next]_vars, NEW r \in Requests, pc'[r] # pc[r]
    PROVE  /\ pc'[r] = "ok" => retries'[Id(r)] # None /\ retries'[Id(r)][1] = ask[r]
           /\ pc'[r] = "refused" /\ Alone(r) => retries'[Id(r)] = None
<1> USE DEF IInv
<1>0. Id(r) \in Ids /\ ask[r] # None /\ (IsKeyed(r) => Id(r) = Key)
  BY IdType, CatalogAssumption DEF TypeOK, IsKeyed, Id
<1>1. ASSUME pc'[r] = "ok"
      PROVE  retries'[Id(r)] # None /\ retries'[Id(r)][1] = ask[r]
  <2>1. CASE IsKeyed(r) /\ idem = ask[r]
    <3>1. retries[Id(r)] # None /\ retries[Id(r)][1] = ask[r]
      BY <1>0, <2>1 DEF Answers
    <3> QED
      BY <1>0, <3>1, Remembered
  <2>2. CASE Submit(r) /\ Accepted(r)
    <3>1. Batch(r) # None /\ Batch(r)[1] = ask[r]
      BY <2>2, BatchType DEF Submit, Batch, Placed, Holding
    <3>2. CASE retries[Id(r)] = None
      <4>1. Applies(r)
        BY <2>2, <3>1, <3>2 DEF Submit, Accepted, Applies
      <4> QED
        BY <3>1, <4>1, Applied
    <3>3. CASE retries[Id(r)] # None
      <4>1. retries[Id(r)] = Batch(r)
        BY <2>2, <3>3 DEF Accepted
      <4> QED
        BY <1>0, <3>1, <3>3, <4>1, Remembered
    <3> QED
      BY <3>2, <3>3
  <2> QED
    BY <1>1, <2>1, <2>2, Ends
<1>2. ASSUME pc'[r] = "refused", Alone(r), retries'[Id(r)] # None
      PROVE  FALSE
  <2>1. retries[Id(r)] # None /\ pc[r] # "refused"
    BY <1>2, Ends DEF groupVars
  <2>2. /\ pc[r] \in Ended \cup {"commit", "replay"}
        /\ pc[r] = "commit" => retries[Id(r)] = Batch(r)
        /\ pc[r] = "replay" => idem = ask[r]
    BY <1>2, <2>1 DEF Answers
  <2> QED
    BY <1>2, <2>1, <2>2, Ends DEF Accepted
<1> QED
  BY <1>1, <1>2

-----------------------------------------------------------------------------
(* Objects and history, where calls under one id do not overlap. *)

(* What is there below such an id stays as it is, and a handler's path      *)
(* stays free until its own PUT.                                            *)
LEMMA Unaltered ==
    ASSUME IInv, [Next]_vars
    PROVE  /\ \A p \in Paths : p[2] \notin overlapped /\ objects[p] # None => objects'[p] = objects[p]
           /\ \A r \in Requests : pc[r] \in {"write", "hung"} /\ Id(r) \notin overlapped /\ ~Writes(r) =>
                \A k \in ask[r].on : objects'[Path(r, k)] = objects[Path(r, k)]
<1> USE DEF IInv
<1>1. ASSUME NEW q \in Requests, Writes(q)
      PROVE  /\ pc[q] \in {"write", "hung"}
             /\ Id(q) \notin overlapped => objects[Path(q, Latest(q))] = None
             /\ \A p \in Paths : p[2] # Id(q) => objects'[p] = objects[p]
             /\ \A p \in Paths : p # Path(q, Latest(q)) => objects'[p] = objects[p]
             /\ Path(q, Latest(q))[2] = Id(q)
  <2>1. /\ pc[q] \in {"write", "hung"} /\ Latest(q) \in DOMAIN body[q] /\ Path(q, Latest(q))[2] = Id(q)
        /\ \A p \in Paths : p # Path(q, Latest(q)) => objects'[p] = objects[p]
    BY <1>1, WriteEffect
  <2>2. Holding(q) /\ Pending(q, Latest(q))
    BY <2>1 DEF Holding, Placed, Pending
  <2>3. Id(q) \notin overlapped => objects[Path(q, Latest(q))] = None
    BY <2>1, <2>2 DEF Exact
  <2> QED
    BY <2>1, <2>3
<1>2. \A p \in Paths : p[2] \notin overlapped /\ objects[p] # None => objects'[p] = objects[p]
  BY <1>1, Effects
<1>3. ASSUME NEW r \in Requests, pc[r] \in {"write", "hung"}, Id(r) \notin overlapped, ~Writes(r),
             NEW k \in ask[r].on
      PROVE  objects'[Path(r, k)] = objects[Path(r, k)]
  <2>1. Path(r, k) \in Paths /\ Path(r, k)[2] = Id(r)
    BY <1>3, Held DEF Bodies, Holding, Placed
  <2>2. ASSUME NEW q \in Requests, Writes(q)
        PROVE  objects'[Path(r, k)] = objects[Path(r, k)]
    <3>1. q # r /\ InFlight(q) /\ InFlight(r)
      BY <1>1, <1>3, <2>2 DEF InFlight, Ended
    <3>2. Id(q) # Id(r)
      BY <1>3, <3>1 DEF Exact
    <3> QED
      BY <1>1, <2>1, <2>2, <3>2
  <2> QED
    BY <2>2, Effects
<1> QED
  BY <1>2, <1>3

LEMMA ExactStep ==
    ASSUME IInv, [Next]_vars
    PROVE  Exact'
<1> USE DEF IInv
<1>0. ask' = ask /\ overlapped \subseteq overlapped' /\ \A r \in Requests : Id(r)' = Id(r)
  BY Others, Frame
<1>1. ASSUME NEW r \in Requests, NEW q \in Requests, r # q, Id(r) = Id(q), Id(r) \notin overlapped',
             InFlight(r)', InFlight(q)'
      PROVE  FALSE
  <2>1. \A x \in Requests : InFlight(x)' => InFlight(x) \/ LookUp(x)
    BY Moves, Ends DEF InFlight, Found, Checked, Moved, Ended
  <2>2. ASSUME NEW x \in Requests, NEW y \in Requests, x # y, LookUp(x), InFlight(y)', Id(y) = Id(x)
        PROVE  Id(x) \in overlapped'
    <3>1. pc'[y] = pc[y]
      BY <2>2 DEF LookUp, Goto, TypeOK
    <3>2. InFlight(y)
      BY <2>2, <3>1 DEF InFlight
    <3> QED
      BY <2>2, <3>2 DEF LookUp
  <2>3. ~(InFlight(r) /\ InFlight(q))
    BY <1>0, <1>1 DEF Exact
  <2> QED
    BY <1>1, <2>1, <2>2, <2>3
<1> DEFINE Quarrel(x) == \E i \in overlapped' : objects'[<<x, i>>] # None
<1>2. ASSUME NEW r \in Requests, Holding(r)', Id(r) \notin overlapped', NEW k \in DOMAIN body'[r]
      PROVE  /\ IF pc'[r] \in {"write", "hung"} /\ k = Latest(r)' THEN objects'[Path(r, k)'] = None
                ELSE objects'[Path(r, k)'] = body'[r][k]
             /\ ~Quarrel(Root(r, k)') => body'[r][k] = Built(r, k)'
  <2>0. ~Found(r)
    BY <1>2 DEF Found, Bodies
  <2>1. Holding(r) /\ expect'[r] = expect[r]
    BY <1>2, <2>0, HoldingFrom
  <2>2. /\ \A j : Path(r, j)' = Path(r, j) /\ Root(r, j)' = Root(r, j)
        /\ Updates(r)' = Updates(r) /\ ask'[r].input = ask[r].input
    BY <1>0, <2>1, Frame
  <2>3. \A j \in DOMAIN body[r] :
          /\ IF pc[r] \in {"write", "hung"} /\ j = Latest(r) THEN objects[Path(r, j)] = None
             ELSE objects[Path(r, j)] = body[r][j]
          /\ ~Contested(Root(r, j)) => body[r][j] = Built(r, j)
    BY <1>0, <1>2, <2>1 DEF Exact, Pending
  <2>4. ASSUME Publishes(r), NEW j \in ask[r].on, ~Quarrel(Root(r, j))
        PROVE  Built(r, j)' = Built(r, j) /\ ~Contested(Root(r, j))
    <3>0. ~Contested(Root(r, j))
      <4> DEFINE x == Root(r, j)
      <4>1. x \in Roots
        BY <2>1, <2>4, Held
      <4> HIDE DEF x
      <4>2. Contested(x) => Quarrel(x)
        BY <4>1, ContestStays DEF Contested
      <4> QED
        BY <2>4, <4>2 DEF x
    <3>1. CASE Updates(r)
      <4>1. /\ expect[r][j] \in Pointer /\ objects[expect[r][j].at] \in Seq(Inputs)
            /\ Root(r, j) = expect[r][j].root
        BY <2>1, <2>4, <3>1, Held DEF Root
      <4>2. /\ expect[r][j].at \in Paths /\ expect[r][j].at[2] \in Ids
            /\ expect[r][j].at = <<Root(r, j), expect[r][j].at[2]>>
        BY <4>1, PathParts
      <4>3. objects[expect[r][j].at] # None
        BY <4>1, CatalogAssumption
      <4>4. objects'[expect[r][j].at] # None
        BY <4>2, <4>3, ObjectsStay
      <4>5. expect[r][j].at[2] \notin overlapped'
        BY <2>4, <4>2, <4>4
      <4>6. objects'[expect[r][j].at] = objects[expect[r][j].at]
        BY <1>0, <4>2, <4>3, <4>5, Unaltered
      <4> QED
        BY <2>1, <2>2, <3>0, <3>1, <4>6 DEF Built
    <3>2. CASE ~Updates(r)
      BY <2>2, <3>0, <3>2 DEF Built
    <3> QED
      BY <3>1, <3>2
  <2>5. /\ DOMAIN body[r] \subseteq ask[r].on /\ (DOMAIN body[r] # {} => Publishes(r))
        /\ \A j \in DOMAIN body[r] : body[r][j] # None
    BY CatalogAssumption DEF TypeOK, Bodies
  <2>6. ASSUME NEW c \in ask[r].on, Checked(r, c)
        PROVE  /\ IF pc'[r] \in {"write", "hung"} /\ k = Latest(r)' THEN objects'[Path(r, k)'] = None
                  ELSE objects'[Path(r, k)'] = body'[r][k]
               /\ ~Quarrel(Root(r, k)') => body'[r][k] = Built(r, k)'
    <3>1. /\ pc[r] = "publish" /\ objects' = objects /\ c \in Pointers
          /\ Check(r, c) /\ body'[r] = With(r, c)
      BY <2>6 DEF Checked
    <3>2. Latest(r)' = c /\ DOMAIN body'[r] = DOMAIN body[r] \cup {c} /\ c \notin DOMAIN body[r]
      BY <3>1, LatestNew DEF Check, Unpublished
    <3>3. /\ body'[r][c] = Built(r, c)
          /\ \A j \in DOMAIN body[r] : body'[r][j] = body[r][j]
      BY <3>1, <3>2 DEF With
    <3>4. \/ pc'[r] = "write" /\ objects[Path(r, c)] = None
          \/ pc'[r] \notin {"write", "hung"} /\ objects[Path(r, c)] = Built(r, c)
      BY <2>6 DEF Checked
    <3>5. Publishes(r)
      BY <3>1 DEF Bodies
    <3>6. CASE k = c
      <4>1. ~Quarrel(Root(r, k)') => body'[r][k] = Built(r, k)'
        BY <2>2, <2>4, <2>6, <3>3, <3>5, <3>6
      <4>2. IF pc'[r] \in {"write", "hung"} THEN objects'[Path(r, k)'] = None
            ELSE objects'[Path(r, k)'] = body'[r][k]
        BY <2>2, <3>1, <3>3, <3>4, <3>6
      <4> QED
        BY <3>2, <3>6, <4>1, <4>2
    <3>7. CASE k \in DOMAIN body[r]
      <4>1. ~Quarrel(Root(r, k)') => body'[r][k] = Built(r, k)'
        BY <2>2, <2>3, <2>4, <2>5, <3>3, <3>5, <3>7
      <4>2. objects'[Path(r, k)'] = body'[r][k]
        BY <2>2, <2>3, <3>1, <3>3, <3>7
      <4> QED
        BY <3>2, <3>7, <4>1, <4>2
    <3> QED
      BY <1>2, <3>2, <3>6, <3>7
  <2>7. CASE Moved(r)
    <3>1. body'[r] = body[r] /\ Latest(r)' = Latest(r) /\ k \in DOMAIN body[r]
      BY <1>0, <1>2, <2>7, Frame DEF Moved
    <3>2. Publishes(r) /\ k \in ask[r].on /\ Path(r, k) \in Paths /\ Path(r, k)[2] = Id(r)
      BY <2>1, <2>5, <3>1, Held
    <3>3. ~Quarrel(Root(r, k)') => body'[r][k] = Built(r, k)'
      BY <2>2, <2>3, <2>4, <3>1, <3>2
    <3>4. Id(r) \notin overlapped
      BY <1>0, <1>2
    <3>5. r \in stray' => pc[r] \notin {"write", "hung"}
      BY <2>7 DEF Moved, Bodies, Ended
    <3>6. CASE ~Writes(r)
      <4>1. pc'[r] \in {"write", "hung"} <=> pc[r] \in {"write", "hung"}
        BY <1>2, <2>7, <3>5, <3>6 DEF Moved, Holding, Placed, Ended, Writes
      <4>2. objects'[Path(r, k)] = objects[Path(r, k)]
        <5>1. CASE pc[r] \in {"write", "hung"} /\ k = Latest(r)
          BY <3>2, <3>4, <3>6, <5>1, Unaltered
        <5>2. CASE ~(pc[r] \in {"write", "hung"} /\ k = Latest(r))
          <6>1. objects[Path(r, k)] # None
            BY <2>3, <2>5, <3>1, <5>2
          <6> QED
            BY <3>2, <3>4, <6>1, Unaltered
        <5> QED
          BY <5>1, <5>2
      <4> QED
        BY <2>2, <2>3, <3>1, <3>3, <4>1, <4>2
    <3>7. CASE Writes(r)
      <4>1. /\ pc[r] \in {"write", "hung"} /\ Latest(r) \in ask[r].on
            /\ objects'[Path(r, Latest(r))] = body[r][Latest(r)]
            /\ \A p \in Paths : p # Path(r, Latest(r)) => objects'[p] = objects[p]
        BY <3>7, WriteEffect
      <4>2. pc'[r] \in {"verify", "failed"}
        BY <3>7 DEF Writes, Write, LatePut, Goto, TypeOK
      <4>3. ASSUME k # Latest(r)
            PROVE  objects'[Path(r, k)] = objects[Path(r, k)]
        <5>1. Updates(r)
          BY <3>2, <4>1, <4>3, Shape DEF Publishes
        <5>2. expect[r][k].root # expect[r][Latest(r)].root
          BY <2>1, <3>2, <4>1, <4>3, <5>1, Shape, Held DEF Readings
        <5>3. Path(r, k) # Path(r, Latest(r))
          BY <5>1, <5>2 DEF Path, Root
        <5> QED
          BY <3>2, <4>1, <5>3
      <4> QED
        BY <2>2, <2>3, <3>1, <3>3, <4>1, <4>2, <4>3
    <3> QED
      BY <3>6, <3>7
  <2> QED
    BY <2>0, <2>6, <2>7, Moves
<1> QED
  BY <1>0, <1>1, <1>2 DEF Exact, Pending, Contested

LEMMA HistoryStep ==
    ASSUME IInv, [Next]_vars
    PROVE  MetadataIsHistory'
<1> USE DEF IInv
<1> DEFINE Quarrel(x) == \E i \in overlapped' : objects'[<<x, i>>] # None
<1> SUFFICES ASSUME NEW t \in Pointers, rec'[t] # None, ~Quarrel(rec'[t].root)
             PROVE  objects'[rec'[t].at] = history'[rec'[t].root]
  BY DEF MetadataIsHistory, Contested
<1>0. \A x \in Roots : Contested(x) => Quarrel(x)
  <2> SUFFICES ASSUME NEW x \in Roots, Contested(x) PROVE Quarrel(x)
    OBVIOUS
  <2> QED
    BY ContestStays DEF Contested
<1>1. \A u \in Pointers : rec[u] # None =>
        /\ rec[u].at \in Paths /\ rec[u].root \in Roots /\ rec[u].at = <<rec[u].root, rec[u].at[2]>>
        /\ objects[rec[u].at] # None
        /\ ~Quarrel(rec[u].root) => objects[rec[u].at] = history[rec[u].root]
  <2>1. \A u \in Pointers : u \in Records /\ Document(u) = Pointer
    BY DEF Pointers, Tables, Views, Records, Document
  <2>2. \A u \in Pointers : rec[u] # None => rec[u] \in Pointer
    BY <2>1 DEF TypeOK
  <2> HIDE DEF Quarrel
  <2> QED
    BY <1>0, <2>2, PathParts DEF PointersSound, MetadataIsHistory
<1>2. CASE UNCHANGED groupVars
  <2>1. rec' = rec /\ history' = history
    BY <1>2 DEF groupVars
  <2>2. objects'[rec[t].at] # None
    BY <1>1, <2>1, ObjectsStay
  <2>3. rec[t].at[2] \notin overlapped'
    BY <1>1, <2>1, <2>2
  <2>4. rec[t].at[2] \notin overlapped
    BY <2>3, Others
  <2> QED
    BY <1>1, <2>1, <2>4, Unaltered
<1>3. ASSUME NEW r \in Requests, Applies(r)
      PROVE  objects'[rec'[t].at] = history'[rec'[t].root]
  <2>1. /\ objects' = objects /\ overlapped' = overlapped /\ Ready(r) /\ Holding(r)
        /\ \A x : Quarrel(x) <=> Contested(x)
    BY <1>3, Applied DEF Contested
  <2>2. \A k \in ask[r].on : rec[k] = expect[r][k]
    BY <1>3, Applied
  <2>3. Updates(r) => \A k \in ask[r].on : k \in Pointers /\ rec[k] # None
    BY <2>1, <2>2, Held, CatalogAssumption DEF Publishes
  <2>4. ASSUME Publishes(r), t \in ask[r].on, ~Contested(Root(r, t))
        PROVE  objects[Path(r, t)] = Built(r, t)
    <3>1. t \in DOMAIN body[r] /\ ~Pending(r, t)
      BY <2>1, <2>4 DEF Bodies, Ready, Pending, Ended
    <3>2. objects[Path(r, t)] # None /\ Path(r, t) = <<Root(r, t), Id(r)>>
      BY <2>1, <3>1 DEF Bodies, Path
    <3>3. Id(r) \notin overlapped
      BY <2>4, <3>2 DEF Contested
    <3> QED
      BY <2>1, <2>4, <3>1, <3>3 DEF Exact
  <2> HIDE DEF Quarrel
  <2>5. CASE t \notin ask[r].on /\ rec'[t] = rec[t]
    <3>1. history'[rec[t].root] = history[rec[t].root]
      <4>1. CASE ~Updates(r)
        BY <1>3, <4>1, Applied
      <4>2. CASE Updates(r)
        <5>1. \A k \in ask[r].on : expect[r][k].root # rec[t].root
          BY <2>2, <2>3, <2>5, <4>2 DEF PointersSound
        <5>2. rec[t].root \in Roots
          BY <1>1, <2>5
        <5> QED
          BY <1>3, <4>2, <5>1, <5>2, Applied
      <4> QED
        BY <4>1, <4>2
    <3> QED
      BY <1>1, <2>1, <2>5, <3>1
  <2>6. CASE /\ Updates(r) /\ t \in ask[r].on
             /\ rec'[t].root = rec[t].root /\ rec'[t].at = Path(r, t)
    <3>0. Root(r, t) = rec[t].root /\ expect[r][t] = rec[t]
      BY <2>2, <2>6 DEF Root
    <3>1. objects[Path(r, t)] = Append(objects[rec[t].at], ask[r].input)
      BY <2>1, <2>4, <2>6, <3>0 DEF Built, Publishes
    <3>2. objects[rec[t].at] = history[rec[t].root]
      BY <1>1, <2>3, <2>6
    <3>3. history'[rec[t].root] = Append(history[rec[t].root], ask[r].input)
      BY <1>1, <1>3, <2>2, <2>3, <2>6, Applied
    <3> QED
      BY <2>1, <2>6, <3>1, <3>2, <3>3
  <2>7. CASE /\ Creates(r) /\ t \in ask[r].on
             /\ rec'[t].root = <<Id(r), t>> /\ rec'[t].at = Path(r, t)
    <3>1. ~Updates(r) /\ history' = history /\ Publishes(r)
      BY <1>3, <2>7, Shape, Applied DEF Publishes
    <3>2. Root(r, t) = <<Id(r), t>> /\ Root(r, t) \in Roots
      BY <2>1, <2>7, <3>1, Held DEF Root
    <3>3. objects[Path(r, t)] = <<>>
      BY <2>1, <2>4, <2>7, <3>1, <3>2 DEF Built
    <3>4. history[<<Id(r), t>>] = <<>>
      <4>1. <<Id(r), t>>[1] = Id(r) /\ Id(r) # "init" /\ retries[Id(r)] = None
        BY <1>3, IdType DEF Applies
      <4> QED
        BY <3>2, <4>1 DEF Rooted
    <3> QED
      BY <2>1, <2>7, <3>1, <3>3, <3>4
  <2>8. CASE /\ Registers(r) /\ t = "b" /\ rec[t] = None
             /\ rec'[t].root = <<"init", "x">> /\ rec'[t].at = <<<<"init", "x">>, "init">>
    <3>1. history' = history
      BY <1>3, <2>8, Shape, Applied DEF Publishes
    <3> QED
      BY <2>1, <2>8, <3>1 DEF Rooted
  <2>9. CASE Renames(r) /\ Source(r) \in Pointers /\ rec[Source(r)] \in Pointer /\ rec'[t] = rec[Source(r)]
    <3>1. history' = history /\ rec[Source(r)] # None
      BY <1>3, <2>9, Shape, Applied, CatalogAssumption DEF Publishes
    <3> QED
      BY <1>1, <2>1, <2>9, <3>1
  <2> QED
    BY <1>3, <2>5, <2>6, <2>7, <2>8, <2>9, Named
<1> QED
  BY <1>2, <1>3, Effects

-----------------------------------------------------------------------------
(* The invariant, and what the catalog promises. *)

LEMMA NextIInv == IInv /\ [Next]_vars => IInv'
<1> SUFFICES ASSUME IInv, [Next]_vars PROVE IInv'
  OBVIOUS
<1>1. TypeOK'
  BY TypeStep DEF IInv
<1>2. Readings' /\ Bodies' /\ Rooted' /\ PointersSound'
  BY ReadingsStep, BodiesStep, RootedStep, PointersStep
<1>3. Answers' /\ Exact' /\ MetadataIsHistory'
  BY AnswersStep, ExactStep, HistoryStep
<1> QED
  BY <1>1, <1>2, <1>3 DEF IInv

(* Every step of every handler of hosted.rs, and every batch the group      *)
(* applies, keeps the documents, the objects and the request records        *)
(* consistent, for any calls on the module's tables and views and any       *)
(* sharing of request ids and of the key.                                   *)
THEOREM Invariance == Spec => []IInv
BY InitIInv, NextIInv, PTL DEF Spec

(* The handlers' state and the group's records keep their types. *)
THEOREM TypeCorrectness == Spec => []TypeOK
<1>1. IInv => TypeOK
  BY DEF IInv
<1> QED
  BY <1>1, Invariance, PTL

(* The optimistic commits of commit_table, commit_transaction and           *)
(* commit_view lose no update and apply none twice: the metadata a pointer  *)
(* names is the history of its table, for any number of concurrent calls,   *)
(* unless calls that share an idempotency key or an x-request-id were in    *)
(* flight together and wrote below that table.                              *)
THEOREM NoLostUpdate == Spec => []MetadataIsHistory
<1>1. IInv => MetadataIsHistory
  BY DEF IInv
<1> QED
  BY <1>1, Invariance, PTL

(* No pointer dangles and no two names stand for one table, whatever        *)
(* create, register, rename, drop and commit interleave.                    *)
THEOREM PointersAreSound == Spec => []PointersSound
<1>1. IInv => PointersSound
  BY DEF IInv
<1> QED
  BY <1>1, Invariance, PTL

(* A call is told of success only after a batch of its operation and input  *)
(* was applied under its id, and the refusal of a call that shares its id   *)
(* with none is true when it is given, through lost attempts, batches sent  *)
(* again and replays (idempotency.rs).                                      *)
THEOREM AnswersAreTrue == Spec => AnswersTrue
<1> DEFINE Told == \A r \in Requests : pc'[r] # pc[r] =>
                     /\ pc'[r] = "ok" => retries'[Id(r)] # None /\ retries'[Id(r)][1] = ask[r]
                     /\ pc'[r] = "refused" /\ Alone(r) => retries'[Id(r)] = None
<1>1. IInv /\ [Next]_vars => [Told]_vars
  BY AnswersStepTrue
<1> QED
  BY <1>1, Invariance, PTL DEF Spec, AnswersTrue
=============================================================================

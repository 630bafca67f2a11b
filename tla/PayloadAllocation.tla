--------------------------- MODULE PayloadAllocation ---------------------------
(***************************************************************************)
(* Where the bodies of one consensus group live: the coded or complete     *)
(* representations that DistributedPayloadStore stages on the voters, the  *)
(* certificate the header commits, sealing, reconstruction, the repair     *)
(* that moves every listed body when ConsensusPlane::replace_voter changes *)
(* a voter, and release after a checkpoint                                 *)
(* (crates/verglas-consensus/src/payload.rs, raft.rs, group.rs,            *)
(* bins/cache-node/src/consensus.rs, safekeeper.rs).                       *)
(*                                                                         *)
(* A body is one staged command, a file is one node's representation of it *)
(* under one configuration generation; a later store to the same node and  *)
(* generation replaces it, whatever its mode.  Appends run while a voter is *)
(* being replaced, a leader stages for the voters its own payload store    *)
(* knows, a WAL append falls back to complete copies, and a store whose    *)
(* answer was given up may still land at any later time.                   *)
(*                                                                         *)
(* Raft (external) is an elected leader, the committed memberships and     *)
(* commits that need a quorum.  A command is committed here at the point   *)
(* of the log where it was proposed, or never.  A handler ends when its    *)
(* node loses the leadership, since its next proposal is refused: one that *)
(* is still running when its node leads again is not followed.  Nodes stop *)
(* and return with their disks; a stopped node answers no call.            *)
(***************************************************************************)
EXTENDS Naturals, FiniteSets

CONSTANTS
    Nodes,          \* every cache node that can ever be a voter
    FirstVoters,    \* the voters the group is bootstrapped with
    Bodies,         \* staged commands
    WalBodies,      \* the WAL appends among them, staged coded first
    K,              \* data fragments needed to decode
    Stride,         \* bound: generations between two memberships
    MaxReplaced,    \* bound: voter replacements
    MaxFaults       \* bound: what goes wrong, see Fault

N      == Cardinality(FirstVoters)      \* k + m
Quorum == N \div 2 + 1                  \* election_quorum

\* DistributedPayloadStore::new asks for k >= 1 and m >= 1 only.
ASSUME GeometryAssumption ==
    /\ IsFiniteSet(Nodes)
    /\ FirstVoters \subseteq Nodes
    /\ WalBodies \subseteq Bodies
    /\ K \in Nat /\ 0 < K /\ K < N

ASSUME BoundAssumption == Stride \in Nat /\ 0 < Stride /\ {MaxReplaced, MaxFaults} \subseteq Nat

Modes == {"Coded", "Complete"}

\* Mutant: the voters that may be missing are not counted.
RequiredToDecode(mode) == IF mode = "Coded" THEN K ELSE Quorum

\* PayloadCertificate::with_voters: the durable holders a certificate needs.
Required(mode)  == IF mode = "Coded" THEN (N - Quorum) + K ELSE Quorum

\* reconstruct and seal: the representations a body is rebuilt from.
Threshold(mode) == IF mode = "Coded" THEN K ELSE 1

\* The generation of a membership is the index of its log entry, so memberships
\* are further apart than the repairs made between them.
Gens == 1 .. (MaxReplaced + 1) * Stride

\* Mutant: the generation after the membership that was committed.
ConfigAhead(r) == (r + 1) * Stride + 1

Config(r) == r * Stride + 1

\* The allocation a header commits, or a Repair command replaces.
Allocation == [gen : Gens, mode : Modes, voters : SUBSET Nodes, holders : SUBSET Nodes]

\* One call under way: stage collects durable holders, client_write commits.
Attempt == [phase : {"idle", "staging", "certified", "applied"}, gen : Gens,
            mode : Modes, voters : SUBSET Nodes, durable : SUBSET Nodes]

\* One representation handed to the transport.
Representation == [gen : Gens, mode : Modes, voters : SUBSET Nodes, to : Nodes]

\* A node's file: its mode, or none.  The log identity that seal writes into it
\* decides only when release accepts it, which is left open here.
File == Modes \cup {"None"}

\* What repair_committed is doing with a body: storing on the target voters, or
\* sealing them once the Repair command is committed.
Repair == [phase : {"idle", "storing", "sealing"}, stored : SUBSET Nodes]

VARIABLES
    members,        \* r -> the voters committed by the r-th replacement
    replaced,       \* replacements committed
    leader,         \* the elected leader
    view,           \* node -> its payload store's voters and generation
    up,             \* nodes that answer
    disk,           \* body -> generation -> node -> its file
    sent,           \* body -> every representation handed to the transport
    status,         \* body -> where its header is in its life
    header,         \* body -> the allocation its header committed
    alloc,          \* body -> its current allocation: header or last Repair
    attempt,        \* body -> the call under way
    target,         \* the voters of a replacement under way, or {}
    todo,           \* the bodies repair_committed still has to move
    repair,         \* body -> what the replacement is doing with it
    halted,         \* apply met a Repair of an unknown header: Raft has stopped
    faults          \* retries, fallbacks, late stores, aborts, elections and stops

raftVars    == <<members, replaced, leader, view, up>>
bodyVars    == <<status, header, alloc>>
replaceVars == <<target, todo, repair>>
vars == <<raftVars, disk, sent, bodyVars, attempt, replaceVars, halted, faults>>

Statuses == {"new", "committed", "releasing", "released"}

TypeOK ==
    /\ members \in [0 .. MaxReplaced -> SUBSET Nodes]
    /\ replaced \in 0 .. MaxReplaced
    /\ leader \in Nodes
    /\ view \in [Nodes -> [voters : SUBSET Nodes, gen : Gens]]
    /\ up \subseteq Nodes
    /\ disk \in [Bodies -> [Gens -> [Nodes -> File]]]
    /\ sent \in [Bodies -> SUBSET Representation]
    /\ status \in [Bodies -> Statuses]
    /\ header \in [Bodies -> Allocation]
    /\ alloc \in [Bodies -> Allocation]
    /\ attempt \in [Bodies -> Attempt]
    /\ target \subseteq Nodes
    /\ todo \subseteq Bodies
    /\ repair \in [Bodies -> Repair]
    /\ halted \in BOOLEAN
    /\ faults \in 0 .. MaxFaults

NoAllocation == [gen |-> 1, mode |-> "Complete", voters |-> {}, holders |-> {}]
Idle == [phase |-> "idle", gen |-> 1, mode |-> "Complete", voters |-> {}, durable |-> {}]
NoRepair == [phase |-> "idle", stored |-> {}]

Init ==
    /\ members = [r \in 0 .. MaxReplaced |-> IF r = 0 THEN FirstVoters ELSE {}]
    /\ replaced = 0
    /\ leader \in FirstVoters
    /\ view = [n \in Nodes |-> [voters |-> FirstVoters, gen |-> 1]]
    /\ up = Nodes
    /\ disk = [b \in Bodies |-> [g \in Gens |-> [v \in Nodes |-> "None"]]]
    /\ sent = [b \in Bodies |-> {}]
    /\ status = [b \in Bodies |-> "new"]
    /\ header = [b \in Bodies |-> NoAllocation]
    /\ alloc = [b \in Bodies |-> NoAllocation]
    /\ attempt = [b \in Bodies |-> Idle]
    /\ target = {}
    /\ todo = {}
    /\ repair = [b \in Bodies |-> NoRepair]
    /\ halted = FALSE
    /\ faults = 0

voters == members[replaced]

Put(files, g, V, file) ==
    [files EXCEPT ![g] = [v \in Nodes |-> IF v \in V THEN file ELSE @[v]]]

\* The nodes of V that hold a representation of b under generation g.
Holding(b, g, V) == {v \in V : disk[b][g][v] # "None"}

\* What seal and reconstruct accept from the holders of a that answer: no
\* representation of another mode, and enough of them.
Uniform(b, a, V) == \A v \in Holding(b, a.gen, a.holders \cap V) : disk[b][a.gen][v] = a.mode

Reconstructs(b, a, V) ==
    /\ Uniform(b, a, V)
    /\ Cardinality(Holding(b, a.gen, a.holders \cap V)) >= Threshold(a.mode)

\* A step that only happens when something goes wrong.
Fault == faults < MaxFaults /\ faults' = faults + 1

Leads ==
    /\ ~halted
    /\ leader \in up \cap voters
    /\ Cardinality(up \cap voters) >= Quorum
-----------------------------------------------------------------------------
(* Committing a body: ConsensusGroup::commit_header on the leader. *)

\* The mode a call stages its command in first.
FirstMode(b) == IF b \in WalBodies THEN "Coded" ELSE "Complete"

\* stage fixes the voters of the leader's payload store and asks each of them,
\* together, to store its representation.
Stage(b, mode) ==
    LET s == view[leader]
    IN  /\ attempt' = [attempt EXCEPT ![b] =
                [phase |-> "staging", gen |-> s.gen, mode |-> mode,
                 voters |-> s.voters, durable |-> {}]]
        /\ sent' = [sent EXCEPT ![b] = @ \cup
                {[gen |-> s.gen, mode |-> mode, voters |-> s.voters, to |-> v] : v \in s.voters}]

StageStart(b) ==
    /\ Leads
    /\ attempt[b].phase = "idle"
    /\ Stage(b, FirstMode(b))
    /\ IF sent[b] = {} THEN UNCHANGED faults ELSE Fault
    /\ UNCHANGED <<raftVars, disk, bodyVars, replaceVars, halted>>

\* wal_request submits the append again with complete copies when coded staging
\* ends in InsufficientDurability, whether or not an earlier call committed it.
\* The second submission opens the group anew, which waits for a replacement.
FallBack(b) ==
    /\ Leads
    /\ attempt[b].phase = "staging" /\ attempt[b].mode = "Coded"
    /\ Cardinality(attempt[b].durable) < Required("Coded")
    /\ target = {}
    /\ Stage(b, "Complete")
    /\ Fault
    /\ UNCHANGED <<raftVars, disk, bodyVars, replaceVars, halted>>

\* A voter writes its file, replacing what is at that path, fsyncs it and
\* answers in time.
StageStore(b, v) ==
    LET a == attempt[b]
    IN  /\ a.phase = "staging"
        /\ v \in (a.voters \cap up) \ a.durable
        /\ disk' = [disk EXCEPT ![b] = Put(@, a.gen, {v}, a.mode)]
        /\ attempt' = [attempt EXCEPT ![b].durable = @ \cup {v}]
        /\ UNCHANGED <<raftVars, sent, bodyVars, replaceVars, halted, faults>>

\* A store that nobody waits for any more lands: after the certificate formed,
\* after the call gave up, or with its answer lost.
LateStore(b, r) ==
    /\ r \in sent[b] /\ r.to \in up
    /\ disk' = [disk EXCEPT ![b] = Put(@, r.gen, {r.to}, r.mode)]
    /\ Fault
    /\ UNCHANGED <<raftVars, sent, bodyVars, attempt, replaceVars, halted>>

\* The first `required` durable voters form the certificate.
Certify(b) ==
    /\ attempt[b].phase = "staging"
    /\ Cardinality(attempt[b].durable) = Required(attempt[b].mode)
    /\ attempt' = [attempt EXCEPT ![b].phase = "certified"]
    /\ UNCHANGED <<raftVars, disk, sent, bodyVars, replaceVars, halted, faults>>

\* Too few voters answer, the proposal or the seal fails, or the caller's
\* deadline passes: the files stay and the call may be repeated.
StageFails(b) ==
    /\ attempt[b].phase # "idle"
    /\ attempt' = [attempt EXCEPT ![b] = Idle]
    /\ UNCHANGED <<raftVars, disk, sent, bodyVars, replaceVars, halted, faults>>

Certificate(a) == [gen |-> a.gen, mode |-> a.mode, voters |-> a.voters, holders |-> a.durable]

\* Raft commits the header.  A request already applied is a Duplicate whatever
\* its certificate: the first header keeps its allocation.
Commit(b) ==
    /\ Leads
    /\ attempt[b].phase = "certified"
    /\ attempt' = [attempt EXCEPT ![b].phase = "applied"]
    /\ IF status[b] = "new"
       THEN /\ status' = [status EXCEPT ![b] = "committed"]
            /\ header' = [header EXCEPT ![b] = Certificate(attempt[b])]
            /\ alloc' = [alloc EXCEPT ![b] = Certificate(attempt[b])]
       ELSE UNCHANGED bodyVars
    /\ UNCHANGED <<raftVars, disk, sent, replaceVars, halted, faults>>

\* commit_header seals the certificate it staged, then answers.
SealAttempt(b) ==
    /\ attempt[b].phase = "applied"
    /\ status[b] # "released"
    /\ Reconstructs(b, Certificate(attempt[b]), up)
    /\ attempt' = [attempt EXCEPT ![b] = Idle]
    /\ UNCHANGED <<raftVars, disk, sent, bodyVars, replaceVars, halted, faults>>
-----------------------------------------------------------------------------
(* Replacing a voter: ConsensusPlane::replace_voter on the leader. *)

Committed == {b \in Bodies : status[b] = "committed"}

\* repair_committed lists the headers once, before it starts.
Listed == {b \in Bodies : status[b] \in {"committed", "releasing"}}

\* add_learner has caught up: whatever was proposed before is applied.
ReplaceStart(old, new) ==
    /\ Leads
    /\ target = {}
    /\ replaced < MaxReplaced
    /\ old \in voters /\ new \in up \ voters
    /\ target' = (voters \ {old}) \cup {new}
    /\ todo' = Listed
    /\ UNCHANGED <<raftVars, disk, sent, bodyVars, attempt, repair, halted, faults>>

RepairGen(b) == alloc[b].gen + 1

\* One header: seal the source and rebuild the body.
RepairRead(b) ==
    /\ Leads
    /\ b \in todo
    /\ \A c \in Bodies : repair[c].phase = "idle"
    /\ status[b] # "released"
    /\ Reconstructs(b, alloc[b], up)
    /\ RepairGen(b) \in Gens \ {Config(r) : r \in 0 .. MaxReplaced}
    /\ repair' = [repair EXCEPT ![b] = [phase |-> "storing", stored |-> {}]]
    /\ UNCHANGED <<raftVars, disk, sent, bodyVars, attempt, target, todo, halted, faults>>

Repaired(b, v) == [gen |-> RepairGen(b), mode |-> alloc[b].mode, voters |-> target, to |-> v]

\* Store the body on the target voters, one after the other.
RepairStore(b, v) ==
    /\ repair[b].phase = "storing"
    /\ v \in (target \cap up) \ repair[b].stored
    /\ disk' = [disk EXCEPT ![b] = Put(@, RepairGen(b), {v}, alloc[b].mode)]
    /\ sent' = [sent EXCEPT ![b] = @ \cup {Repaired(b, v)}]
    /\ repair' = [repair EXCEPT ![b].stored = @ \cup {v}]
    /\ UNCHANGED <<raftVars, bodyVars, attempt, target, todo, halted, faults>>

\* Commit the Repair command once every target voter has stored.  Applying it to
\* a header that was compacted meanwhile is a storage error, which stops Raft on
\* every replica.
RepairCommit(b) ==
    /\ Leads
    /\ repair[b].phase = "storing" /\ repair[b].stored = target
    /\ IF status[b] = "released"
       THEN halted' = TRUE /\ UNCHANGED <<alloc, repair>>
       ELSE /\ alloc' = [alloc EXCEPT ![b] = [gen |-> RepairGen(b), mode |-> @.mode,
                                              voters |-> target, holders |-> target]]
            /\ repair' = [repair EXCEPT ![b].phase = "sealing"]
            /\ UNCHANGED halted
    /\ UNCHANGED <<raftVars, disk, sent, status, header, attempt, target, todo, faults>>

\* Seal the new allocation and go on to the next header.
RepairSeal(b) ==
    /\ repair[b].phase = "sealing"
    /\ Reconstructs(b, alloc[b], up)
    /\ repair' = [repair EXCEPT ![b] = NoRepair]
    /\ todo' = todo \ {b}
    /\ UNCHANGED <<raftVars, disk, sent, bodyVars, attempt, target, halted, faults>>

\* The replacement ends where it is; the store it was waiting for may still land.
Abandon ==
    /\ target' = {} /\ todo' = {}
    /\ repair' = [b \in Bodies |-> NoRepair]
    /\ \/ UNCHANGED sent
       \/ \E b \in Bodies : \E v \in target \ repair[b].stored :
             /\ repair[b].phase = "storing"
             /\ sent' = [sent EXCEPT ![b] = @ \cup {Repaired(b, v)}]

\* A failed call, at any point of replace_voter; what is committed stays.
ReplaceAbort ==
    /\ target # {}
    /\ Abandon
    /\ Fault
    /\ UNCHANGED <<raftVars, disk, bodyVars, attempt, halted>>

\* change_membership commits the new voters once every listed body is moved.
ChangeMembership ==
    /\ Leads
    /\ target # {} /\ voters # target
    /\ todo = {}
    /\ members' = [members EXCEPT ![replaced + 1] = target]
    /\ replaced' = replaced + 1
    /\ UNCHANGED <<leader, view, up, disk, sent, bodyVars, attempt, replaceVars, halted, faults>>

\* refresh_voters, then refresh_configuration_generation, on this node only.
RefreshVoters ==
    /\ target # {} /\ voters = target
    /\ view[leader].voters # target
    /\ view' = [view EXCEPT ![leader].voters = target]
    /\ UNCHANGED <<members, replaced, leader, up, disk, sent, bodyVars, attempt, replaceVars, halted, faults>>

RefreshGeneration ==
    /\ target # {} /\ voters = target
    /\ view[leader].voters = target
    /\ view' = [view EXCEPT ![leader].gen = Config(replaced)]
    /\ target' = {}
    /\ UNCHANGED <<members, replaced, leader, up, disk, sent, bodyVars, attempt, todo, repair, halted, faults>>
-----------------------------------------------------------------------------
(* Release after a checkpoint, elections and node failures. *)

\* release refuses an allocation of which a reachable copy is not the committed
\* one, then deletes its files where the nodes answer.
Without(files, a) == Put(files, a.gen, a.voters \cap up, "None")

\* The original files go first, then the latest repaired ones.
Release(b) ==
    /\ Leads
    /\ status[b] \in {"committed", "releasing"}
    /\ Uniform(b, header[b], up)
    /\ \/ disk' = [disk EXCEPT ![b] = Without(@, header[b])]
       \/ /\ Uniform(b, alloc[b], up)
          /\ disk' = [disk EXCEPT ![b] = Without(Without(@, header[b]), alloc[b])]
    /\ status' = [status EXCEPT ![b] = "releasing"]
    /\ UNCHANGED <<raftVars, sent, header, alloc, attempt, replaceVars, halted, faults>>

\* The ReleaseWal command compacts the header away.
ReleaseHeader(b) ==
    /\ Leads
    /\ status[b] = "releasing"
    /\ status' = [status EXCEPT ![b] = "released"]
    /\ UNCHANGED <<raftVars, disk, sent, header, alloc, attempt, replaceVars, halted, faults>>

\* The handlers of the old leader end with its leadership.
Elect(n) ==
    /\ ~halted
    /\ n \in (up \cap voters) \ {leader}
    /\ Cardinality(up \cap voters) >= Quorum
    /\ IF Leads THEN Fault ELSE UNCHANGED faults
    /\ leader' = n
    /\ attempt' = [b \in Bodies |-> Idle]
    /\ Abandon
    /\ UNCHANGED <<members, replaced, view, up, disk, bodyVars, halted>>

Stop(v) ==
    /\ v \in up
    /\ Fault
    /\ up' = up \ {v}
    /\ UNCHANGED <<members, replaced, leader, view, disk, sent, bodyVars, attempt, replaceVars, halted>>

\* open_local: the voters come from the state image, which may predate the last
\* memberships; the generation is read after Raft was started on it.
Return(v) ==
    /\ v \in Nodes \ up
    /\ up' = up \cup {v}
    /\ \E i, j \in 0 .. replaced :
          /\ i <= j
          /\ view' = [view EXCEPT ![v] = [voters |-> members[i], gen |-> Config(j)]]
    /\ IF v = leader
       THEN attempt' = [b \in Bodies |-> Idle] /\ Abandon
       ELSE UNCHANGED <<attempt, sent, replaceVars>>
    /\ UNCHANGED <<members, replaced, leader, disk, bodyVars, halted, faults>>

Next ==
    \/ \E b \in Bodies : StageStart(b)
    \/ \E b \in Bodies : FallBack(b)
    \/ \E b \in Bodies, v \in Nodes : StageStore(b, v)
    \/ \E b \in Bodies : \E r \in sent[b] : LateStore(b, r)
    \/ \E b \in Bodies : Certify(b)
    \/ \E b \in Bodies : StageFails(b)
    \/ \E b \in Bodies : Commit(b)
    \/ \E b \in Bodies : SealAttempt(b)
    \/ \E old, new \in Nodes : ReplaceStart(old, new)
    \/ \E b \in Bodies : RepairRead(b)
    \/ \E b \in Bodies, v \in Nodes : RepairStore(b, v)
    \/ \E b \in Bodies : RepairCommit(b)
    \/ \E b \in Bodies : RepairSeal(b)
    \/ ReplaceAbort
    \/ ChangeMembership
    \/ RefreshVoters
    \/ RefreshGeneration
    \/ \E b \in Bodies : Release(b)
    \/ \E b \in Bodies : ReleaseHeader(b)
    \/ \E n \in Nodes : Elect(n)
    \/ \E v \in Nodes : Stop(v)
    \/ \E v \in Nodes : Return(v)

Spec == Init /\ [][Next]_vars
-----------------------------------------------------------------------------
(* Properties. *)

\* Every representation of b ever sent for the generation of its allocation has
\* the allocation's mode and voters: no call fell back to copies, or staged for
\* other voters, under the generation that was committed.
Unmixed(b) == \A r \in sent[b] : r.gen = alloc[b].gen => r.mode = alloc[b].mode /\ r.voters = alloc[b].voters

\* A certificate names enough holders (PayloadCertificate::with_voters): whichever
\* N - Quorum voters of its allocation are lost, the others rebuild a committed
\* body, through retries, late stores, half-way repairs, aborted replacements,
\* appends that overlap them, leader changes and restarts.  It does not hold of
\* a body of which files of another mode were sent under the same generation.
Readable ==
    \A b \in Committed : Unmixed(b) =>
        \A F \in SUBSET alloc[b].voters :
            Cardinality(F) <= N - Quorum => Reconstructs(b, alloc[b], Nodes \ F)

\* whitepaper.mdx:319, "every legal future leader quorum intersects the durable
\* write set in at least k fragments": whichever election quorum of the
\* committed voters survives, it rebuilds every committed body.
QuorumReadable ==
    \A b \in Committed, Q \in SUBSET voters :
        Cardinality(Q) >= Quorum => Reconstructs(b, alloc[b], Q)

\* replace_voter "promotes a fully caught-up learner after repairing every
\* committed payload allocation": a voter set is committed only when every
\* committed body has moved to it.
RepairedBeforeMembership ==
    [][voters' # voters => \A b \in Committed : alloc[b].voters = voters']_vars

\* PayloadStore::stage "must derive every actual staging target and the
\* certificate voter set from committed group membership": whatever a call is
\* staged for is the committed voter set.
StagedForVoters ==
    [][\A b \in Bodies : attempt[b].phase = "idle" /\ attempt'[b].phase = "staging"
            => attempt'[b].voters = voters]_vars

\* apply treats "repair references an unknown committed header" as impossible
\* (raft_store.rs:844): no Repair command is committed after its header is gone.
NeverHalted == ~halted
=============================================================================

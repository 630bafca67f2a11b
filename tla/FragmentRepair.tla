--------------------------- MODULE FragmentRepair ---------------------------
(***************************************************************************)
(* The fragments of one acknowledged write-back object: the stragglers the  *)
(* acknowledgement did not wait for, the repair and scrub passes that       *)
(* re-place lost fragments, and the clean-up after propagation or DELETE    *)
(* (crates/verglas-writeback: coordinator.rs, journal.rs).  The journal's   *)
(* placements are the only record of where fragments are; a pass reads      *)
(* them, works without any lock, and writes its own list back.              *)
(*                                                                          *)
(* A placement is an <<index, node>> pair.  A fragment that is absent, fails *)
(* its checksum or sits on a node that does not answer is an erasure.       *)
(***************************************************************************)
EXTENDS Integers, FiniteSets

CONSTANTS
    Nodes,          \* members of the pod
    Passes,         \* the concurrent callers of repair_object: the repair
                    \* loop and the scrub loop
    K, M, W,        \* data and parity fragments, and the ack quorum
    MaxFaults,      \* bound on lost fragments and node outages
    MaxRestarts     \* bound on restarts of the coordinator's process

Indices == 0..(K + M - 1)

ASSUME GeometryAssumption ==
    /\ K \in Nat \ {0} /\ M \in Nat /\ W \in Nat
    /\ K <= W /\ W <= K + M
    /\ MaxFaults \in Nat /\ MaxRestarts \in Nat

Placements == Indices \X Nodes

VARIABLES
    live,           \* LiveMembership: the nodes that answer
    stored,         \* intact fragments on the nodes' disks
    landed,         \* stragglers that are stored but not merged yet
    coming,         \* stragglers still being placed
    state,          \* the journal file: "absent", "dirty" or "clean"
    placements,     \* its placements
    indexed,        \* the dirty index names the object
    pass,           \* the repair_object call each pass is in
    ending,         \* the clean-up under way and its step
    written,        \* history: the origin has accepted the object
    removed,        \* history: a DELETE of the object has succeeded
    faults,
    restarts

journalVars == <<state, placements>>
fragVars    == <<live, stored, landed, coming>>
histVars    == <<written, removed>>
bounds      == <<faults, restarts>>
vars == <<fragVars, journalVars, indexed, pass, ending, histVars, bounds>>

IdlePass == [pc |-> "idle", view |-> {}, read |-> {}, kept |-> {},
             todo |-> {}, free |-> {}, seen |-> "absent"]

Idx(P) == {p[1] : p \in P}
On(P)  == {p[2] : p \in P}

(* Fragments that load and verify now. *)
Loadable(P) == {p \in P \cap stored : p[2] \in live}

(* The object was just acknowledged: W placements of distinct indices on    *)
(* distinct nodes are stored and in the dirty journal; the other fragments  *)
(* are still on their way to nodes of their own.  The pod has a node for    *)
(* each fragment; the code goes on with fewer.                              *)
Init ==
    /\ live = Nodes
    /\ \E at \in [Indices -> Nodes], acked \in SUBSET Indices :
         /\ \A i, j \in Indices : at[i] = at[j] => i = j
         /\ Cardinality(acked) = W
         /\ stored = {<<i, at[i]>> : i \in acked}
         /\ placements = {<<i, at[i]>> : i \in acked}
         /\ coming = {<<i, at[i]>> : i \in Indices \ acked}
    /\ landed = {}
    /\ state = "dirty"
    /\ indexed = TRUE
    /\ pass = [p \in Passes |-> IdlePass]
    /\ ending = "none"
    /\ written = FALSE
    /\ removed = FALSE
    /\ faults = 0
    /\ restarts = 0

-----------------------------------------------------------------------------
(* Stragglers (the task spawned by finish_stream_ack). *)

Land(f) ==
    /\ f \in coming
    /\ coming' = coming \ {f}
    /\ stored' = stored \cup {f}
    /\ landed' = landed \cup {f}
    /\ UNCHANGED <<live, journalVars, indexed, pass, ending, histVars, bounds>>

StragglerFails(f) ==
    /\ f \in coming
    /\ coming' = coming \ {f}
    /\ UNCHANGED <<live, stored, landed, journalVars, indexed, pass, ending,
                   histVars, bounds>>

(* The stripe of the object is held by an update_placements in progress. *)
StripeBusy == \E p \in Passes : pass[p].pc = "writing"

(* add_placement: under the stripe, unless its index is already recorded. *)
AddPlacement(f) ==
    /\ f \in landed /\ ~StripeBusy
    /\ landed' = landed \ {f}
    /\ placements' = IF state # "absent" /\ f[1] \notin Idx(placements)
                     THEN placements \cup {f} ELSE placements
    /\ UNCHANGED <<live, stored, coming, state, indexed, pass, ending,
                   histVars, bounds>>

-----------------------------------------------------------------------------
(* repair_once and scrub_once: one repair_object call. *)

(* The pass takes the live nodes and the journal of an indexed object.  The *)
(* code reads the journal after the listing, so it may meet one that is     *)
(* clean by then, which it does not rewrite as dirty.                       *)
RepairRead(p) ==
    /\ pass[p].pc = "idle"
    /\ indexed /\ state # "absent"
    /\ pass' = [pass EXCEPT ![p] = [IdlePass EXCEPT !.pc = "scan",
                                                    !.view = live,
                                                    !.read = placements]]
    /\ UNCHANGED <<fragVars, journalVars, indexed, ending, histVars, bounds>>

(* The placements on a node of the pass's view that load and verify, and    *)
(* the indices that do not.                                                 *)
Healthy(p) == {f \in Loadable(pass[p].read) : f[2] \in pass[p].view}

Lost(p) == Idx(pass[p].read) \ Idx(Healthy(p))

\* Mutant: the new list starts with the placements that were lost, too.
KeptAll(p) == pass[p].read
\* Mutant: the new list starts empty.
KeptNone(p) == {}
(* What the new list of placements starts with. *)
Kept(p) == Healthy(p)

(* It loads and verifies every placement on a node of its view.  With       *)
(* nothing to repair, or fewer than K healthy fragments, it leaves the      *)
(* journal alone; otherwise the candidates are the nodes of its view that   *)
(* hold no healthy fragment.                                                *)
RepairScan(p) ==
    /\ pass[p].pc = "scan"
    /\ pass' = [pass EXCEPT ![p] =
         IF Lost(p) = {} \/ Cardinality(Healthy(p)) < K
         THEN IdlePass
         ELSE [@ EXCEPT !.pc = "place", !.kept = Kept(p), !.todo = Lost(p),
                        !.free = pass[p].view \ On(Healthy(p))]]
    /\ UNCHANGED <<fragVars, journalVars, indexed, ending, histVars, bounds>>

(* The lost indices are re-placed in ascending order, each on a candidate   *)
(* of its own; a refused placement, or a source that no longer reassembles, *)
(* abandons the pass before the journal is touched.                         *)
NextLost(S) == CHOOSE i \in S : \A j \in S : i <= j

RepairPlace(p, n) ==
    LET i == NextLost(pass[p].todo)
    IN  /\ pass[p].pc = "place"
        /\ pass[p].todo # {} /\ n \in pass[p].free \cap live
        /\ stored' = stored \cup {<<i, n>>}
        /\ pass' = [pass EXCEPT ![p].kept = @ \cup {<<i, n>>},
                                ![p].todo = @ \ {i},
                                ![p].free = @ \ {n}]
        /\ UNCHANGED <<live, landed, coming, journalVars, indexed, ending,
                       histVars, bounds>>

RepairAbandon(p) ==
    /\ pass[p].pc = "place"
    /\ pass' = [pass EXCEPT ![p] = IdlePass]
    /\ UNCHANGED <<fragVars, journalVars, indexed, ending, histVars, bounds>>

(* update_placements takes the stripe and reads the journal.  Lost indices  *)
(* for which no candidate was left are not in the new list.                 *)
UpdateRead(p) ==
    /\ pass[p].pc = "place"
    /\ pass[p].todo = {} \/ pass[p].free = {}
    /\ ~StripeBusy
    /\ pass' = [pass EXCEPT ![p] = IF state = "absent" THEN IdlePass
                                   ELSE [@ EXCEPT !.pc = "writing",
                                                  !.seen = state]]
    /\ UNCHANGED <<fragVars, journalVars, indexed, ending, histVars, bounds>>

(* It writes the journal it read with the pass's placements; nothing but    *)
(* the stripe, which JournalStore::delete does not take, protects the file. *)
UpdateWrite(p) ==
    /\ pass[p].pc = "writing"
    /\ state' = pass[p].seen
    /\ placements' = pass[p].kept
    /\ pass' = [pass EXCEPT ![p] = IdlePass]
    /\ UNCHANGED <<fragVars, indexed, ending, histVars, bounds>>

-----------------------------------------------------------------------------
(* The end of the object. *)

(* Propagation reassembles the object from its journal and the origin       *)
(* accepts it; then mark_clean, under the stripe.                           *)
Propagate ==
    /\ ending = "none" /\ indexed /\ state = "dirty"
    /\ landed = {} /\ coming = {}
    /\ Cardinality(Loadable(placements)) >= K
    /\ ending' = "propagated"
    /\ written' = TRUE
    /\ UNCHANGED <<fragVars, journalVars, indexed, pass, removed, bounds>>

\* Mutant: the stripe is not taken.
MarkCleanUnlocked ==
    /\ ending = "propagated"
    /\ ending' = "clean"
    /\ state' = IF state = "absent" THEN state ELSE "clean"
    /\ indexed' = FALSE
    /\ UNCHANGED <<fragVars, placements, pass, histVars, bounds>>

MarkClean ==
    /\ ending = "propagated" /\ ~StripeBusy
    /\ ending' = "clean"
    /\ state' = IF state = "absent" THEN state ELSE "clean"
    /\ indexed' = FALSE
    /\ UNCHANGED <<fragVars, placements, pass, histVars, bounds>>

(* The fragments the journal names are freed, as far as their nodes answer, *)
(* then JournalStore::delete.  The code goes by the journal it read before  *)
(* the upload and may leave a fragment placed since, which nothing names.   *)
Discard ==
    /\ ending = "clean"
    /\ ending' = "gone"
    /\ stored' = stored \ Loadable(placements)
    /\ state' = "absent"
    /\ placements' = {}
    /\ UNCHANGED <<live, landed, coming, indexed, pass, histVars, bounds>>

(* DELETE: the journal of a dirty object and its fragments are removed. *)
Delete ==
    /\ ending = "none" /\ indexed
    /\ landed = {} /\ coming = {}
    /\ ending' = "deleted"
    /\ stored' = stored \ Loadable(placements)
    /\ state' = "absent"
    /\ placements' = {}
    /\ indexed' = FALSE
    /\ removed' = TRUE
    /\ UNCHANGED <<live, landed, coming, pass, written, bounds>>

-----------------------------------------------------------------------------
(* Faults. *)

Fault == faults < MaxFaults /\ faults' = faults + 1

(* A fragment rots, or its disk loses it. *)
LoseFragment(f) ==
    /\ f \in stored
    /\ Fault
    /\ stored' = stored \ {f}
    /\ UNCHANGED <<live, landed, coming, journalVars, indexed, pass, ending,
                   histVars, restarts>>

(* A node stops answering; it may come back with its fragments. *)
NodeDown(n) ==
    /\ n \in live
    /\ Fault
    /\ live' = live \ {n}
    /\ UNCHANGED <<stored, landed, coming, journalVars, indexed, pass,
                   ending, histVars, restarts>>

NodeUp(n) ==
    /\ n \notin live
    /\ live' = live \cup {n}
    /\ UNCHANGED <<stored, landed, coming, journalVars, indexed, pass,
                   ending, histVars, bounds>>

(* The coordinator's process restarts: passes and unmerged stragglers are   *)
(* forgotten, the index is rebuilt from the journal file, and a clean-up    *)
(* that was under way is started again if the journal is still dirty.       *)
Restart ==
    /\ restarts < MaxRestarts
    /\ restarts' = restarts + 1
    /\ pass' = [p \in Passes |-> IdlePass]
    /\ landed' = {}
    /\ coming' = {}
    /\ indexed' = (state = "dirty")
    /\ ending' = IF state = "dirty" THEN "none" ELSE "gone"
    /\ UNCHANGED <<live, stored, journalVars, histVars, faults>>

RepairStep(p) ==
    \/ RepairRead(p) \/ RepairScan(p) \/ RepairAbandon(p)
    \/ UpdateRead(p) \/ UpdateWrite(p)
    \/ \E n \in Nodes : RepairPlace(p, n)

Next ==
    \/ \E f \in Placements : \/ Land(f) \/ StragglerFails(f)
                             \/ AddPlacement(f) \/ LoseFragment(f)
    \/ \E p \in Passes : RepairStep(p)
    \/ Propagate \/ MarkClean \/ Discard \/ Delete
    \/ \E n \in Nodes : NodeDown(n) \/ NodeUp(n)
    \/ Restart

Spec == Init /\ [][Next]_vars

-----------------------------------------------------------------------------
(* Properties. *)

PassType == [pc : {"idle", "scan", "place", "writing"},
             view : SUBSET Nodes, read : SUBSET Placements, kept : SUBSET Placements,
             todo : SUBSET Indices, free : SUBSET Nodes,
             seen : {"absent", "dirty", "clean"}]

TypeOK ==
    /\ live \subseteq Nodes
    /\ stored \subseteq Placements
    /\ landed \subseteq Placements
    /\ coming \subseteq Placements
    /\ state \in {"absent", "dirty", "clean"}
    /\ placements \subseteq Placements
    /\ indexed \in BOOLEAN
    /\ pass \in [Passes -> PassType]
    /\ ending \in {"none", "propagated", "clean", "gone", "deleted"}
    /\ written \in BOOLEAN
    /\ removed \in BOOLEAN
    /\ faults \in 0..MaxFaults
    /\ restarts \in 0..MaxRestarts

(* The journal names at most one fragment of an index, whatever order       *)
(* stragglers are merged and passes write back in: reassembly stops at K    *)
(* placements and would not decode with an index twice among them.          *)
IndexOnce ==
    \A p, q \in placements : p[1] = q[1] => p = q

(* As many faults as the acknowledgement allows for, at any time, leave the *)
(* dirty object readable: K distinct fragments the journal names load now,  *)
(* though two passes may overwrite each other's lists, drop stragglers and  *)
(* leave two fragments on one node.                                         *)
StaysReadable ==
    (state = "dirty" /\ ~removed /\ MaxFaults <= W - K)
      => Cardinality(Idx(Loadable(placements))) >= K

(* A propagated object that was marked clean is never dirty again: a pass   *)
(* that read the journal before cannot write the old state back, so no      *)
(* restart uploads it a second time.                                        *)
CleanIsFinal ==
    [][(written /\ state = "clean") => state' # "dirty"]_vars
=============================================================================

------------------------ MODULE PayloadAllocation_proofs ------------------------
(***************************************************************************)
(* For every finite set of nodes, every k and m the code accepts, every    *)
(* number of replacements and of faults: whichever N - Quorum voters of    *)
(* its allocation are lost, a committed body is rebuilt from the others,   *)
(* unless files of another mode or of other voters were sent under its     *)
(* generation.  Nothing is assumed of the order of appends, fallbacks,     *)
(* late stores, repairs, replacements, elections and restarts.             *)
(***************************************************************************)
EXTENDS PayloadAllocation, FiniteSetTheorems, TLAPS

\* Every voter set a body is stored for has the size of the geometry.
Sizes ==
    /\ \A r \in 0 .. replaced : Cardinality(members[r]) = N
    /\ \A n \in Nodes : Cardinality(view[n].voters) = N
    /\ target # {} => Cardinality(target) = N

\* A call's representations are all on their way, and what it has counted as
\* durable stays on disk until its header is committed.
Attempts ==
    \A b \in Bodies : attempt[b].phase # "idle" =>
        /\ Cardinality(attempt[b].voters) = N
        /\ attempt[b].durable \subseteq attempt[b].voters
        /\ attempt[b].phase # "staging" =>
               Cardinality(attempt[b].durable) = Required(attempt[b].mode)
        /\ \A v \in attempt[b].voters :
               [gen |-> attempt[b].gen, mode |-> attempt[b].mode,
                voters |-> attempt[b].voters, to |-> v] \in sent[b]
        /\ status[b] = "new" =>
               \A v \in attempt[b].durable : disk[b][attempt[b].gen][v] # "None"

\* Every file was sent under its generation, to its node, in its mode.
Traced ==
    \A b \in Bodies : \A g \in Gens, v \in Nodes :
        disk[b][g][v] # "None" =>
            \E r \in sent[b] : r.gen = g /\ r.to = v /\ r.mode = disk[b][g][v]

\* What a repair has stored is on disk for as long as the body is committed.
Repairs ==
    \A b \in Bodies : repair[b].phase = "storing" =>
        /\ RepairGen(b) \in Gens
        /\ repair[b].stored \subseteq target
        /\ status[b] = "committed" =>
               \A v \in repair[b].stored : disk[b][RepairGen(b)][v] # "None"

\* A committed body is on the disks of enough holders.
Backed ==
    \A b \in Bodies : status[b] = "committed" =>
        /\ Cardinality(alloc[b].voters) = N
        /\ alloc[b].holders \subseteq alloc[b].voters
        /\ Cardinality(alloc[b].holders) >= Required(alloc[b].mode)
        /\ \A v \in alloc[b].holders : disk[b][alloc[b].gen][v] # "None"

\* Only a replacement under way has bodies to move and a membership to commit.
Paced ==
    /\ target = {} \/ target = voters => todo = {}
    /\ target # {} /\ target # voters => replaced < MaxReplaced
    /\ \A b \in Bodies : repair[b].phase # "idle" => b \in todo
    /\ \A b \in todo : status[b] # "new"

IInv == TypeOK /\ Sizes /\ Attempts /\ Traced /\ Repairs /\ Backed /\ Paced
-----------------------------------------------------------------------------
(* Arithmetic of quorums. *)

\* Two subsets of a finite set overlap in at least what their sizes exceed it.
LEMMA Overlap ==
    ASSUME NEW S, IsFiniteSet(S), NEW A \in SUBSET S, NEW B \in SUBSET S
    PROVE  /\ {Cardinality(A), Cardinality(B), Cardinality(S), Cardinality(A \cap B)} \subseteq Nat
           /\ Cardinality(A \cap B) + Cardinality(S) >= Cardinality(A) + Cardinality(B)
<1>1. IsFiniteSet(A) /\ IsFiniteSet(B) /\ IsFiniteSet(A \cap B) /\ IsFiniteSet(A \cup B)
  BY FS_Subset, FS_Union
<1>2. Cardinality(A \cup B) <= Cardinality(S)
  BY FS_Subset
<1>3. Cardinality(A \cup B) = Cardinality(A) + Cardinality(B) - Cardinality(A \cap B)
  BY <1>1, FS_Union
<1>4. {Cardinality(A), Cardinality(B), Cardinality(S), Cardinality(A \cap B), Cardinality(A \cup B)} \subseteq Nat
  BY <1>1, FS_CardinalityType
<1> QED
  BY <1>2, <1>3, <1>4

\* The numbers of the geometry, and that two election quorums overlap.
LEMMA Geometry ==
    /\ N \in Nat /\ Quorum \in Nat /\ K \in Nat
    /\ 0 < K /\ K < N /\ Quorum <= N /\ N < 2 * Quorum
<1>1. N \in Nat
  BY GeometryAssumption, FS_Subset, FS_CardinalityType DEF N
<1>2. K \in Nat /\ 0 < K /\ K < N
  BY GeometryAssumption
<1> QED
  BY <1>1, <1>2 DEF Quorum

\* Replacing one voter keeps the number of voters.
LEMMA OneReplaced ==
    ASSUME NEW V \in SUBSET Nodes, NEW old \in V, NEW new \in Nodes \ V,
           NEW T, T = (V \ {old}) \cup {new}
    PROVE  /\ Cardinality(T) = Cardinality(V)
           /\ T \subseteq Nodes /\ T # {} /\ T # V
<1> DEFINE R == V \ {old}
<1>1. IsFiniteSet(V) /\ Cardinality(V) \in Nat
  BY GeometryAssumption, FS_Subset, FS_CardinalityType
<1>2. IsFiniteSet(R) /\ Cardinality(R) = Cardinality(V) - 1
  BY <1>1, FS_RemoveElement
<1>3. Cardinality(R \cup {new}) = Cardinality(R) + 1
  BY <1>2, FS_AddElement
<1>4. R \cup {new} \subseteq Nodes /\ R \cup {new} # {} /\ R \cup {new} # V
  OBVIOUS
<1>5. Cardinality(R \cup {new}) = Cardinality(V)
  BY <1>1, <1>2, <1>3
<1> QED
  BY <1>4, <1>5

\* The heart of the design (PayloadCertificate::with_voters): losing as many
\* voters as an election tolerates leaves enough certified holders to decode.
LEMMA Tolerance ==
    ASSUME NEW V \in SUBSET Nodes, Cardinality(V) = N, NEW mode \in Modes,
           NEW H \in SUBSET V, Cardinality(H) >= Required(mode),
           NEW F \in SUBSET V, Cardinality(F) <= N - Quorum
    PROVE  Cardinality(H \ F) >= Threshold(mode)
<1> DEFINE R == V \ F
<1>1. IsFiniteSet(V) /\ IsFiniteSet(F) /\ Cardinality(F) \in Nat
  BY GeometryAssumption, FS_Subset, FS_CardinalityType
<1>2. R \in SUBSET V /\ H \cap R = H \ F /\ F \cup R = V /\ F \cap R = {}
  OBVIOUS
<1>3. Cardinality(R) \in Nat /\ Cardinality(V) = Cardinality(F) + Cardinality(R)
  <2> HIDE DEF R
  <2>1. IsFiniteSet(R) /\ Cardinality(R) \in Nat
    BY <1>1, <1>2, FS_Subset, FS_CardinalityType
  <2>2. Cardinality(F \cup R) = Cardinality(F) + Cardinality(R) - Cardinality(F \cap R)
    BY <1>1, <2>1, FS_Union
  <2>3. Cardinality(F \cap R) = 0
    BY <1>2, FS_EmptySet
  <2>4. Cardinality(F \cup R) = Cardinality(V)
    BY <1>2
  <2> QED BY <1>1, <2>1, <2>2, <2>3, <2>4
<1> HIDE DEF R
<1>4. /\ {Cardinality(H), Cardinality(R), Cardinality(H \ F)} \subseteq Nat
      /\ Cardinality(H \ F) + N >= Cardinality(H) + Cardinality(R)
  <2>1. /\ {Cardinality(H), Cardinality(R), Cardinality(V), Cardinality(H \cap R)} \subseteq Nat
        /\ Cardinality(H \cap R) + Cardinality(V) >= Cardinality(H) + Cardinality(R)
    <3>1. IsFiniteSet(V) /\ H \in SUBSET V /\ R \in SUBSET V
      BY <1>1, <1>2
    <3> QED BY <3>1, Overlap, Zenon
  <2> QED BY <1>2, <2>1
<1>5. mode = "Coded" \/ mode = "Complete"
  BY DEF Modes
<1>6. Cardinality(H) >= Required(mode) /\ Cardinality(F) <= N - Quorum
      /\ N = Cardinality(F) + Cardinality(R)
  BY <1>3
<1> QED
  BY <1>1, <1>3, <1>4, <1>5, <1>6, Geometry DEF Required, Threshold

\* Readability, as a consequence of the inductive invariant.
LEMMA IInvReadable == IInv => Readable
<1> SUFFICES ASSUME IInv, NEW b \in Committed, Unmixed(b),
                    NEW F \in SUBSET alloc[b].voters, Cardinality(F) <= N - Quorum
             PROVE  Reconstructs(b, alloc[b], Nodes \ F)
  BY DEF Readable
<1> DEFINE a == alloc[b]
<1>1. b \in Bodies /\ status[b] = "committed"
  BY DEF Committed
<1>2. a \in Allocation /\ a.gen \in Gens /\ a.mode \in Modes /\ a.voters \subseteq Nodes
      /\ disk[b] \in [Gens -> [Nodes -> File]]
  BY <1>1 DEF IInv, TypeOK, Allocation
<1>3. /\ Cardinality(a.voters) = N /\ a.holders \subseteq a.voters
      /\ Cardinality(a.holders) >= Required(a.mode)
      /\ \A v \in a.holders : disk[b][a.gen][v] # "None"
  BY <1>1 DEF IInv, Backed
<1>4. Cardinality(a.holders \ F) >= Threshold(a.mode)
  <2> HIDE DEF a
  <2> QED BY <1>2, <1>3, Tolerance DEF a
<1>5. a.holders \cap (Nodes \ F) = a.holders \ F
  BY <1>2, <1>3
<1>6. Holding(b, a.gen, a.holders \ F) = a.holders \ F
  BY <1>3 DEF Holding
<1>7. \A v \in a.holders : disk[b][a.gen][v] = a.mode
  <2> TAKE v \in a.holders
  <2>1. v \in Nodes /\ disk[b][a.gen][v] # "None"
    BY <1>2, <1>3
  <2>2. PICK r \in sent[b] : r.gen = a.gen /\ r.to = v /\ r.mode = disk[b][a.gen][v]
    BY <1>1, <1>2, <2>1 DEF IInv, Traced
  <2> QED BY <2>2 DEF Unmixed
<1>8. Uniform(b, a, Nodes \ F)
  BY <1>5, <1>6, <1>7 DEF Uniform
<1> QED
  BY <1>4, <1>5, <1>6, <1>8 DEF Reconstructs
-----------------------------------------------------------------------------
(* Files and representations. *)

Files == [Gens -> [Nodes -> File]]

\* What Put writes, and that it writes nothing else.
LEMMA PutFacts ==
    ASSUME NEW files \in Files, NEW g \in Gens, NEW V, NEW file \in File
    PROVE  /\ Put(files, g, V, file) \in Files
           /\ \A h \in Gens, v \in Nodes :
                 Put(files, g, V, file)[h][v] = IF h = g /\ v \in V THEN file ELSE files[h][v]
BY DEF Put, Files

\* The generation of a membership is one of the bounded generations.
LEMMA ConfigGens == \A r \in 0 .. MaxReplaced : Config(r) \in Gens
<1> SUFFICES ASSUME NEW r \in 0 .. MaxReplaced
             PROVE  Config(r) \in Gens
  OBVIOUS
<1>1. r \in Nat /\ MaxReplaced \in Nat /\ Stride \in Nat /\ Stride >= 1 /\ r <= MaxReplaced
  BY BoundAssumption
<1>2. r * Stride \in Nat /\ r * Stride <= MaxReplaced * Stride
  BY <1>1, SMTT(30)
<1>3. (MaxReplaced + 1) * Stride = MaxReplaced * Stride + Stride /\ MaxReplaced * Stride \in Nat
  BY <1>1, SMTT(30)
<1> QED
  BY <1>1, <1>2, <1>3 DEF Config, Gens
-----------------------------------------------------------------------------
(* What a step that writes no other variable leaves alone. *)

\* No file disappears; no representation is taken back.
Kept  == \A b \in Bodies : \A g \in Gens, v \in Nodes :
             disk[b][g][v] # "None" => disk'[b][g][v] # "None"
Grown == \A b \in Bodies : sent[b] \subseteq sent'[b]

\* The initial values are of their types.
LEMMA Initials == 1 \in Gens /\ Idle \in Attempt /\ Idle.phase = "idle"
                  /\ NoAllocation \in Allocation /\ NoRepair \in Repair /\ NoRepair.phase = "idle"
<1>1. Config(0) \in Gens
  BY ConfigGens, BoundAssumption
<1>2. 1 \in Gens
  BY <1>1, BoundAssumption DEF Config
<1> QED
  BY <1>2 DEF Idle, Attempt, NoAllocation, Allocation, NoRepair, Repair, Modes

\* Commits and repairs aside, a body stays where it is.
LEMMA BackedKept ==
    ASSUME IInv, Kept, UNCHANGED <<status, alloc>>
    PROVE  Backed'
<1> SUFFICES ASSUME NEW b \in Bodies, status[b] = "committed"
             PROVE  /\ Cardinality(alloc[b].voters) = N
                    /\ alloc[b].holders \subseteq alloc[b].voters
                    /\ Cardinality(alloc[b].holders) >= Required(alloc[b].mode)
                    /\ \A v \in alloc[b].holders : disk'[b][alloc[b].gen][v] # "None"
  BY DEF Backed
<1>1. alloc[b].gen \in Gens /\ alloc[b].holders \subseteq Nodes
  BY DEF IInv, TypeOK, Allocation
<1> QED
  BY <1>1 DEF IInv, Backed, Kept

\* The repairs under way keep what they stored.
LEMMA RepairsKept ==
    ASSUME IInv, Kept, UNCHANGED <<status, alloc, repair, target>>
    PROVE  Repairs'
<1> SUFFICES ASSUME NEW b \in Bodies, repair[b].phase = "storing"
             PROVE  /\ RepairGen(b) \in Gens
                    /\ repair[b].stored \subseteq target
                    /\ status[b] = "committed" =>
                           \A v \in repair[b].stored : disk'[b][RepairGen(b)][v] # "None"
  BY DEF Repairs, RepairGen
<1>1. repair[b].stored \subseteq Nodes
  BY DEF IInv, TypeOK, Repair
<1> QED
  BY <1>1 DEF IInv, Repairs, Kept

\* The calls under way keep what they stored.
LEMMA AttemptsKept ==
    ASSUME IInv, Kept, Grown, UNCHANGED <<status, attempt>>
    PROVE  Attempts'
<1> SUFFICES ASSUME NEW b \in Bodies, attempt[b].phase # "idle"
             PROVE  /\ Cardinality(attempt[b].voters) = N
                    /\ attempt[b].durable \subseteq attempt[b].voters
                    /\ attempt[b].phase # "staging" =>
                           Cardinality(attempt[b].durable) = Required(attempt[b].mode)
                    /\ \A v \in attempt[b].voters :
                           [gen |-> attempt[b].gen, mode |-> attempt[b].mode,
                            voters |-> attempt[b].voters, to |-> v] \in sent'[b]
                    /\ status[b] = "new" =>
                           \A v \in attempt[b].durable : disk'[b][attempt[b].gen][v] # "None"
  BY DEF Attempts
<1>1. attempt[b].gen \in Gens /\ attempt[b].durable \subseteq Nodes
  BY DEF IInv, TypeOK, Attempt
<1> QED
  BY <1>1 DEF IInv, Attempts, Kept, Grown

\* Nothing about the replacement changes.
LEMMA PacedKept ==
    ASSUME IInv, UNCHANGED <<members, replaced, view, target, todo, repair, status>>
    PROVE  Sizes' /\ Paced'
BY DEF IInv, Sizes, Paced, voters

\* A file that was there before was sent before.
LEMMA TracedKept ==
    ASSUME IInv, Grown, UNCHANGED disk
    PROVE  Traced' /\ Kept
<1>1. Kept
  BY DEF Kept
<1>2. Traced'
  <2> SUFFICES ASSUME NEW b \in Bodies, NEW g \in Gens, NEW v \in Nodes, disk[b][g][v] # "None"
               PROVE  \E r \in sent'[b] : r.gen = g /\ r.to = v /\ r.mode = disk[b][g][v]
    BY DEF Traced
  <2>1. PICK r \in sent[b] : r.gen = g /\ r.to = v /\ r.mode = disk[b][g][v]
    BY DEF IInv, Traced
  <2> QED BY <2>1 DEF Grown
<1> QED
  BY <1>1, <1>2

\* A store writes one file, of a representation that was sent.
LEMMA Written ==
    ASSUME IInv, NEW b \in Bodies, NEW g \in Gens, NEW v \in Nodes, NEW m \in Modes,
           disk' = [disk EXCEPT ![b] = Put(disk[b], g, {v}, m)],
           Grown, \E r \in sent'[b] : r.gen = g /\ r.to = v /\ r.mode = m
    PROVE  /\ disk' \in [Bodies -> [Gens -> [Nodes -> File]]]
           /\ disk'[b][g][v] # "None"
           /\ Traced' /\ Kept
<1> DEFINE files == Put(disk[b], g, {v}, m)
<1>1. disk \in [Bodies -> Files] /\ disk[b] \in Files /\ m \in File /\ m # "None"
  BY DEF IInv, TypeOK, Files, File, Modes
<1>2. /\ files \in Files
      /\ \A h \in Gens, w \in Nodes :
            files[h][w] = IF h = g /\ w \in {v} THEN m ELSE disk[b][h][w]
  BY <1>1, PutFacts
<1>3. disk' = [disk EXCEPT ![b] = files]
  OBVIOUS
<1> HIDE DEF files
<1>4. /\ disk' \in [Bodies -> Files]
      /\ disk'[b] = files /\ \A c \in Bodies \ {b} : disk'[c] = disk[c]
  BY <1>1, <1>2, <1>3
<1>5. Kept
  BY <1>1, <1>2, <1>4 DEF Kept
<1>6. disk'[b][g][v] # "None"
  BY <1>1, <1>2, <1>4
<1>7. Traced'
  <2> SUFFICES ASSUME NEW c \in Bodies, NEW h \in Gens, NEW w \in Nodes, disk'[c][h][w] # "None"
               PROVE  \E r \in sent'[c] : r.gen = h /\ r.to = w /\ r.mode = disk'[c][h][w]
    BY DEF Traced
  <2>1. CASE c = b /\ h = g /\ w = v
    BY <1>2, <1>4, <2>1
  <2>2. CASE ~(c = b /\ h = g /\ w = v)
    <3>1. disk'[c][h][w] = disk[c][h][w]
      BY <1>2, <1>4, <2>2
    <3>2. PICK r \in sent[c] : r.gen = h /\ r.to = w /\ r.mode = disk[c][h][w]
      BY <3>1 DEF IInv, Traced
    <3> QED BY <3>1, <3>2 DEF Grown
  <2> QED BY <2>1, <2>2
<1> QED
  BY <1>4, <1>5, <1>6, <1>7 DEF Files
-----------------------------------------------------------------------------
(* Every step keeps the invariant. *)

\* The initial state: nothing is staged and nothing is being replaced.
LEMMA InitIInv == Init => IInv
<1> SUFFICES ASSUME Init PROVE IInv
  OBVIOUS
<1>1. TypeOK
  <2>1. sent \in [Bodies -> SUBSET Representation] /\ status \in [Bodies -> Statuses]
    BY DEF Init, Statuses
  <2>2. disk \in [Bodies -> [Gens -> [Nodes -> File]]]
    BY DEF Init, File
  <2>3. /\ members \in [0 .. MaxReplaced -> SUBSET Nodes] /\ replaced \in 0 .. MaxReplaced
        /\ leader \in Nodes /\ up \subseteq Nodes /\ faults \in 0 .. MaxFaults
    BY GeometryAssumption, BoundAssumption DEF Init
  <2>4. view \in [Nodes -> [voters : SUBSET Nodes, gen : Gens]]
    BY Initials, GeometryAssumption DEF Init
  <2>5. /\ header \in [Bodies -> Allocation] /\ alloc \in [Bodies -> Allocation]
        /\ attempt \in [Bodies -> Attempt] /\ repair \in [Bodies -> Repair]
    BY Initials DEF Init
  <2> QED BY <2>1, <2>2, <2>3, <2>4, <2>5 DEF Init, TypeOK
<1>2. Sizes
  BY BoundAssumption DEF Init, Sizes, N
<1>3. Attempts /\ Repairs /\ Paced
  BY Initials DEF Init, Attempts, Repairs, Paced
<1>4. Traced /\ Backed
  BY DEF Init, Traced, Backed
<1> QED
  BY <1>1, <1>2, <1>3, <1>4 DEF IInv

\* stage sends every voter its representation, and has counted none yet.
LEMMA StageFacts ==
    ASSUME IInv, NEW b \in Bodies, NEW mode \in Modes, Stage(b, mode), UNCHANGED <<disk, status>>
    PROVE  /\ attempt' \in [Bodies -> Attempt] /\ sent' \in [Bodies -> SUBSET Representation]
           /\ Grown /\ Attempts'
<1> DEFINE s == view[leader]
           a == [phase |-> "staging", gen |-> s.gen, mode |-> mode, voters |-> s.voters, durable |-> {}]
           new == {[gen |-> s.gen, mode |-> mode, voters |-> s.voters, to |-> v] : v \in s.voters}
<1>1. s.gen \in Gens /\ s.voters \subseteq Nodes /\ Cardinality(s.voters) = N
  BY DEF IInv, TypeOK, Sizes
<1>2. attempt' = [attempt EXCEPT ![b] = a] /\ sent' = [sent EXCEPT ![b] = @ \cup new]
  BY DEF Stage
<1>3. a \in Attempt /\ new \subseteq Representation
  BY <1>1 DEF Attempt, Representation
<1>4. /\ a.phase = "staging" /\ a.durable = {} /\ a.voters = s.voters
      /\ \A v \in a.voters : [gen |-> a.gen, mode |-> a.mode, voters |-> a.voters, to |-> v] \in new
  OBVIOUS
<1> HIDE DEF s, a, new
<1>5. /\ attempt' \in [Bodies -> Attempt] /\ sent' \in [Bodies -> SUBSET Representation]
      /\ attempt'[b] = a /\ sent'[b] = sent[b] \cup new
      /\ \A c \in Bodies \ {b} : attempt'[c] = attempt[c] /\ sent'[c] = sent[c]
  BY <1>2, <1>3 DEF IInv, TypeOK
<1>6. Grown
  BY <1>5 DEF Grown
<1>7. Attempts'
  <2> SUFFICES ASSUME NEW c \in Bodies, attempt'[c].phase # "idle"
               PROVE  /\ Cardinality(attempt'[c].voters) = N
                      /\ attempt'[c].durable \subseteq attempt'[c].voters
                      /\ attempt'[c].phase # "staging" =>
                             Cardinality(attempt'[c].durable) = Required(attempt'[c].mode)
                      /\ \A v \in attempt'[c].voters :
                             [gen |-> attempt'[c].gen, mode |-> attempt'[c].mode,
                              voters |-> attempt'[c].voters, to |-> v] \in sent'[c]
                      /\ status[c] = "new" =>
                             \A v \in attempt'[c].durable : disk[c][attempt'[c].gen][v] # "None"
    BY DEF Attempts
  <2>1. CASE c = b
    BY <1>1, <1>4, <1>5, <2>1
  <2>2. CASE c # b
    BY <1>5, <2>2 DEF IInv, Attempts
  <2> QED BY <2>1, <2>2
<1> QED
  BY <1>5, <1>6, <1>7

\* A call begins, or falls back to complete copies.
LEMMA StageStartIInv ==
    ASSUME IInv, NEW b \in Bodies, StageStart(b) \/ FallBack(b)
    PROVE  IInv'
<1>1. PICK mode \in Modes : Stage(b, mode)
  BY DEF StageStart, FallBack, FirstMode, Modes
<1>2. /\ UNCHANGED <<members, replaced, leader, view, up, disk, status, header, alloc,
                     target, todo, repair, halted>>
      /\ faults' \in 0 .. MaxFaults
  BY BoundAssumption DEF StageStart, FallBack, raftVars, bodyVars, replaceVars, Fault, IInv, TypeOK
<1>3. /\ attempt' \in [Bodies -> Attempt] /\ sent' \in [Bodies -> SUBSET Representation]
      /\ Grown /\ Attempts'
  BY <1>1, <1>2, StageFacts
<1>4. TypeOK'
  BY <1>2, <1>3 DEF IInv, TypeOK
<1>5. Traced' /\ Kept
  BY <1>2, <1>3, TracedKept
<1> QED
  BY <1>2, <1>3, <1>4, <1>5, BackedKept, RepairsKept, PacedKept DEF IInv

\* A store of a call under way.
LEMMA StageStoreIInv ==
    ASSUME IInv, NEW b \in Bodies, NEW v \in Nodes, StageStore(b, v)
    PROVE  IInv'
<1> DEFINE a == attempt[b]
<1>1. /\ a.phase = "staging" /\ v \in a.voters
      /\ disk' = [disk EXCEPT ![b] = Put(disk[b], a.gen, {v}, a.mode)]
      /\ attempt' = [attempt EXCEPT ![b].durable = @ \cup {v}]
      /\ UNCHANGED <<members, replaced, leader, view, up, sent, status, header, alloc,
                     target, todo, repair, halted, faults>>
  BY DEF StageStore, raftVars, bodyVars, replaceVars, IInv, TypeOK
<1>2. a \in Attempt /\ a.gen \in Gens /\ a.mode \in Modes /\ a.voters \subseteq Nodes
  BY DEF IInv, TypeOK, Attempt
<1>3. /\ Cardinality(a.voters) = N /\ a.durable \subseteq a.voters
      /\ \A w \in a.voters : [gen |-> a.gen, mode |-> a.mode, voters |-> a.voters, to |-> w] \in sent[b]
      /\ status[b] = "new" => \A w \in a.durable : disk[b][a.gen][w] # "None"
  BY <1>1 DEF IInv, Attempts
<1>4. Grown
  BY <1>1 DEF Grown
<1>5. \E r \in sent'[b] : r.gen = a.gen /\ r.to = v /\ r.mode = a.mode
  BY <1>1, <1>3
<1>6. /\ attempt' \in [Bodies -> Attempt]
      /\ \A c \in Bodies \ {b} : attempt'[c] = attempt[c]
      /\ attempt'[b].phase = "staging" /\ attempt'[b].gen = a.gen /\ attempt'[b].mode = a.mode
      /\ attempt'[b].voters = a.voters
      /\ attempt'[b].durable = a.durable \cup {v}
  BY <1>1, <1>2 DEF IInv, TypeOK, Attempt
<1> HIDE DEF a
<1>7. /\ disk' \in [Bodies -> [Gens -> [Nodes -> File]]]
      /\ disk'[b][a.gen][v] # "None" /\ Traced' /\ Kept
  <2>1. a.gen \in Gens /\ a.mode \in Modes /\ disk' = [disk EXCEPT ![b] = Put(disk[b], a.gen, {v}, a.mode)]
    BY <1>1, <1>2
  <2> QED BY <1>4, <1>5, <2>1, Written, Zenon
<1>8. TypeOK'
  BY <1>1, <1>6, <1>7 DEF IInv, TypeOK
<1>9. Attempts'
  <2> SUFFICES ASSUME NEW c \in Bodies, attempt'[c].phase # "idle"
               PROVE  /\ Cardinality(attempt'[c].voters) = N
                      /\ attempt'[c].durable \subseteq attempt'[c].voters
                      /\ attempt'[c].phase # "staging" =>
                             Cardinality(attempt'[c].durable) = Required(attempt'[c].mode)
                      /\ \A w \in attempt'[c].voters :
                             [gen |-> attempt'[c].gen, mode |-> attempt'[c].mode,
                              voters |-> attempt'[c].voters, to |-> w] \in sent[c]
                      /\ status[c] = "new" =>
                             \A w \in attempt'[c].durable : disk'[c][attempt'[c].gen][w] # "None"
    BY <1>1 DEF Attempts
  <2>1. CASE c = b
    <3>1. status[b] = "new" => \A w \in a.durable \cup {v} : disk'[b][a.gen][w] # "None"
      BY <1>2, <1>3, <1>7 DEF Kept
    <3>2. a.durable \cup {v} \subseteq a.voters
      BY <1>1, <1>3
    <3> QED BY <1>3, <1>6, <2>1, <3>1, <3>2
  <2>2. CASE c # b
    <3>1. attempt[c].gen \in Gens /\ attempt[c].durable \subseteq Nodes
      BY DEF IInv, TypeOK, Attempt
    <3>2. attempt'[c] = attempt[c]
      BY <1>6, <2>2
    <3>3. /\ Cardinality(attempt[c].voters) = N
          /\ attempt[c].durable \subseteq attempt[c].voters
          /\ attempt[c].phase # "staging" =>
                 Cardinality(attempt[c].durable) = Required(attempt[c].mode)
          /\ \A w \in attempt[c].voters :
                 [gen |-> attempt[c].gen, mode |-> attempt[c].mode,
                  voters |-> attempt[c].voters, to |-> w] \in sent[c]
          /\ status[c] = "new" =>
                 \A w \in attempt[c].durable : disk[c][attempt[c].gen][w] # "None"
      BY <3>2 DEF IInv, Attempts
    <3>4. status[c] = "new" => \A w \in attempt[c].durable : disk'[c][attempt[c].gen][w] # "None"
      BY <1>7, <3>1, <3>3 DEF Kept
    <3> QED BY <3>2, <3>3, <3>4
  <2> QED BY <2>1, <2>2
<1> QED
  BY <1>1, <1>7, <1>8, <1>9, BackedKept, RepairsKept, PacedKept DEF IInv

\* A late store writes what was sent, over a file or none.
LEMMA LateStoreIInv ==
    ASSUME IInv, NEW b \in Bodies, NEW r \in sent[b], LateStore(b, r)
    PROVE  IInv'
<1>1. /\ disk' = [disk EXCEPT ![b] = Put(disk[b], r.gen, {r.to}, r.mode)]
      /\ UNCHANGED <<members, replaced, leader, view, up, sent, status, header, alloc, attempt,
                     target, todo, repair, halted>>
      /\ faults' \in 0 .. MaxFaults
  BY BoundAssumption DEF LateStore, raftVars, bodyVars, replaceVars, Fault, IInv, TypeOK
<1>2. r.gen \in Gens /\ r.to \in Nodes /\ r.mode \in Modes
  BY DEF IInv, TypeOK, Representation
<1>3. Grown /\ \E x \in sent'[b] : x.gen = r.gen /\ x.to = r.to /\ x.mode = r.mode
  BY <1>1 DEF Grown
<1>4. disk' \in [Bodies -> [Gens -> [Nodes -> File]]] /\ Traced' /\ Kept
  BY <1>1, <1>2, <1>3, Written
<1>5. TypeOK'
  BY <1>1, <1>4 DEF IInv, TypeOK
<1> QED
  BY <1>1, <1>3, <1>4, <1>5, AttemptsKept, BackedKept, RepairsKept, PacedKept DEF IInv

\* A certificate forms from as many holders as its mode requires; a call that
\* ends leaves its files.
LEMMA CallEndsIInv ==
    ASSUME IInv, NEW b \in Bodies, Certify(b) \/ StageFails(b) \/ SealAttempt(b)
    PROVE  IInv'
<1>1. UNCHANGED <<members, replaced, leader, view, up, disk, sent, status, header, alloc,
                  target, todo, repair, halted, faults>>
  BY DEF Certify, StageFails, SealAttempt, raftVars, bodyVars, replaceVars
<1>2. Grown
  BY <1>1 DEF Grown
<1>3. Traced' /\ Kept
  BY <1>1, <1>2, TracedKept
<1>4. attempt' \in [Bodies -> Attempt] /\ Attempts'
  <2>1. CASE attempt' = [attempt EXCEPT ![b] = Idle]
    <3>1. /\ attempt' \in [Bodies -> Attempt] /\ attempt'[b].phase = "idle"
          /\ \A c \in Bodies \ {b} : attempt'[c] = attempt[c]
      BY <2>1, Initials DEF IInv, TypeOK
    <3> QED BY <1>1, <3>1 DEF IInv, Attempts
  <2>2. CASE Certify(b)
    <3>1. /\ attempt[b].phase = "staging"
          /\ Cardinality(attempt[b].durable) = Required(attempt[b].mode)
          /\ attempt' = [attempt EXCEPT ![b].phase = "certified"]
      BY <2>2 DEF Certify
    <3>2. /\ attempt' \in [Bodies -> Attempt]
          /\ attempt'[b].gen = attempt[b].gen /\ attempt'[b].mode = attempt[b].mode
          /\ attempt'[b].voters = attempt[b].voters /\ attempt'[b].durable = attempt[b].durable
          /\ \A c \in Bodies \ {b} : attempt'[c] = attempt[c]
      BY <3>1 DEF IInv, TypeOK, Attempt
    <3> QED BY <1>1, <3>1, <3>2 DEF IInv, Attempts
  <2> QED BY <2>1, <2>2 DEF StageFails, SealAttempt
<1>5. TypeOK'
  BY <1>1, <1>4 DEF IInv, TypeOK
<1> QED
  BY <1>1, <1>3, <1>4, <1>5, BackedKept, RepairsKept, PacedKept DEF IInv

\* The first header of a body takes its certificate; a later one is a Duplicate.
LEMMA CommitIInv ==
    ASSUME IInv, NEW b \in Bodies, Commit(b)
    PROVE  IInv'
<1> DEFINE a == Certificate(attempt[b])
<1>1. /\ attempt[b].phase = "certified"
      /\ attempt' = [attempt EXCEPT ![b].phase = "applied"]
      /\ UNCHANGED <<members, replaced, leader, view, up, disk, sent, target, todo, repair, halted, faults>>
  BY DEF Commit, raftVars, replaceVars
<1>2. /\ attempt' \in [Bodies -> Attempt]
      /\ attempt'[b].phase = "applied"
      /\ attempt'[b].gen = attempt[b].gen /\ attempt'[b].mode = attempt[b].mode
      /\ attempt'[b].voters = attempt[b].voters /\ attempt'[b].durable = attempt[b].durable
      /\ \A c \in Bodies \ {b} : attempt'[c] = attempt[c]
  BY <1>1 DEF IInv, TypeOK, Attempt
<1>3. Grown
  BY <1>1 DEF Grown
<1>4. Traced' /\ Kept
  BY <1>1, <1>3, TracedKept
<1>5. /\ a \in Allocation /\ a.gen = attempt[b].gen /\ a.mode = attempt[b].mode
      /\ a.voters = attempt[b].voters /\ a.holders = attempt[b].durable
  BY DEF IInv, TypeOK, Attempt, Allocation, Certificate
<1>6. CASE status[b] # "new"
  <2>1. UNCHANGED <<status, header, alloc>>
    BY <1>6 DEF Commit, bodyVars
  <2>2. TypeOK'
    BY <1>1, <1>2, <2>1 DEF IInv, TypeOK
  <2>3. Attempts'
    BY <1>1, <1>2, <2>1 DEF IInv, Attempts
  <2> QED BY <1>1, <1>4, <2>1, <2>2, <2>3, BackedKept, RepairsKept, PacedKept DEF IInv
<1>7. CASE status[b] = "new"
  <2>1. /\ status' = [status EXCEPT ![b] = "committed"]
        /\ header' = [header EXCEPT ![b] = a]
        /\ alloc' = [alloc EXCEPT ![b] = a]
    BY <1>7 DEF Commit
  <2>2. /\ Cardinality(a.voters) = N /\ a.holders \subseteq a.voters
        /\ Cardinality(a.holders) = Required(a.mode)
        /\ \A v \in a.holders : disk[b][a.gen][v] # "None"
    BY <1>1, <1>5, <1>7 DEF IInv, Attempts
  <2>3. Required(a.mode) >= Required(a.mode)
    <3>1. Required(a.mode) \in Int
      BY Geometry DEF Required
    <3> QED BY <3>1
  <2> HIDE DEF a
  <2>4. /\ status' \in [Bodies -> Statuses] /\ header' \in [Bodies -> Allocation]
        /\ alloc' \in [Bodies -> Allocation]
        /\ status'[b] = "committed" /\ alloc'[b] = a
        /\ \A c \in Bodies \ {b} : status'[c] = status[c] /\ alloc'[c] = alloc[c]
    BY <1>5, <2>1 DEF IInv, TypeOK, Statuses
  <2>5. TypeOK'
    BY <1>1, <1>2, <2>4 DEF IInv, TypeOK
  <2>6. b \notin todo /\ repair[b].phase = "idle"
    BY <1>7 DEF IInv, Paced
  <2>7. Sizes' /\ Paced'
    <3>1. todo \subseteq Bodies
      BY DEF IInv, TypeOK
    <3>2. \A c \in todo : status'[c] # "new"
      BY <2>4, <2>6, <3>1 DEF IInv, Paced
    <3>3. UNCHANGED voters
      BY <1>1 DEF voters
    <3>4. Paced'
      BY <1>1, <3>2, <3>3 DEF IInv, Paced
    <3> QED BY <1>1, <3>4 DEF IInv, Sizes
  <2>8. Attempts'
    BY <1>1, <1>2, <2>4 DEF IInv, Attempts
  <2>9. Repairs'
    BY <1>1, <2>4, <2>6 DEF IInv, Repairs, RepairGen
  <2>10. Backed'
    BY <1>1, <2>2, <2>3, <2>4 DEF IInv, Backed
  <2> QED BY <1>4, <2>5, <2>7, <2>8, <2>9, <2>10 DEF IInv
<1> QED
  BY <1>6, <1>7

\* A replacement starts with every listed body still to be moved.
LEMMA ReplaceStartIInv ==
    ASSUME IInv, NEW old \in Nodes, NEW new \in Nodes, ReplaceStart(old, new)
    PROVE  IInv'
<1>1. /\ target = {} /\ old \in voters /\ new \notin voters /\ replaced < MaxReplaced
      /\ target' = (voters \ {old}) \cup {new}
      /\ todo' = Listed
      /\ UNCHANGED <<members, replaced, leader, view, up, disk, sent, status, header, alloc,
                     attempt, repair, halted, faults>>
  BY DEF ReplaceStart, raftVars, bodyVars
<1>2. voters \subseteq Nodes /\ Cardinality(voters) = N
  BY BoundAssumption DEF IInv, TypeOK, Sizes, voters
<1>3. Cardinality(target') = N /\ target' \subseteq Nodes /\ target' # {} /\ target' # voters
  <2>1. voters \in SUBSET Nodes /\ old \in voters /\ new \in Nodes \ voters
    BY <1>1, <1>2
  <2>2. target' = (voters \ {old}) \cup {new}
    BY <1>1
  <2>3. Cardinality(target') = Cardinality(voters) /\ target' \subseteq Nodes /\ target' # {} /\ target' # voters
    BY <2>1, <2>2, OneReplaced
  <2> QED BY <1>2, <2>3
<1>4. TypeOK'
  BY <1>1, <1>3 DEF IInv, TypeOK, Listed
<1>5. todo = {} /\ \A b \in Bodies : repair[b].phase = "idle"
  BY <1>1 DEF IInv, Paced
<1>6. Sizes' /\ Paced' /\ Repairs'
  BY <1>1, <1>3, <1>5 DEF IInv, Sizes, Paced, Repairs, Listed, voters
<1>7. Grown
  BY <1>1 DEF Grown
<1>8. Traced' /\ Kept
  BY <1>1, <1>7, TracedKept
<1> QED
  BY <1>1, <1>4, <1>6, <1>7, <1>8, AttemptsKept, BackedKept DEF IInv

\* A repair begins with nothing stored, and ends with its body moved.
LEMMA RepairEndsIInv ==
    ASSUME IInv, NEW b \in Bodies, RepairRead(b) \/ RepairSeal(b)
    PROVE  IInv'
<1>1. UNCHANGED <<members, replaced, leader, view, up, disk, sent, status, header, alloc, attempt,
                  target, halted, faults>>
  BY DEF RepairRead, RepairSeal, raftVars, bodyVars
<1>2. Grown
  BY <1>1 DEF Grown
<1>3. Traced' /\ Kept
  BY <1>1, <1>2, TracedKept
<1>4. TypeOK' /\ Sizes' /\ Paced' /\ Repairs'
  <2>1. CASE RepairRead(b)
    <3> DEFINE p == [phase |-> "storing", stored |-> {}]
    <3>1. /\ b \in todo /\ RepairGen(b) \in Gens /\ todo' = todo
          /\ repair' = [repair EXCEPT ![b] = p]
      BY <2>1 DEF RepairRead
    <3>2. p \in Repair /\ p.stored = {}
      BY DEF Repair
    <3> HIDE DEF p
    <3>3. /\ repair' \in [Bodies -> Repair] /\ repair'[b].stored = {}
          /\ \A c \in Bodies \ {b} : repair'[c] = repair[c]
      BY <3>1, <3>2 DEF IInv, TypeOK
    <3>4. TypeOK'
      BY <1>1, <3>1, <3>3 DEF IInv, TypeOK
    <3>5. Sizes' /\ Paced'
      BY <1>1, <3>1, <3>3 DEF IInv, Sizes, Paced, voters
    <3>6. Repairs'
      BY <1>1, <3>1, <3>3 DEF IInv, Repairs, RepairGen
    <3> QED BY <3>4, <3>5, <3>6
  <2>2. CASE RepairSeal(b)
    <3>1. repair' = [repair EXCEPT ![b] = NoRepair] /\ todo' = todo \ {b}
      BY <2>2 DEF RepairSeal
    <3>2. /\ repair' \in [Bodies -> Repair] /\ repair'[b].phase = "idle"
          /\ \A c \in Bodies \ {b} : repair'[c] = repair[c]
      BY <3>1, Initials DEF IInv, TypeOK
    <3>3. TypeOK'
      BY <1>1, <3>1, <3>2 DEF IInv, TypeOK
    <3>4. Sizes' /\ Paced'
      BY <1>1, <3>1, <3>2 DEF IInv, Sizes, Paced, voters
    <3>5. Repairs'
      BY <1>1, <3>2 DEF IInv, Repairs, RepairGen
    <3> QED BY <3>3, <3>4, <3>5
  <2> QED BY <2>1, <2>2
<1> QED
  BY <1>1, <1>2, <1>3, <1>4, AttemptsKept, BackedKept DEF IInv

\* A repair stores the body on one more target voter.
LEMMA RepairStoreIInv ==
    ASSUME IInv, NEW b \in Bodies, NEW v \in Nodes, RepairStore(b, v)
    PROVE  IInv'
<1> DEFINE g == RepairGen(b)
           m == alloc[b].mode
           rep == Repaired(b, v)
<1>1. /\ repair[b].phase = "storing" /\ v \in target
      /\ disk' = [disk EXCEPT ![b] = Put(disk[b], g, {v}, m)]
      /\ sent' = [sent EXCEPT ![b] = @ \cup {rep}]
      /\ repair' = [repair EXCEPT ![b].stored = @ \cup {v}]
      /\ UNCHANGED <<members, replaced, leader, view, up, status, header, alloc, attempt,
                     target, todo, halted, faults>>
  BY DEF RepairStore, raftVars, bodyVars, IInv, TypeOK
<1>2. g \in Gens /\ m \in Modes /\ target \subseteq Nodes /\ repair[b].stored \subseteq target
      /\ (status[b] = "committed" => \A w \in repair[b].stored : disk[b][g][w] # "None")
  BY <1>1 DEF IInv, TypeOK, Repairs, Allocation
<1>3. rep \in Representation /\ rep.gen = g /\ rep.to = v /\ rep.mode = m
  BY <1>2 DEF Repaired, Representation
<1> HIDE DEF g, m, rep
<1>4. sent' \in [Bodies -> SUBSET Representation] /\ Grown /\ rep \in sent'[b]
  BY <1>1, <1>3 DEF IInv, TypeOK, Grown
<1>5. /\ disk' \in [Bodies -> [Gens -> [Nodes -> File]]]
      /\ disk'[b][g][v] # "None" /\ Traced' /\ Kept
  <2>1. \E r \in sent'[b] : r.gen = g /\ r.to = v /\ r.mode = m
    BY <1>3, <1>4
  <2>2. disk' = [disk EXCEPT ![b] = Put(disk[b], g, {v}, m)] /\ g \in Gens /\ m \in Modes /\ Grown
    BY <1>1, <1>2, <1>4
  <2> QED BY <2>1, <2>2, Written
<1>6. /\ repair' \in [Bodies -> Repair]
      /\ repair'[b].phase = "storing" /\ repair'[b].stored = repair[b].stored \cup {v}
      /\ \A c \in Bodies \ {b} : repair'[c] = repair[c]
  BY <1>1 DEF IInv, TypeOK, Repair
<1>7. TypeOK'
  BY <1>1, <1>4, <1>5, <1>6 DEF IInv, TypeOK
<1>8. Sizes' /\ Paced'
  BY <1>1, <1>6 DEF IInv, Sizes, Paced, voters
<1>9. Repairs'
  <2> SUFFICES ASSUME NEW c \in Bodies, repair'[c].phase = "storing"
               PROVE  /\ RepairGen(c) \in Gens
                      /\ repair'[c].stored \subseteq target
                      /\ status[c] = "committed" =>
                             \A w \in repair'[c].stored : disk'[c][RepairGen(c)][w] # "None"
    BY <1>1 DEF Repairs, RepairGen
  <2>1. CASE c = b
    <3>1. status[b] = "committed" => \A w \in repair[b].stored \cup {v} : disk'[b][g][w] # "None"
      BY <1>2, <1>5 DEF Kept
    <3>2. repair[b].stored \cup {v} \subseteq target
      BY <1>1, <1>2
    <3> QED BY <1>2, <1>6, <2>1, <3>1, <3>2 DEF g
  <2>2. CASE c # b
    <3>1. repair[c].stored \subseteq Nodes
      BY DEF IInv, TypeOK, Repair
    <3> QED BY <1>5, <1>6, <2>2, <3>1 DEF IInv, Repairs, Kept
  <2> QED BY <2>1, <2>2
<1> QED
  BY <1>1, <1>4, <1>5, <1>7, <1>8, <1>9, AttemptsKept, BackedKept DEF IInv

\* The Repair command names every target voter, all of which have stored.
LEMMA RepairCommitIInv ==
    ASSUME IInv, NEW b \in Bodies, RepairCommit(b)
    PROVE  IInv'
<1> DEFINE a == [gen |-> RepairGen(b), mode |-> alloc[b].mode, voters |-> target, holders |-> target]
<1>1. /\ repair[b].phase = "storing" /\ repair[b].stored = target
      /\ UNCHANGED <<members, replaced, leader, view, up, disk, sent, status, header, attempt,
                     target, todo, faults>>
  BY DEF RepairCommit, raftVars
<1>2. halted' \in BOOLEAN
  BY DEF RepairCommit, IInv, TypeOK
<1>3. Grown
  BY <1>1 DEF Grown
<1>4. Traced' /\ Kept
  BY <1>1, <1>3, TracedKept
<1>5. CASE status[b] = "released"
  <2>1. UNCHANGED <<alloc, repair>>
    BY <1>5 DEF RepairCommit
  <2>2. TypeOK'
    BY <1>1, <1>2, <2>1 DEF IInv, TypeOK
  <2> QED BY <1>1, <1>3, <1>4, <2>1, <2>2, AttemptsKept, BackedKept, RepairsKept, PacedKept DEF IInv
<1>6. CASE status[b] # "released"
  <2>1. alloc' = [alloc EXCEPT ![b] = a] /\ repair' = [repair EXCEPT ![b].phase = "sealing"]
    BY <1>6 DEF RepairCommit, IInv, TypeOK
  <2>2. /\ RepairGen(b) \in Gens /\ alloc[b].mode \in Modes /\ target \subseteq Nodes
        /\ target # {} /\ Cardinality(target) = N
    BY <1>1 DEF IInv, TypeOK, Repairs, Allocation, Paced, Sizes
  <2>3. /\ a \in Allocation /\ a.gen = RepairGen(b) /\ a.mode = alloc[b].mode
        /\ a.voters = target /\ a.holders = target
    BY <2>2 DEF Allocation
  <2>4. status[b] = "committed" =>
            /\ Cardinality(a.holders) >= Required(a.mode)
            /\ \A v \in a.holders : disk[b][a.gen][v] # "None"
    <3> SUFFICES ASSUME status[b] = "committed"
                 PROVE  /\ Cardinality(target) >= Required(alloc[b].mode)
                        /\ \A v \in target : disk[b][RepairGen(b)][v] # "None"
      BY <2>3
    <3>1. \A v \in target : disk[b][RepairGen(b)][v] # "None"
      BY <1>1 DEF IInv, Repairs
    <3>2. /\ Cardinality(alloc[b].voters) = N /\ alloc[b].holders \subseteq alloc[b].voters
          /\ Cardinality(alloc[b].holders) >= Required(alloc[b].mode)
          /\ alloc[b].voters \subseteq Nodes
      BY DEF IInv, Backed, TypeOK, Allocation
    <3>3. Cardinality(alloc[b].holders) <= N /\ Cardinality(alloc[b].holders) \in Nat
      BY <3>2, GeometryAssumption, FS_Subset, FS_CardinalityType
    <3>4. Required(alloc[b].mode) \in Int
      BY Geometry DEF Required
    <3> QED BY <2>2, <3>1, <3>2, <3>3, <3>4, Geometry
  <2> HIDE DEF a
  <2>5. /\ alloc' \in [Bodies -> Allocation] /\ alloc'[b] = a
        /\ \A c \in Bodies \ {b} : alloc'[c] = alloc[c]
    BY <2>1, <2>3 DEF IInv, TypeOK
  <2>6. /\ repair' \in [Bodies -> Repair] /\ repair'[b].phase = "sealing"
        /\ \A c \in Bodies \ {b} : repair'[c] = repair[c]
    BY <2>1 DEF IInv, TypeOK, Repair
  <2>7. TypeOK'
    BY <1>1, <1>2, <2>5, <2>6 DEF IInv, TypeOK
  <2>8. Sizes' /\ Paced'
    BY <1>1, <2>6 DEF IInv, Sizes, Paced, voters
  <2>9. Repairs'
    BY <1>1, <2>5, <2>6 DEF IInv, Repairs, RepairGen
  <2>10. Backed'
    <3> SUFFICES ASSUME NEW c \in Bodies, status[c] = "committed"
                 PROVE  /\ Cardinality(alloc'[c].voters) = N
                        /\ alloc'[c].holders \subseteq alloc'[c].voters
                        /\ Cardinality(alloc'[c].holders) >= Required(alloc'[c].mode)
                        /\ \A v \in alloc'[c].holders : disk[c][alloc'[c].gen][v] # "None"
      BY <1>1 DEF Backed
    <3>1. CASE c = b
      BY <2>2, <2>3, <2>4, <2>5, <3>1
    <3>2. CASE c # b
      BY <2>5, <3>2 DEF IInv, Backed
    <3> QED BY <3>1, <3>2
  <2> QED BY <1>1, <1>3, <1>4, <2>7, <2>8, <2>9, <2>10, AttemptsKept DEF IInv
<1> QED
  BY <1>5, <1>6

\* A replacement that is given up may leave one more store on its way.
LEMMA AbandonFacts ==
    ASSUME IInv, Abandon
    PROVE  /\ target' = {} /\ todo' = {} /\ repair' \in [Bodies -> Repair]
           /\ \A b \in Bodies : repair'[b].phase = "idle"
           /\ sent' \in [Bodies -> SUBSET Representation] /\ Grown
<1>1. target' = {} /\ todo' = {} /\ repair' = [b \in Bodies |-> NoRepair]
  BY DEF Abandon
<1>2. sent' \in [Bodies -> SUBSET Representation] /\ Grown
  <2>1. CASE UNCHANGED sent
    BY <2>1 DEF IInv, TypeOK, Grown
  <2>2. CASE ~UNCHANGED sent
    <3>1. PICK b \in Bodies, v \in target :
              repair[b].phase = "storing" /\ sent' = [sent EXCEPT ![b] = @ \cup {Repaired(b, v)}]
      BY <2>2 DEF Abandon
    <3>2. RepairGen(b) \in Gens /\ alloc[b].mode \in Modes /\ target \subseteq Nodes
      BY <3>1 DEF IInv, TypeOK, Repairs, Allocation
    <3>3. Repaired(b, v) \in Representation
      BY <3>2 DEF Repaired, Representation
    <3> QED BY <3>1, <3>3 DEF IInv, TypeOK, Grown
  <2> QED BY <2>1, <2>2
<1> QED
  BY <1>1, <1>2, Initials

\* The refresh after a replacement, in two steps on the leader.
LEMMA RefreshIInv ==
    ASSUME IInv, RefreshVoters \/ RefreshGeneration
    PROVE  IInv'
<1>1. /\ target # {} /\ voters = target /\ target' \in {target, {}}
      /\ UNCHANGED <<members, replaced, leader, up, disk, sent, status, header, alloc, attempt,
                     todo, repair, halted, faults>>
  BY DEF RefreshVoters, RefreshGeneration, bodyVars, replaceVars
<1>2. target \subseteq Nodes /\ Cardinality(target) = N /\ Config(replaced) \in Gens
  BY <1>1, ConfigGens DEF IInv, TypeOK, Sizes
<1>3. todo = {} /\ \A b \in Bodies : repair[b].phase = "idle"
  BY <1>1 DEF IInv, Paced
<1>4. /\ view' \in [Nodes -> [voters : SUBSET Nodes, gen : Gens]]
      /\ \A n \in Nodes : Cardinality(view'[n].voters) = N
  <2>1. CASE RefreshVoters
    <3>1. view' = [view EXCEPT ![leader].voters = target]
      BY <2>1 DEF RefreshVoters
    <3>2. view[leader].gen \in Gens /\ leader \in Nodes
      BY DEF IInv, TypeOK
    <3>3. view' = [view EXCEPT ![leader] = [voters |-> target, gen |-> view[leader].gen]]
      <4>1. [view[leader] EXCEPT !.voters = target] = [voters |-> target, gen |-> view[leader].gen]
        BY <3>2 DEF IInv, TypeOK
      <4> QED BY <3>1, <3>2, <4>1 DEF IInv, TypeOK
    <3> QED BY <1>2, <3>2, <3>3 DEF IInv, TypeOK, Sizes
  <2>2. CASE RefreshGeneration
    <3>1. view' = [view EXCEPT ![leader].gen = Config(replaced)]
      BY <2>2 DEF RefreshGeneration
    <3>2. view[leader].voters \subseteq Nodes /\ Cardinality(view[leader].voters) = N /\ leader \in Nodes
      BY DEF IInv, TypeOK, Sizes
    <3>3. view' = [view EXCEPT ![leader] = [voters |-> view[leader].voters, gen |-> Config(replaced)]]
      <4>1. [view[leader] EXCEPT !.gen = Config(replaced)]
              = [voters |-> view[leader].voters, gen |-> Config(replaced)]
        BY <3>2 DEF IInv, TypeOK
      <4> QED BY <3>1, <3>2, <4>1 DEF IInv, TypeOK
    <3> QED BY <1>2, <3>2, <3>3 DEF IInv, TypeOK, Sizes
  <2> QED BY <2>1, <2>2
<1>5. TypeOK'
  BY <1>1, <1>2, <1>4 DEF IInv, TypeOK
<1>6. Sizes' /\ Paced' /\ Repairs'
  BY <1>1, <1>2, <1>3, <1>4 DEF IInv, Sizes, Paced, Repairs, voters
<1>7. Grown
  BY <1>1 DEF Grown
<1>8. Traced' /\ Kept
  BY <1>1, <1>7, TracedKept
<1> QED
  BY <1>1, <1>5, <1>6, <1>7, <1>8, AttemptsKept, BackedKept DEF IInv

\* The new voters are committed; they are as many as the old ones.
LEMMA ChangeMembershipIInv ==
    ASSUME IInv, ChangeMembership
    PROVE  IInv'
<1>1. /\ target # {} /\ voters # target /\ todo = {}
      /\ members' = [members EXCEPT ![replaced + 1] = target] /\ replaced' = replaced + 1
      /\ UNCHANGED <<leader, view, up, disk, sent, status, header, alloc, attempt,
                     target, todo, repair, halted, faults>>
  BY DEF ChangeMembership, bodyVars, replaceVars
<1>2. replaced + 1 \in 0 .. MaxReplaced /\ replaced \in Nat
  BY <1>1, BoundAssumption DEF IInv, TypeOK, Paced
<1>3. /\ members' \in [0 .. MaxReplaced -> SUBSET Nodes] /\ members'[replaced + 1] = target
      /\ \A r \in 0 .. replaced : members'[r] = members[r]
  BY <1>1, <1>2 DEF IInv, TypeOK
<1>4. TypeOK'
  BY <1>1, <1>2, <1>3 DEF IInv, TypeOK
<1>5. Cardinality(target) = N
  BY <1>1 DEF IInv, Sizes
<1>6. Sizes'
  <2>1. \A r \in 0 .. replaced' : r = replaced + 1 \/ r \in 0 .. replaced
    BY <1>1, <1>2
  <2> QED BY <1>1, <1>3, <1>5, <2>1 DEF IInv, Sizes
<1>7. Paced'
  BY <1>1, <1>3 DEF IInv, Paced, voters
<1>8. Grown
  BY <1>1 DEF Grown
<1>9. Traced' /\ Kept
  BY <1>1, <1>8, TracedKept
<1> QED
  BY <1>1, <1>4, <1>6, <1>7, <1>8, <1>9, AttemptsKept, BackedKept, RepairsKept DEF IInv

\* A body whose release has begun is no longer one that must be readable.
LEMMA ReleaseIInv ==
    ASSUME IInv, NEW b \in Bodies, Release(b)
    PROVE  IInv'
<1>1. /\ status[b] \in {"committed", "releasing"}
      /\ status' = [status EXCEPT ![b] = "releasing"]
      /\ UNCHANGED <<members, replaced, leader, view, up, sent, header, alloc, attempt,
                     target, todo, repair, halted, faults>>
  BY DEF Release, raftVars, replaceVars
<1>2. \A files \in Files, a \in Allocation :
          /\ Without(files, a) \in Files
          /\ \A h \in Gens, v \in Nodes : Without(files, a)[h][v] \in {files[h][v], "None"}
  <2> TAKE files \in Files, a \in Allocation
  <2>1. a.gen \in Gens /\ "None" \in File
    BY DEF Allocation, File
  <2> QED BY <2>1, PutFacts DEF Without
<1>3. disk \in [Bodies -> Files] /\ header[b] \in Allocation /\ alloc[b] \in Allocation
  BY DEF IInv, TypeOK, Files
<1>4. PICK files \in Files :
          /\ disk' = [disk EXCEPT ![b] = files]
          /\ \A h \in Gens, v \in Nodes : files[h][v] \in {disk[b][h][v], "None"}
  <2> DEFINE one == Without(disk[b], header[b])
             two == Without(one, alloc[b])
  <2>1. disk' = [disk EXCEPT ![b] = one] \/ disk' = [disk EXCEPT ![b] = two]
    BY <1>3 DEF Release
  <2>2. one \in Files /\ \A h \in Gens, v \in Nodes : one[h][v] \in {disk[b][h][v], "None"}
    BY <1>2, <1>3
  <2> HIDE DEF one
  <2>3. two \in Files /\ \A h \in Gens, v \in Nodes : two[h][v] \in {one[h][v], "None"}
    BY <1>2, <1>3, <2>2
  <2>4. \A h \in Gens, v \in Nodes : two[h][v] \in {disk[b][h][v], "None"}
    BY <2>2, <2>3
  <2> HIDE DEF two
  <2> QED BY <2>1, <2>2, <2>3, <2>4
<1>5. /\ disk' \in [Bodies -> Files] /\ disk'[b] = files
      /\ status' \in [Bodies -> Statuses] /\ status'[b] = "releasing"
      /\ \A c \in Bodies \ {b} : disk'[c] = disk[c] /\ status'[c] = status[c]
  BY <1>1, <1>3, <1>4 DEF IInv, TypeOK, Statuses
<1>6. TypeOK'
  BY <1>1, <1>5 DEF IInv, TypeOK, Files
<1>7. Sizes' /\ Paced'
  BY <1>1, <1>5 DEF IInv, Sizes, Paced, voters
<1>8. Attempts' /\ Backed'
  BY <1>1, <1>5 DEF IInv, Attempts, Backed
<1>9. Repairs'
  BY <1>1, <1>5 DEF IInv, Repairs, RepairGen
<1>10. Traced'
  <2> SUFFICES ASSUME NEW c \in Bodies, NEW h \in Gens, NEW v \in Nodes, disk'[c][h][v] # "None"
               PROVE  \E r \in sent[c] : r.gen = h /\ r.to = v /\ r.mode = disk'[c][h][v]
    BY <1>1 DEF Traced
  <2>1. disk'[c][h][v] = disk[c][h][v]
    BY <1>4, <1>5
  <2> QED BY <2>1 DEF IInv, Traced
<1> QED
  BY <1>6, <1>7, <1>8, <1>9, <1>10 DEF IInv

\* The header of a body being released is compacted away.
LEMMA ReleaseHeaderIInv ==
    ASSUME IInv, NEW b \in Bodies, ReleaseHeader(b)
    PROVE  IInv'
<1>1. /\ status[b] = "releasing"
      /\ status' = [status EXCEPT ![b] = "released"]
      /\ UNCHANGED <<members, replaced, leader, view, up, disk, sent, header, alloc, attempt,
                     target, todo, repair, halted, faults>>
  BY DEF ReleaseHeader, raftVars, replaceVars
<1>2. /\ status' \in [Bodies -> Statuses] /\ status'[b] = "released"
      /\ \A c \in Bodies \ {b} : status'[c] = status[c]
  BY <1>1 DEF IInv, TypeOK, Statuses
<1>3. TypeOK'
  BY <1>1, <1>2 DEF IInv, TypeOK
<1>4. Sizes' /\ Paced'
  BY <1>1, <1>2 DEF IInv, Sizes, Paced, voters
<1>5. Attempts' /\ Backed'
  BY <1>1, <1>2 DEF IInv, Attempts, Backed
<1>6. Repairs'
  BY <1>1, <1>2 DEF IInv, Repairs, RepairGen
<1>7. Traced'
  BY <1>1 DEF IInv, Traced
<1> QED
  BY <1>3, <1>4, <1>5, <1>6, <1>7 DEF IInv

\* Aborts, elections, stops and returns lose handlers and no file.
LEMMA FailuresIInv ==
    ASSUME IInv, ReplaceAbort \/ \E n \in Nodes : Elect(n) \/ Stop(n) \/ Return(n)
    PROVE  IInv'
<1>1. /\ UNCHANGED <<members, replaced, disk, status, header, alloc, halted>>
      /\ faults' \in 0 .. MaxFaults /\ leader' \in Nodes /\ up' \subseteq Nodes
      /\ \/ UNCHANGED attempt
         \/ attempt' = [b \in Bodies |-> Idle]
      /\ \/ UNCHANGED <<sent, target, todo, repair>>
         \/ Abandon
  BY BoundAssumption DEF ReplaceAbort, Elect, Stop, Return, Fault, raftVars, bodyVars, replaceVars, IInv, TypeOK
<1>2. /\ view' \in [Nodes -> [voters : SUBSET Nodes, gen : Gens]]
      /\ \A n \in Nodes : Cardinality(view'[n].voters) = N
  <2>1. CASE UNCHANGED view
    BY <2>1 DEF IInv, TypeOK, Sizes
  <2>2. CASE ~UNCHANGED view
    <3>1. PICK v \in Nodes, i \in 0 .. replaced, j \in 0 .. replaced :
              view' = [view EXCEPT ![v] = [voters |-> members[i], gen |-> Config(j)]]
      BY <2>2 DEF ReplaceAbort, Elect, Stop, Return, raftVars
    <3>2. i \in 0 .. MaxReplaced /\ j \in 0 .. MaxReplaced
      BY BoundAssumption DEF IInv, TypeOK
    <3>3. Config(j) \in Gens /\ members[i] \subseteq Nodes /\ Cardinality(members[i]) = N
      BY <3>2, ConfigGens DEF IInv, TypeOK, Sizes
    <3> QED BY <3>1, <3>3 DEF IInv, TypeOK, Sizes
  <2> QED BY <2>1, <2>2
<1>3. /\ sent' \in [Bodies -> SUBSET Representation] /\ Grown
      /\ repair' \in [Bodies -> Repair] /\ target' \subseteq Nodes /\ todo' \subseteq Bodies
  BY <1>1, AbandonFacts DEF IInv, TypeOK, Grown
<1>4. attempt' \in [Bodies -> Attempt]
  BY <1>1, Initials DEF IInv, TypeOK
<1>5. TypeOK'
  BY <1>1, <1>2, <1>3, <1>4 DEF IInv, TypeOK
<1>6. Traced' /\ Kept
  BY <1>1, <1>3, TracedKept
<1>7. Attempts'
  <2>1. CASE UNCHANGED attempt
    BY <1>1, <1>3, <1>6, <2>1, AttemptsKept
  <2>2. CASE attempt' = [b \in Bodies |-> Idle]
    BY <2>2, Initials DEF Attempts
  <2> QED BY <1>1, <2>1, <2>2
<1>8. Repairs' /\ Paced' /\ Sizes'
  <2>1. CASE UNCHANGED <<sent, target, todo, repair>>
    <3>1. Repairs'
      BY <1>1, <1>6, <2>1, RepairsKept
    <3> QED BY <1>1, <1>2, <2>1, <3>1 DEF IInv, Sizes, Paced, voters
  <2>2. CASE Abandon
    <3>1. target' = {} /\ todo' = {} /\ \A b \in Bodies : repair'[b].phase = "idle"
      BY <2>2, AbandonFacts
    <3> QED BY <1>1, <1>2, <3>1 DEF IInv, Sizes, Paced, Repairs
  <2> QED BY <1>1, <2>1, <2>2
<1> QED
  BY <1>1, <1>5, <1>6, <1>7, <1>8, BackedKept DEF IInv

\* The invariant is inductive.
LEMMA NextIInv ==
    ASSUME IInv, [Next]_vars
    PROVE  IInv'
<1>1. CASE UNCHANGED vars
  <2>1. UNCHANGED <<members, replaced, leader, view, up, disk, sent, status, header, alloc, attempt,
                    target, todo, repair, halted, faults>>
    BY <1>1 DEF vars, raftVars, bodyVars, replaceVars
  <2>2. TypeOK' /\ Grown
    BY <2>1 DEF IInv, TypeOK, Grown
  <2>3. Traced' /\ Kept
    BY <2>1, <2>2, TracedKept
  <2> QED BY <2>1, <2>2, <2>3, AttemptsKept, BackedKept, RepairsKept, PacedKept DEF IInv
<1>2. CASE \E b \in Bodies : StageStart(b) \/ FallBack(b)
  BY <1>2, StageStartIInv
<1>3. CASE \E b \in Bodies, v \in Nodes : StageStore(b, v)
  BY <1>3, StageStoreIInv
<1>4. CASE \E b \in Bodies : \E r \in sent[b] : LateStore(b, r)
  BY <1>4, LateStoreIInv
<1>5. CASE \E b \in Bodies : Certify(b) \/ StageFails(b) \/ SealAttempt(b)
  BY <1>5, CallEndsIInv
<1>6. CASE \E b \in Bodies : Commit(b)
  BY <1>6, CommitIInv
<1>7. CASE \E old, new \in Nodes : ReplaceStart(old, new)
  BY <1>7, ReplaceStartIInv
<1>8. CASE \E b \in Bodies : RepairRead(b) \/ RepairSeal(b)
  BY <1>8, RepairEndsIInv
<1>9. CASE \E b \in Bodies, v \in Nodes : RepairStore(b, v)
  BY <1>9, RepairStoreIInv
<1>10. CASE \E b \in Bodies : RepairCommit(b)
  BY <1>10, RepairCommitIInv
<1>11. CASE RefreshVoters \/ RefreshGeneration
  BY <1>11, RefreshIInv
<1>12. CASE ChangeMembership
  BY <1>12, ChangeMembershipIInv
<1>13. CASE \E b \in Bodies : Release(b)
  BY <1>13, ReleaseIInv
<1>14. CASE \E b \in Bodies : ReleaseHeader(b)
  BY <1>14, ReleaseHeaderIInv
<1>15. CASE ReplaceAbort \/ \E n \in Nodes : Elect(n) \/ Stop(n) \/ Return(n)
  BY <1>15, FailuresIInv
<1> QED
  BY <1>1, <1>2, <1>3, <1>4, <1>5, <1>6, <1>7, <1>8, <1>9, <1>10, <1>11, <1>12, <1>13, <1>14, <1>15
     DEF Next

\* The inductive invariant holds in every reachable state.
THEOREM Invariance == Spec => []IInv
<1>1. Init => IInv
  BY InitIInv
<1>2. IInv /\ [Next]_vars => IInv'
  BY NextIInv
<1> QED
  BY <1>1, <1>2, PTL DEF Spec

\* Whichever N - Quorum voters of its allocation are lost, a committed body is
\* rebuilt from the others (payload.rs reconstruct), unless files of another
\* mode or of other voters were sent under its generation.
THEOREM Readability == Spec => []Readable
<1>1. IInv => Readable
  BY IInvReadable
<1> QED
  BY <1>1, Invariance, PTL

\* Every variable keeps its type.
THEOREM TypeCorrectness == Spec => []TypeOK
<1>1. IInv => TypeOK
  BY DEF IInv
<1> QED
  BY <1>1, Invariance, PTL
=============================================================================

------------------------ MODULE FragmentRepair_proofs ------------------------
(***************************************************************************)
(* Theorems about FragmentRepair, for every pod, geometry and number of     *)
(* passes, faults and restarts: the state keeps its type, the journal names *)
(* an index at most once, a propagated object stays clean, and an object    *)
(* that is neither propagated nor deleted stays readable through as many    *)
(* faults as its acknowledgement allows for.                                *)
(***************************************************************************)
EXTENDS FragmentRepair, FiniteSetTheorems, WellFoundedInduction, TLAPS

(* A list of placements that names no index twice. *)
Single(P) == \A f, g \in P : f[1] = g[1] => f = g

(* What a pass carries: the list it read and the one it is about to write   *)
(* name no index twice, and what it has yet to place is in neither's way.   *)
Carried ==
    \A p \in Passes :
      /\ Single(pass[p].read)
      /\ Single(pass[p].kept)
      /\ \A f \in pass[p].kept : f[1] \notin pass[p].todo

(* The stripe: one pass at a time writes, and while the journal exists it   *)
(* writes back the state that the journal is in.                            *)
Striped ==
    /\ \A p, q \in Passes : (pass[p].pc = "writing" /\ pass[q].pc = "writing") => p = q
    /\ \A p \in Passes : (pass[p].pc = "writing" /\ state # "absent") => pass[p].seen = state

(* An object that was cleaned up is not dirty, and no pass makes it so. *)
Ended ==
    /\ ending = "deleted" => removed
    /\ (~removed /\ ending \in {"clean", "gone"}) =>
         /\ state # "dirty"
         /\ \A p \in Passes : pass[p].pc = "writing" => pass[p].seen # "dirty"

(* The nodes of l from which a fragment that P places loads.  Faults are    *)
(* counted against nodes: a list may place two fragments on one node, which *)
(* go down together, but a fault never takes more than one node from it.    *)
Reach(P, s, l) == On({f \in P \cap s : f[2] \in l})

Enough(S, n) == Cardinality(S) + n >= W

(* The journal, and each list a pass may still write to it, is short of the *)
(* acknowledged W nodes by no more than the faults so far.                  *)
Wide ==
    (~removed /\ ending \in {"none", "propagated"}) =>
      /\ Enough(Reach(placements, stored, live), faults)
      /\ \A p \in Passes :
           /\ pass[p].pc = "scan" => Enough(Reach(pass[p].read, stored, live \cap pass[p].view), faults)
           /\ pass[p].pc \in {"place", "writing"} => Enough(Reach(pass[p].kept, stored, live), faults)

IInv == TypeOK /\ IndexOnce /\ Carried /\ Striped /\ Ended /\ Wide

-----------------------------------------------------------------------------
(* Lists of placements. *)

(* A part of a list that names no index twice does not either. *)
LEMMA SinglePart ==
    ASSUME NEW P, NEW Q, Single(P), Q \subseteq P
    PROVE  Single(Q)
BY DEF Single

(* Adding a placement of an index that the list does not name. *)
LEMMA SingleAdd ==
    ASSUME NEW P, NEW i, NEW n, Single(P), \A f \in P : f[1] # i
    PROVE  Single(P \cup {<<i, n>>})
BY DEF Single

(* The fragments that verify are among those the pass read, and none of     *)
(* them has an index that is lost.                                          *)
LEMMA HealthyFacts ==
    ASSUME NEW p \in Passes
    PROVE  /\ Healthy(p) \subseteq pass[p].read
           /\ \A f \in Healthy(p) : f[1] \notin Lost(p)
           /\ Lost(p) \subseteq Idx(pass[p].read)
<1>1. Healthy(p) \subseteq pass[p].read
  BY DEF Healthy, Loadable
<1>2. \A f \in Healthy(p) : f[1] \in Idx(Healthy(p))
  BY DEF Idx
<1> QED
  BY <1>1, <1>2 DEF Lost

(* Indices and nodes of placements. *)
LEMMA Parts ==
    ASSUME NEW P, P \subseteq Placements
    PROVE  Idx(P) \subseteq Indices /\ On(P) \subseteq Nodes
BY DEF Idx, On, Placements

(* The pass without a call has its type. *)
LEMMA IdlePassType == IdlePass \in PassType
BY DEF IdlePass, PassType

(* The next lost index is one of them. *)
LEMMA NextLostIn ==
    ASSUME NEW S, S \subseteq Indices, S # {}
    PROVE  NextLost(S) \in S
<1>1. S \subseteq Nat
  BY GeometryAssumption DEF Indices
<1>2. \E i \in S : \A j \in S : i <= j
  <2>1. \E i \in S : \A j \in S : <<j, i>> \notin OpToRel(<, Nat)
    BY <1>1, NatLessThanWellFounded, WFMin
  <2>2. ASSUME NEW i \in S, NEW j \in S, <<j, i>> \notin OpToRel(<, Nat)
        PROVE  i <= j
    BY <1>1, <2>2 DEF OpToRel
  <2> QED
    BY <2>1, <2>2
<1> QED
  BY <1>2 DEF NextLost

-----------------------------------------------------------------------------
(* Counting. *)

(* A list without a repeated index is finite, its nodes are no more than    *)
(* its indices.                                                             *)
LEMMA SingleFinite ==
    ASSUME NEW P, P \subseteq Placements, Single(P)
    PROVE  /\ IsFiniteSet(Idx(P)) /\ IsFiniteSet(On(P))
           /\ Cardinality(On(P)) <= Cardinality(Idx(P))
<1>1. IsFiniteSet(Indices)
  BY FS_Interval, GeometryAssumption DEF Indices
<1>2. IsFiniteSet(Idx(P))
  BY <1>1, Parts, FS_Subset
<1> DEFINE at == [i \in Idx(P) |-> CHOOSE n \in Nodes : <<i, n>> \in P]
<1>3. \A f \in P : f = <<f[1], f[2]>> /\ f[2] \in Nodes /\ f[1] \in Idx(P)
  BY DEF Placements, Idx
<1>4. ASSUME NEW f \in P
      PROVE  at[f[1]] = f[2]
  <2> DEFINE n == CHOOSE n \in Nodes : <<f[1], n>> \in P
  <2>1. n \in Nodes /\ <<f[1], n>> \in P
    BY <1>3
  <2>2. <<f[1], n>>[1] = f[1] /\ <<f[1], n>>[2] = n
    OBVIOUS
  <2> HIDE DEF n
  <2>3. <<f[1], n>> = f
    BY <2>1, <2>2 DEF Single
  <2>4. n = f[2]
    BY <2>2, <2>3
  <2> QED
    BY <1>3, <2>4 DEF n
<1>5. at \in [Idx(P) -> On(P)]
  <2>1. ASSUME NEW i \in Idx(P)
        PROVE  at[i] \in On(P)
    <3>1. PICK f \in P : i = f[1]
      BY DEF Idx
    <3> HIDE DEF at
    <3> QED
      BY <1>4, <3>1 DEF On
  <2> QED
    BY <2>1
<1> HIDE DEF at
<1>6. \A n \in On(P) : \E i \in Idx(P) : at[i] = n
  BY <1>3, <1>4 DEF On
<1>7. at \in Surjection(Idx(P), On(P))
  BY <1>5, <1>6 DEF Surjection
<1> QED
  BY <1>2, <1>7, FS_Surjection

(* The nodes a list is read from are some of its nodes. *)
LEMMA ReachFinite ==
    ASSUME NEW P, P \subseteq Placements, Single(P), NEW s, NEW l
    PROVE  IsFiniteSet(Reach(P, s, l))
<1>1. Reach(P, s, l) \subseteq On(P)
  BY DEF Reach, On
<1> QED
  BY <1>1, SingleFinite, FS_Subset

(* What is enough stays so with more nodes, and with one node less at the   *)
(* price of a fault.                                                        *)
LEMMA EnoughMore ==
    ASSUME NEW S, NEW T, NEW n \in Nat, Enough(S, n), S \subseteq T, IsFiniteSet(T)
    PROVE  Enough(T, n)
<1>1. IsFiniteSet(S) /\ Cardinality(S) <= Cardinality(T)
  BY FS_Subset
<1>2. Cardinality(S) \in Nat /\ Cardinality(T) \in Nat
  BY <1>1, FS_CardinalityType
<1> QED
  BY <1>1, <1>2, GeometryAssumption DEF Enough

LEMMA EnoughFault ==
    ASSUME NEW S, NEW T, NEW x, NEW n \in Nat, Enough(S, n), S \ {x} \subseteq T,
           IsFiniteSet(S), IsFiniteSet(T)
    PROVE  Enough(T, n + 1)
<1>0. Cardinality(S) \in Nat
  BY FS_CardinalityType
<1>1. IsFiniteSet(S \ {x}) /\ Cardinality(S) <= Cardinality(S \ {x}) + 1
  <2>1. /\ IsFiniteSet(S \ {x})
        /\ Cardinality(S \ {x}) = IF x \in S THEN Cardinality(S) - 1 ELSE Cardinality(S)
    BY FS_RemoveElement
  <2> QED
    BY <1>0, <2>1
<1>2. Cardinality(S \ {x}) <= Cardinality(T)
  BY FS_Subset
<1>3. Cardinality(S) \in Nat /\ Cardinality(T) \in Nat /\ Cardinality(S \ {x}) \in Nat
  BY <1>1, FS_CardinalityType
<1> QED
  BY <1>1, <1>2, <1>3, GeometryAssumption DEF Enough

(* More fragments, or more nodes, are read from no fewer nodes. *)
LEMMA ReachMore ==
    ASSUME NEW P, NEW Q, NEW s, NEW t, NEW l, NEW m, P \subseteq Q, s \subseteq t, l \subseteq m
    PROVE  Reach(P, s, l) \subseteq Reach(Q, t, m)
BY DEF Reach, On

(* A fault takes one node. *)
LEMMA ReachFault ==
    ASSUME NEW P, NEW s, NEW l, NEW f, NEW n
    PROVE  /\ Reach(P, s, l) \ {f[2]} \subseteq Reach(P, s \ {f}, l)
           /\ Reach(P, s, l) \ {n} \subseteq Reach(P, s, l \ {n})
<1>1. Reach(P, s, l) \ {f[2]} \subseteq Reach(P, s \ {f}, l)
  BY DEF Reach, On
<1>2. Reach(P, s, l) \ {n} \subseteq Reach(P, s, l \ {n})
  BY DEF Reach, On
<1> QED
  BY <1>1, <1>2

-----------------------------------------------------------------------------
(* Init => IInv *)

LEMMA InitIInv == Init => IInv
<1> SUFFICES ASSUME Init PROVE IInv
  OBVIOUS
<1>1. PICK at \in [Indices -> Nodes], acked \in SUBSET Indices :
        /\ stored = {<<i, at[i]>> : i \in acked}
        /\ placements = {<<i, at[i]>> : i \in acked}
        /\ coming = {<<i, at[i]>> : i \in Indices \ acked}
        /\ \A i, j \in Indices : at[i] = at[j] => i = j
        /\ Cardinality(acked) = W
  BY DEF Init
<1>2. \A i \in Indices : <<i, at[i]>> \in Placements
  BY DEF Placements
<1>3. stored \subseteq Placements /\ placements \subseteq Placements /\ coming \subseteq Placements
  BY <1>1, <1>2
<1>4. pass \in [Passes -> PassType]
  BY IdlePassType DEF Init
<1>5. TypeOK
  <2>1. 0 \in 0..MaxFaults /\ 0 \in 0..MaxRestarts
    BY GeometryAssumption
  <2> QED
    BY <1>3, <1>4, <2>1 DEF Init, TypeOK
<1>6. IndexOnce
  BY <1>1 DEF IndexOnce
<1>7. Carried
  BY DEF Init, Carried, Single, IdlePass
<1>8. Striped
  BY DEF Init, Striped, IdlePass
<1>9. Ended
  BY DEF Init, Ended
<1>10. Wide
  <2>1. Enough(Reach(placements, stored, live), faults)
    <3> DEFINE R == Reach(placements, stored, live)
    <3>1. R = {at[i] : i \in acked}
      <4>1. {f \in placements \cap stored : f[2] \in live} = placements
        BY <1>1 DEF Init
      <4>2. On(placements) = {at[i] : i \in acked}
        <5>1. ASSUME NEW i \in acked
              PROVE  at[i] \in On(placements)
          <6>1. <<i, at[i]>> \in placements /\ <<i, at[i]>>[2] = at[i]
            BY <1>1
          <6> QED
            BY <6>1 DEF On
        <5>2. ASSUME NEW f \in placements
              PROVE  f[2] \in {at[i] : i \in acked}
          BY <1>1
        <5> QED
          BY <5>1, <5>2 DEF On
      <4> QED
        BY <4>1, <4>2 DEF Reach
    <3>2. IsFiniteSet(acked)
      <4>1. IsFiniteSet(Indices)
        BY FS_Interval, GeometryAssumption DEF Indices
      <4> QED
        BY <4>1, FS_Subset
    <3>3. [i \in acked |-> at[i]] \in Bijection(acked, R)
      <4>1. [i \in acked |-> at[i]] \in Injection(acked, R)
        BY <1>1, <3>1 DEF Injection, IsInjective
      <4>2. [i \in acked |-> at[i]] \in Surjection(acked, R)
        BY <1>1, <3>1 DEF Surjection
      <4> QED
        BY <4>1, <4>2 DEF Bijection
    <3>4. Cardinality(R) = W
      BY <1>1, <3>2, <3>3, FS_Bijection DEF ExistsBijection
    <3> QED
      BY <3>4, GeometryAssumption DEF Init, Enough
  <2> QED
    BY <2>1 DEF Init, Wide, IdlePass
<1> QED
  BY <1>5, <1>6, <1>7, <1>8, <1>9, <1>10 DEF IInv

-----------------------------------------------------------------------------
(* IInv /\ [Next]_vars => IInv', one lemma per part. *)

(* Every step keeps the types. *)
LEMMA TypeStep == TypeOK /\ [Next]_vars => TypeOK'
<1> SUFFICES ASSUME TypeOK, [Next]_vars PROVE TypeOK'
  OBVIOUS
<1> USE GeometryAssumption
<1>1. ASSUME NEW f \in Placements, Land(f) \/ StragglerFails(f) \/ AddPlacement(f) \/ LoseFragment(f)
      PROVE  TypeOK'
  BY <1>1 DEF TypeOK, Land, StragglerFails, AddPlacement, LoseFragment, Fault,
              fragVars, journalVars, histVars, bounds
<1>2. ASSUME NEW p \in Passes, RepairStep(p)
      PROVE  TypeOK'
  <2>0. pass[p] \in PassType
    BY DEF TypeOK
  <2>1. /\ live' = live /\ landed' = landed /\ coming' = coming /\ indexed' = indexed
        /\ ending' = ending /\ written' = written /\ removed' = removed
        /\ faults' = faults /\ restarts' = restarts
    BY <1>2 DEF RepairStep, RepairRead, RepairScan, RepairAbandon, UpdateRead, UpdateWrite,
                RepairPlace, fragVars, journalVars, histVars, bounds
  <2>2. CASE RepairRead(p)
    <3>1. [IdlePass EXCEPT !.pc = "scan", !.view = live, !.read = placements] \in PassType
      BY DEF TypeOK, PassType, IdlePass
    <3> QED
      BY <2>1, <2>2, <3>1 DEF RepairRead, TypeOK, fragVars, journalVars
  <2>3. CASE RepairScan(p)
    <3>1. Kept(p) \subseteq Placements /\ Lost(p) \subseteq Indices
      BY <2>0, HealthyFacts, Parts DEF Kept, PassType
    <3>2. [pass[p] EXCEPT !.pc = "place", !.kept = Kept(p), !.todo = Lost(p),
                          !.free = pass[p].view \ On(Healthy(p))] \in PassType
      BY <2>0, <3>1 DEF PassType
    <3> QED
      BY <2>1, <2>3, <3>2, IdlePassType DEF RepairScan, TypeOK, fragVars, journalVars
  <2>4. CASE RepairAbandon(p)
    BY <2>1, <2>4, IdlePassType DEF RepairAbandon, TypeOK, fragVars, journalVars
  <2>5. CASE UpdateRead(p)
    <3>1. [pass[p] EXCEPT !.pc = "writing", !.seen = state] \in PassType
      BY <2>0 DEF PassType, TypeOK
    <3> QED
      BY <2>1, <2>5, <3>1, IdlePassType DEF UpdateRead, TypeOK, fragVars, journalVars
  <2>6. CASE UpdateWrite(p)
    <3>1. pass[p].seen \in {"absent", "dirty", "clean"} /\ pass[p].kept \subseteq Placements
      BY <2>0 DEF PassType
    <3> QED
      BY <2>1, <2>6, <3>1, IdlePassType DEF UpdateWrite, TypeOK, fragVars
  <2>7. ASSUME NEW n \in Nodes, RepairPlace(p, n)
        PROVE  TypeOK'
    <3> DEFINE i == NextLost(pass[p].todo)
    <3>1. i \in Indices
      BY <2>0, <2>7, NextLostIn DEF RepairPlace, PassType
    <3>2. <<i, n>> \in Placements
      BY <3>1 DEF Placements
    <3>3. [pass[p] EXCEPT !.kept = @ \cup {<<i, n>>}, !.todo = @ \ {i}, !.free = @ \ {n}] \in PassType
      BY <2>0, <3>2 DEF PassType
    <3>4. pass' = [pass EXCEPT ![p] = [pass[p] EXCEPT !.kept = @ \cup {<<i, n>>},
                                                      !.todo = @ \ {i}, !.free = @ \ {n}]]
      BY <2>7 DEF RepairPlace, TypeOK, PassType
    <3>5. stored' = stored \cup {<<i, n>>} /\ state' = state /\ placements' = placements
      BY <2>7 DEF RepairPlace, journalVars
    <3> HIDE DEF i
    <3> QED
      BY <2>1, <3>2, <3>3, <3>4, <3>5 DEF TypeOK
  <2> QED
    BY <1>2, <2>2, <2>3, <2>4, <2>5, <2>6, <2>7 DEF RepairStep
<1>3. CASE Propagate \/ MarkClean \/ Discard \/ Delete
  BY <1>3 DEF TypeOK, Propagate, MarkClean, Discard, Delete, fragVars, journalVars, histVars, bounds
<1>4. ASSUME NEW n \in Nodes, NodeDown(n) \/ NodeUp(n)
      PROVE  TypeOK'
  BY <1>4 DEF TypeOK, NodeDown, NodeUp, Fault, fragVars, journalVars, histVars, bounds
<1>5. CASE Restart
  BY <1>5, IdlePassType DEF TypeOK, Restart, journalVars, histVars
<1>6. CASE UNCHANGED vars
  BY <1>6 DEF TypeOK, vars, fragVars, journalVars, histVars, bounds
<1> QED
  BY <1>1, <1>2, <1>3, <1>4, <1>5, <1>6 DEF Next

(* Only a straggler's merge, a pass's write and the end of the object touch *)
(* the journal's list.                                                      *)
LEMMA IndexOnceStep == IInv /\ [Next]_vars => IndexOnce'
<1> SUFFICES ASSUME IInv, [Next]_vars PROVE Single(placements')
  BY DEF IndexOnce, Single
<1>0. Single(placements)
  BY DEF IInv, IndexOnce, Single
<1>1. ASSUME NEW f \in Placements, AddPlacement(f)
      PROVE  Single(placements')
  <2>1. CASE f[1] \notin Idx(placements)
    <3>1. \A g \in placements : g[1] # f[1]
      BY <2>1 DEF Idx
    <3>2. Single(placements \cup {f})
      BY <1>0, <3>1 DEF Single
    <3> QED
      BY <1>0, <1>1, <3>2 DEF AddPlacement
  <2>2. CASE f[1] \in Idx(placements)
    BY <1>0, <1>1, <2>2 DEF AddPlacement
  <2> QED
    BY <2>1, <2>2
<1>2. ASSUME NEW p \in Passes, UpdateWrite(p)
      PROVE  Single(placements')
  BY <1>2 DEF UpdateWrite, IInv, Carried
<1>3. CASE Discard \/ Delete
  BY <1>3 DEF Discard, Delete, Single
<1>4. CASE placements' = placements
  BY <1>0, <1>4
<1>5. ASSUME NEW f \in Placements, Land(f) \/ StragglerFails(f) \/ LoseFragment(f)
      PROVE  placements' = placements
  BY <1>5 DEF Land, StragglerFails, LoseFragment, journalVars
<1>6. ASSUME NEW p \in Passes, NEW n \in Nodes, RepairPlace(p, n)
      PROVE  placements' = placements
  BY <1>6 DEF RepairPlace, journalVars
<1>7. ASSUME NEW p \in Passes,
             RepairRead(p) \/ RepairScan(p) \/ RepairAbandon(p) \/ UpdateRead(p)
      PROVE  placements' = placements
  BY <1>7 DEF RepairRead, RepairScan, RepairAbandon, UpdateRead, journalVars
<1>8. CASE Propagate \/ MarkClean \/ Restart \/ UNCHANGED vars
  BY <1>8, <1>4 DEF Propagate, MarkClean, Restart, vars, journalVars
<1>9. ASSUME NEW n \in Nodes, NodeDown(n) \/ NodeUp(n)
      PROVE  placements' = placements
  BY <1>9 DEF NodeDown, NodeUp, journalVars
<1> QED
  BY <1>1, <1>2, <1>3, <1>4, <1>5, <1>6, <1>7, <1>8, <1>9 DEF Next, RepairStep

(* A pass starts from the journal, keeps what it verified and adds indices  *)
(* that it has not placed yet.                                              *)
LEMMA CarriedStep == IInv /\ [Next]_vars => Carried'
<1> SUFFICES ASSUME IInv, [Next]_vars PROVE Carried'
  OBVIOUS
<1> DEFINE Fits(c) == Single(c.read) /\ Single(c.kept) /\ \A f \in c.kept : f[1] \notin c.todo
<1>0. \A p \in Passes : Fits(pass[p])
  BY DEF IInv, Carried
<1>1. Fits(IdlePass)
  BY DEF IdlePass, Single
<1>2. CASE pass' = pass
  BY <1>0, <1>2 DEF Carried
<1>3. ASSUME NEW p \in Passes, NEW c, Fits(c), pass' = [pass EXCEPT ![p] = c]
      PROVE  Carried'
  <2>1. \A q \in Passes : pass'[q] = c \/ pass'[q] = pass[q]
    BY <1>3 DEF IInv, TypeOK
  <2>2. \A q \in Passes : Fits(pass'[q])
    BY <1>0, <1>3, <2>1
  <2> QED
    BY <2>2 DEF Carried
<1>4. ASSUME NEW p \in Passes, RepairStep(p)
      PROVE  Carried'
  <2>0. pass[p] \in PassType
    BY DEF IInv, TypeOK
  <2>1. CASE RepairRead(p)
    <3> DEFINE c == [IdlePass EXCEPT !.pc = "scan", !.view = live, !.read = placements]
    <3>1. Fits(c)
      BY DEF IdlePass, Single, IInv, IndexOnce
    <3> QED
      BY <1>3, <2>1, <3>1 DEF RepairRead
  <2>2. CASE RepairScan(p)
    <3> DEFINE c == [pass[p] EXCEPT !.pc = "place", !.kept = Kept(p), !.todo = Lost(p),
                                    !.free = pass[p].view \ On(Healthy(p))]
    <3>1. c.read = pass[p].read /\ c.kept = Healthy(p) /\ c.todo = Lost(p)
      BY <2>0 DEF PassType, Kept
    <3>2. Fits(c)
      <4> HIDE DEF c
      <4> QED
        BY <1>0, <3>1, HealthyFacts, SinglePart
    <3> QED
      BY <1>1, <1>3, <2>2, <3>2 DEF RepairScan
  <2>3. CASE RepairAbandon(p)
    BY <1>1, <1>3, <2>3 DEF RepairAbandon
  <2>4. CASE UpdateRead(p)
    <3> DEFINE c == [pass[p] EXCEPT !.pc = "writing", !.seen = state]
    <3>1. Fits(c)
      BY <1>0, <2>0 DEF PassType
    <3> QED
      BY <1>1, <1>3, <2>4, <3>1 DEF UpdateRead
  <2>5. CASE UpdateWrite(p)
    BY <1>1, <1>3, <2>5 DEF UpdateWrite
  <2>6. ASSUME NEW n \in Nodes, RepairPlace(p, n)
        PROVE  Carried'
    <3> DEFINE i == NextLost(pass[p].todo)
               c == [pass[p] EXCEPT !.kept = @ \cup {<<i, n>>}, !.todo = @ \ {i},
                                    !.free = @ \ {n}]
    <3>1. i \in pass[p].todo
      BY <2>0, <2>6, NextLostIn DEF RepairPlace, PassType
    <3>2. pass' = [pass EXCEPT ![p] = c]
      BY <2>6 DEF RepairPlace, IInv, TypeOK, PassType
    <3>3. /\ c.read = pass[p].read
          /\ c.kept = pass[p].kept \cup {<<i, n>>}
          /\ c.todo = pass[p].todo \ {i}
      BY <2>0 DEF PassType
    <3> HIDE DEF i, c
    <3>4. \A f \in pass[p].kept : f[1] # i
      BY <1>0, <3>1
    <3>5. Single(c.kept)
      <4>1. Single(pass[p].kept)
        BY <1>0
      <4>2. Single(pass[p].kept \cup {<<i, n>>})
        BY <3>4, <4>1, SingleAdd
      <4> QED
        BY <3>3, <4>2
    <3>6. \A f \in c.kept : f[1] \notin c.todo
      BY <1>0, <3>3
    <3> QED
      BY <1>0, <1>3, <3>2, <3>3, <3>5, <3>6
  <2> QED
    BY <1>4, <2>1, <2>2, <2>3, <2>4, <2>5, <2>6 DEF RepairStep
<1>5. CASE Restart
  BY <1>1, <1>5 DEF Restart, Carried
<1>6. ASSUME NEW f \in Placements, Land(f) \/ StragglerFails(f) \/ AddPlacement(f) \/ LoseFragment(f)
      PROVE  pass' = pass
  BY <1>6 DEF Land, StragglerFails, AddPlacement, LoseFragment
<1>7. CASE Propagate \/ MarkClean \/ Discard \/ Delete \/ UNCHANGED vars
  BY <1>2, <1>7 DEF Propagate, MarkClean, Discard, Delete, vars
<1>8. ASSUME NEW n \in Nodes, NodeDown(n) \/ NodeUp(n)
      PROVE  pass' = pass
  BY <1>8 DEF NodeDown, NodeUp
<1> QED
  BY <1>2, <1>4, <1>5, <1>6, <1>7, <1>8 DEF Next

(* The stripe is free when a pass takes it and when the journal is marked   *)
(* clean; what removes the journal without it leaves no state to differ     *)
(* from.                                                                    *)
LEMMA StripedStep == IInv /\ [Next]_vars => Striped'
<1> SUFFICES ASSUME IInv, [Next]_vars PROVE Striped'
  OBVIOUS
<1>0. Striped /\ pass \in [Passes -> PassType]
  BY DEF IInv, TypeOK
<1>1. CASE pass' = pass /\ state' = state
  BY <1>0, <1>1 DEF Striped
<1>2. ASSUME NEW p \in Passes, NEW c, c.pc # "writing", pass' = [pass EXCEPT ![p] = c],
             state' = state
      PROVE  Striped'
  <2>1. \A q \in Passes : pass'[q].pc = "writing" => pass'[q] = pass[q]
    BY <1>0, <1>2
  <2> QED
    BY <1>0, <1>2, <2>1 DEF Striped
<1>3. IdlePass.pc # "writing"
  BY DEF IdlePass
<1>4. ASSUME NEW p \in Passes, RepairStep(p)
      PROVE  Striped'
  <2>0. pass[p] \in PassType
    BY <1>0
  <2>1. CASE RepairRead(p)
    <3>1. [IdlePass EXCEPT !.pc = "scan", !.view = live, !.read = placements].pc # "writing"
      BY DEF IdlePass
    <3> QED
      BY <1>2, <2>1, <3>1 DEF RepairRead, journalVars
  <2>2. CASE RepairScan(p)
    <3>1. [pass[p] EXCEPT !.pc = "place", !.kept = Kept(p), !.todo = Lost(p),
                          !.free = pass[p].view \ On(Healthy(p))].pc # "writing"
      BY <2>0 DEF PassType
    <3> QED
      BY <1>2, <1>3, <2>2, <3>1 DEF RepairScan, journalVars
  <2>3. CASE RepairAbandon(p)
    BY <1>2, <1>3, <2>3 DEF RepairAbandon, journalVars
  <2>4. CASE UpdateRead(p)
    <3>1. CASE state = "absent"
      BY <1>2, <1>3, <2>4, <3>1 DEF UpdateRead, journalVars
    <3>2. CASE state # "absent"
      <4> DEFINE c == [pass[p] EXCEPT !.pc = "writing", !.seen = state]
      <4>1. pass' = [pass EXCEPT ![p] = c] /\ state' = state
        BY <2>4, <3>2 DEF UpdateRead, journalVars
      <4>2. c.seen = state
        BY <2>0 DEF PassType
      <4>3. \A q \in Passes : pass[q].pc # "writing"
        BY <2>4 DEF UpdateRead, StripeBusy
      <4> HIDE DEF c
      <4>4. \A q \in Passes : pass'[q].pc = "writing" => q = p
        BY <1>0, <4>1, <4>3
      <4>5. pass'[p].seen = state'
        BY <1>0, <4>1, <4>2
      <4> QED
        BY <4>4, <4>5 DEF Striped
    <3> QED
      BY <3>1, <3>2
  <2>5. CASE UpdateWrite(p)
    <3>1. \A q \in Passes : pass'[q].pc # "writing"
      BY <1>0, <1>3, <2>5 DEF UpdateWrite, Striped
    <3> QED
      BY <3>1 DEF Striped
  <2>6. ASSUME NEW n \in Nodes, RepairPlace(p, n)
        PROVE  Striped'
    <3>1. pass'[p].pc = "place" /\ state' = state
      BY <1>0, <2>0, <2>6 DEF RepairPlace, PassType, journalVars
    <3>2. \A q \in Passes : q # p => pass'[q] = pass[q]
      BY <1>0, <2>6 DEF RepairPlace
    <3> QED
      BY <1>0, <3>1, <3>2 DEF Striped
  <2> QED
    BY <1>4, <2>1, <2>2, <2>3, <2>4, <2>5, <2>6 DEF RepairStep
<1>5. CASE MarkClean
  BY <1>5 DEF MarkClean, StripeBusy, Striped
<1>6. CASE Discard \/ Delete
  BY <1>0, <1>6 DEF Discard, Delete, Striped
<1>7. CASE Restart
  BY <1>3, <1>7 DEF Restart, Striped
<1>8. CASE Propagate \/ UNCHANGED vars
  BY <1>1, <1>8 DEF Propagate, vars, journalVars
<1>9. ASSUME NEW f \in Placements, Land(f) \/ StragglerFails(f) \/ AddPlacement(f) \/ LoseFragment(f)
      PROVE  pass' = pass /\ state' = state
  BY <1>9 DEF Land, StragglerFails, AddPlacement, LoseFragment, journalVars
<1>10. ASSUME NEW n \in Nodes, NodeDown(n) \/ NodeUp(n)
       PROVE  pass' = pass /\ state' = state
  BY <1>10 DEF NodeDown, NodeUp, journalVars
<1> QED
  BY <1>1, <1>4, <1>5, <1>6, <1>7, <1>8, <1>9, <1>10 DEF Next

(* Only MarkClean, which finds the stripe free, and the clean-up end the    *)
(* object; a pass writes back the state it read.                            *)
LEMMA EndedStep == IInv /\ [Next]_vars => Ended'
<1> SUFFICES ASSUME IInv, [Next]_vars PROVE Ended'
  OBVIOUS
<1>0. Ended /\ pass \in [Passes -> PassType] /\ state \in {"absent", "dirty", "clean"}
  BY DEF IInv, TypeOK
<1>1. CASE pass' = pass /\ state' = state /\ ending' = ending /\ removed' = removed
  BY <1>0, <1>1 DEF Ended
<1>2. ASSUME NEW p \in Passes, NEW c, pass' = [pass EXCEPT ![p] = c],
             c.pc = "writing" => c.seen = state,
             state' = state \/ (pass[p].pc = "writing" /\ state' = pass[p].seen),
             ending' = ending, removed' = removed
      PROVE  Ended'
  <2>1. \A q \in Passes : pass'[q] = c \/ pass'[q] = pass[q]
    BY <1>0, <1>2
  <2> QED
    BY <1>0, <1>2, <2>1 DEF Ended
<1>3. IdlePass.pc = "idle"
  BY DEF IdlePass
<1>4. ASSUME NEW p \in Passes, RepairStep(p)
      PROVE  Ended'
  <2>0. pass[p] \in PassType
    BY <1>0
  <2>1. CASE RepairRead(p)
    <3>1. [IdlePass EXCEPT !.pc = "scan", !.view = live, !.read = placements].pc # "writing"
      BY DEF IdlePass
    <3> QED
      BY <1>2, <2>1, <3>1 DEF RepairRead, journalVars, histVars
  <2>2. CASE RepairScan(p)
    <3>1. [pass[p] EXCEPT !.pc = "place", !.kept = Kept(p), !.todo = Lost(p),
                          !.free = pass[p].view \ On(Healthy(p))].pc # "writing"
      BY <2>0 DEF PassType
    <3> QED
      BY <1>2, <1>3, <2>2, <3>1 DEF RepairScan, journalVars, histVars
  <2>3. CASE RepairAbandon(p)
    BY <1>2, <1>3, <2>3 DEF RepairAbandon, journalVars, histVars
  <2>4. CASE UpdateRead(p)
    <3>1. [pass[p] EXCEPT !.pc = "writing", !.seen = state].seen = state
      BY <2>0 DEF PassType
    <3> QED
      BY <1>2, <1>3, <2>4, <3>1 DEF UpdateRead, journalVars, histVars
  <2>5. CASE UpdateWrite(p)
    BY <1>2, <1>3, <2>5 DEF UpdateWrite, histVars
  <2>6. ASSUME NEW n \in Nodes, RepairPlace(p, n)
        PROVE  Ended'
    <3>1. pass'[p].pc = "place" /\ state' = state /\ ending' = ending /\ removed' = removed
      BY <1>0, <2>0, <2>6 DEF RepairPlace, PassType, journalVars, histVars
    <3>2. \A q \in Passes : q # p => pass'[q] = pass[q]
      BY <1>0, <2>6 DEF RepairPlace
    <3> QED
      BY <1>0, <3>1, <3>2 DEF Ended
  <2> QED
    BY <1>4, <2>1, <2>2, <2>3, <2>4, <2>5, <2>6 DEF RepairStep
<1>5. CASE Propagate
  BY <1>0, <1>5 DEF Propagate, Ended, journalVars
<1>6. CASE MarkClean
  BY <1>0, <1>6 DEF MarkClean, Ended, StripeBusy, histVars
<1>7. CASE Discard
  BY <1>0, <1>7 DEF Discard, Ended, histVars
<1>8. CASE Delete
  BY <1>8 DEF Delete, Ended
<1>9. CASE Restart
  BY <1>3, <1>9 DEF Restart, Ended, journalVars
<1>10. ASSUME NEW f \in Placements, Land(f) \/ StragglerFails(f) \/ AddPlacement(f) \/ LoseFragment(f)
       PROVE  Ended'
  BY <1>1, <1>10 DEF Land, StragglerFails, AddPlacement, LoseFragment, journalVars, histVars
<1>11. ASSUME NEW n \in Nodes, NodeDown(n) \/ NodeUp(n)
       PROVE  Ended'
  BY <1>1, <1>11 DEF NodeDown, NodeUp, journalVars, histVars
<1>12. CASE UNCHANGED vars
  BY <1>1, <1>12 DEF vars, journalVars, histVars
<1> QED
  BY <1>4, <1>5, <1>6, <1>7, <1>8, <1>9, <1>10, <1>11, <1>12 DEF Next

(* Stragglers, merges, placements and nodes that come back only add; a      *)
(* fault takes one node from each list; a pass starts from the journal, and *)
(* drops only what it could not read.                                       *)
LEMMA WideStep == IInv /\ [Next]_vars => Wide'
<1> SUFFICES ASSUME IInv, [Next]_vars, ~removed', ending' \in {"none", "propagated"}
             PROVE  /\ Enough(Reach(placements', stored', live'), faults')
                    /\ \A p \in Passes :
                         /\ pass'[p].pc = "scan"
                              => Enough(Reach(pass'[p].read, stored', live' \cap pass'[p].view), faults')
                         /\ pass'[p].pc \in {"place", "writing"}
                              => Enough(Reach(pass'[p].kept, stored', live'), faults')
  BY DEF Wide
<1> DEFINE Ready(c) ==
             /\ c.pc = "scan" => Enough(Reach(c.read, stored, live \cap c.view), faults)
             /\ c.pc \in {"place", "writing"} => Enough(Reach(c.kept, stored, live), faults)
           NowReady(c) ==
             /\ c.pc = "scan" => Enough(Reach(c.read, stored', live' \cap c.view), faults')
             /\ c.pc \in {"place", "writing"} => Enough(Reach(c.kept, stored', live'), faults')
<1>1. TypeOK /\ TypeOK' /\ Carried /\ Single(placements)
  BY TypeStep DEF IInv, IndexOnce, Single
<1>2. Single(placements') /\ Carried'
  BY IndexOnceStep, CarriedStep DEF IndexOnce, Single
<1>3. /\ faults \in Nat /\ placements \subseteq Placements /\ placements' \subseteq Placements
      /\ \A p \in Passes : /\ pass[p] \in PassType /\ pass'[p] \in PassType
                           /\ pass[p].read \subseteq Placements /\ pass'[p].read \subseteq Placements
                           /\ pass[p].kept \subseteq Placements /\ pass'[p].kept \subseteq Placements
                           /\ Single(pass[p].read) /\ Single(pass'[p].read)
                           /\ Single(pass[p].kept) /\ Single(pass'[p].kept)
  BY <1>1, <1>2, GeometryAssumption DEF TypeOK, PassType, Carried
<1>4. ~removed /\ ending \in {"none", "propagated"}
  <2>1. ASSUME NEW p \in Passes, RepairStep(p)
        PROVE  ending' = ending /\ removed' = removed
    BY <2>1 DEF RepairStep, RepairRead, RepairScan, RepairAbandon, UpdateRead, UpdateWrite,
                RepairPlace, histVars
  <2>2. CASE Restart
    BY <2>2 DEF Restart, histVars, IInv, Ended, TypeOK
  <2>3. CASE Propagate \/ MarkClean \/ Discard \/ Delete
    BY <2>3 DEF Propagate, MarkClean, Discard, Delete, histVars
  <2>4. ASSUME NEW f \in Placements, Land(f) \/ StragglerFails(f) \/ AddPlacement(f) \/ LoseFragment(f)
        PROVE  ending' = ending /\ removed' = removed
    BY <2>4 DEF Land, StragglerFails, AddPlacement, LoseFragment, histVars
  <2>5. ASSUME NEW n \in Nodes, NodeDown(n) \/ NodeUp(n)
        PROVE  ending' = ending /\ removed' = removed
    BY <2>5 DEF NodeDown, NodeUp, histVars
  <2>6. CASE UNCHANGED vars
    BY <2>6 DEF vars, histVars
  <2> QED
    BY <2>1, <2>2, <2>3, <2>4, <2>5, <2>6 DEF Next
<1>5. Enough(Reach(placements, stored, live), faults) /\ \A p \in Passes : Ready(pass[p])
  BY <1>4 DEF IInv, Wide
<1>6. ASSUME stored \subseteq stored', live \subseteq live', faults' = faults
      PROVE  /\ \A P, Q : (P \subseteq Q /\ Q \subseteq Placements /\ Single(Q)
                             /\ Enough(Reach(P, stored, live), faults)) => Enough(Reach(Q, stored', live'), faults')
             /\ \A p \in Passes : NowReady(pass[p])
  <2>1. ASSUME NEW P, NEW Q, NEW l, NEW m, P \subseteq Q, l \subseteq m, Q \subseteq Placements,
               Single(Q), Enough(Reach(P, stored, l), faults)
        PROVE  Enough(Reach(Q, stored', m), faults')
    <3>1. IsFiniteSet(Reach(Q, stored', m))
      BY <2>1, ReachFinite
    <3>2. Reach(P, stored, l) \subseteq Reach(Q, stored', m)
      BY <1>6, <2>1, ReachMore
    <3> QED
      BY <1>3, <1>6, <2>1, <3>1, <3>2, EnoughMore
  <2>2. \A p \in Passes : live \cap pass[p].view \subseteq live' \cap pass[p].view
    BY <1>6
  <2> QED
    BY <1>3, <1>5, <1>6, <2>1, <2>2
<1>7. ASSUME stored \subseteq stored', live \subseteq live', faults' = faults,
             placements \subseteq placements', pass' = pass
      PROVE  /\ Enough(Reach(placements', stored', live'), faults')
             /\ \A p \in Passes : NowReady(pass'[p])
  BY <1>2, <1>3, <1>5, <1>6, <1>7
<1>8. ASSUME NEW p \in Passes, NEW c, pass' = [pass EXCEPT ![p] = c], c = IdlePass \/ NowReady(c),
             stored \subseteq stored', live' = live, faults' = faults,
             placements' = placements \/ (pass[p].pc = "writing" /\ placements' = pass[p].kept)
      PROVE  /\ Enough(Reach(placements', stored', live'), faults')
             /\ \A q \in Passes : NowReady(pass'[q])
  <2>1. \A q \in Passes : pass'[q] = c \/ pass'[q] = pass[q]
    BY <1>1, <1>8 DEF TypeOK
  <2>2. IdlePass.pc = "idle"
    BY DEF IdlePass
  <2>3. \A q \in Passes : NowReady(pass[q])
    BY <1>6, <1>8
  <2>4. \A q \in Passes : NowReady(pass'[q])
    BY <1>8, <2>1, <2>2, <2>3
  <2>5. Enough(Reach(placements', stored', live'), faults')
    BY <1>2, <1>3, <1>5, <1>6, <1>8
  <2> QED
    BY <2>4, <2>5
<1>9. ASSUME NEW n, faults' = faults + 1, placements' = placements, pass' = pass,
             \A P, l : Reach(P, stored, live \cap l) \ {n} \subseteq Reach(P, stored', live' \cap l)
      PROVE  /\ Enough(Reach(placements', stored', live'), faults')
             /\ \A p \in Passes : NowReady(pass'[p])
  <2>1. ASSUME NEW P, NEW l, P \subseteq Placements, Single(P),
               Enough(Reach(P, stored, live \cap l), faults)
        PROVE  Enough(Reach(P, stored', live' \cap l), faults')
    <3>1. IsFiniteSet(Reach(P, stored, live \cap l)) /\ IsFiniteSet(Reach(P, stored', live' \cap l))
      BY <2>1, ReachFinite
    <3>2. Reach(P, stored, live \cap l) \ {n} \subseteq Reach(P, stored', live' \cap l)
      BY <1>9
    <3> QED
      BY <1>3, <1>9, <2>1, <3>1, <3>2, EnoughFault
  <2>2. live \cap Nodes = live /\ live' \cap Nodes = live'
    BY <1>1 DEF TypeOK
  <2>3. ASSUME NEW P, P \subseteq Placements, Single(P), Enough(Reach(P, stored, live), faults)
        PROVE  Enough(Reach(P, stored', live'), faults')
    <3>1. Enough(Reach(P, stored, live \cap Nodes), faults)
      BY <2>2, <2>3
    <3>2. Enough(Reach(P, stored', live' \cap Nodes), faults')
      BY <2>1, <2>3, <3>1
    <3> QED
      BY <2>2, <3>2
  <2>4. ASSUME NEW p \in Passes
        PROVE  NowReady(pass[p])
    <3>1. Ready(pass[p])
      BY <1>5
    <3> QED
      BY <1>3, <2>1, <2>3, <3>1
  <2>5. Enough(Reach(placements, stored', live'), faults')
    BY <1>1, <1>3, <1>5, <2>3
  <2> QED
    BY <1>9, <2>4, <2>5
<1>10. ASSUME NEW p \in Passes, RepairStep(p)
       PROVE  /\ Enough(Reach(placements', stored', live'), faults')
              /\ \A q \in Passes : NowReady(pass'[q])
  <2>1. CASE RepairRead(p)
    <3> DEFINE c == [IdlePass EXCEPT !.pc = "scan", !.view = live, !.read = placements]
    <3>1. c.pc = "scan" /\ c.view = live /\ c.read = placements
      BY DEF IdlePass
    <3>2. /\ pass' = [pass EXCEPT ![p] = c] /\ placements' = placements
          /\ stored' = stored /\ live' = live /\ faults' = faults
      BY <2>1 DEF RepairRead, fragVars, journalVars, bounds
    <3> HIDE DEF c
    <3>3. live \cap live = live
      OBVIOUS
    <3>4. NowReady(c)
      BY <1>5, <3>1, <3>2, <3>3
    <3> QED
      BY <1>8, <3>2, <3>4
  <2>2. CASE RepairScan(p)
    <3> DEFINE c == [pass[p] EXCEPT !.pc = "place", !.kept = Kept(p), !.todo = Lost(p),
                                    !.free = pass[p].view \ On(Healthy(p))]
    <3>1. c.pc = "place" /\ c.kept = Healthy(p)
      BY <1>3 DEF PassType, Kept
    <3>2. /\ pass' = [pass EXCEPT ![p] = c] \/ pass' = [pass EXCEPT ![p] = IdlePass]
          /\ placements' = placements
          /\ stored' = stored /\ live' = live /\ faults' = faults /\ pass[p].pc = "scan"
      BY <2>2 DEF RepairScan, fragVars, journalVars, bounds
    <3> HIDE DEF c
    <3>3. Reach(Healthy(p), stored, live) = Reach(pass[p].read, stored, live \cap pass[p].view)
      BY DEF Reach, Healthy, Loadable
    <3>4. NowReady(c)
      BY <1>5, <3>1, <3>2, <3>3
    <3> QED
      BY <1>8, <3>2, <3>4
  <2>3. CASE RepairAbandon(p)
    BY <1>8, <2>3 DEF RepairAbandon, fragVars, journalVars, bounds
  <2>4. CASE UpdateRead(p)
    <3> DEFINE c == [pass[p] EXCEPT !.pc = "writing", !.seen = state]
    <3>1. c.pc = "writing" /\ c.kept = pass[p].kept
      BY <1>3 DEF PassType
    <3>2. /\ pass' = [pass EXCEPT ![p] = c] \/ pass' = [pass EXCEPT ![p] = IdlePass]
          /\ placements' = placements
          /\ stored' = stored /\ live' = live /\ faults' = faults /\ pass[p].pc = "place"
      BY <2>4 DEF UpdateRead, fragVars, journalVars, bounds
    <3> HIDE DEF c
    <3>3. NowReady(c)
      BY <1>5, <3>1, <3>2
    <3> QED
      BY <1>8, <3>2, <3>3
  <2>5. CASE UpdateWrite(p)
    BY <1>8, <2>5 DEF UpdateWrite, fragVars, bounds
  <2>6. ASSUME NEW n \in Nodes, RepairPlace(p, n)
        PROVE  /\ Enough(Reach(placements', stored', live'), faults')
               /\ \A q \in Passes : NowReady(pass'[q])
    <3> DEFINE i == NextLost(pass[p].todo)
    <3>1. /\ pass'[p].pc = "place" /\ pass'[p].kept = pass[p].kept \cup {<<i, n>>}
          /\ stored' = stored \cup {<<i, n>>} /\ live' = live /\ faults' = faults
          /\ placements' = placements /\ pass[p].pc = "place"
      BY <1>1, <1>3, <2>6 DEF RepairPlace, PassType, TypeOK, journalVars, bounds
    <3>2. \A q \in Passes : q # p => pass'[q] = pass[q]
      BY <1>1, <2>6 DEF RepairPlace, TypeOK
    <3> HIDE DEF i
    <3>3. NowReady(pass'[p])
      BY <1>3, <1>5, <1>6, <3>1
    <3>4. \A q \in Passes : NowReady(pass[q])
      BY <1>6, <3>1
    <3> QED
      BY <1>2, <1>3, <1>5, <1>6, <3>1, <3>2, <3>3, <3>4
  <2> QED
    BY <1>10, <2>1, <2>2, <2>3, <2>4, <2>5, <2>6 DEF RepairStep
<1>11. ASSUME NEW f \in Placements, Land(f) \/ StragglerFails(f) \/ AddPlacement(f)
       PROVE  /\ Enough(Reach(placements', stored', live'), faults')
              /\ \A p \in Passes : NowReady(pass'[p])
  <2>1. /\ stored \subseteq stored' /\ live' = live /\ faults' = faults
        /\ placements \subseteq placements' /\ pass' = pass
    BY <1>11 DEF Land, StragglerFails, AddPlacement, journalVars, bounds
  <2> QED
    BY <1>7, <2>1
<1>12. ASSUME NEW f \in Placements, LoseFragment(f)
       PROVE  /\ Enough(Reach(placements', stored', live'), faults')
              /\ \A p \in Passes : NowReady(pass'[p])
  <2>1. /\ stored' = stored \ {f} /\ live' = live /\ faults' = faults + 1
        /\ placements' = placements /\ pass' = pass
    BY <1>12 DEF LoseFragment, Fault, journalVars
  <2>2. \A P, l : Reach(P, stored, live \cap l) \ {f[2]} \subseteq Reach(P, stored', live' \cap l)
    BY <2>1, ReachFault
  <2> QED
    BY <1>9, <2>1, <2>2
<1>13. ASSUME NEW n \in Nodes, NodeDown(n)
       PROVE  /\ Enough(Reach(placements', stored', live'), faults')
              /\ \A p \in Passes : NowReady(pass'[p])
  <2>1. /\ stored' = stored /\ live' = live \ {n} /\ faults' = faults + 1
        /\ placements' = placements /\ pass' = pass
    BY <1>13 DEF NodeDown, Fault, journalVars
  <2>2. \A l : (live \cap l) \ {n} = live' \cap l
    BY <2>1
  <2>3. \A P, l : Reach(P, stored, live \cap l) \ {n} \subseteq Reach(P, stored', live' \cap l)
    BY <2>1, <2>2, ReachFault
  <2> QED
    BY <1>9, <2>1, <2>3
<1>14. ASSUME NEW n \in Nodes, NodeUp(n)
       PROVE  /\ Enough(Reach(placements', stored', live'), faults')
              /\ \A p \in Passes : NowReady(pass'[p])
  BY <1>7, <1>14 DEF NodeUp, journalVars, bounds
<1>15. ASSUME Propagate \/ UNCHANGED vars
       PROVE  /\ Enough(Reach(placements', stored', live'), faults')
              /\ \A p \in Passes : NowReady(pass'[p])
  BY <1>7, <1>15 DEF Propagate, vars, fragVars, journalVars, bounds
<1>16. ~(MarkClean \/ Discard \/ Delete)
  BY DEF MarkClean, Discard, Delete
<1>17. ASSUME Restart
       PROVE  /\ Enough(Reach(placements', stored', live'), faults')
              /\ \A p \in Passes : NowReady(pass'[p])
  <2>1. /\ stored' = stored /\ live' = live /\ faults' = faults /\ placements' = placements
        /\ \A p \in Passes : pass'[p].pc = "idle"
    BY <1>17 DEF Restart, journalVars, IdlePass
  <2> QED
    BY <1>5, <2>1
<1> HIDE DEF Ready, NowReady
<1>18. /\ Enough(Reach(placements', stored', live'), faults')
       /\ \A p \in Passes : NowReady(pass'[p])
  BY <1>10, <1>11, <1>12, <1>13, <1>14, <1>15, <1>16, <1>17 DEF Next
<1> QED
  BY <1>18 DEF NowReady

-----------------------------------------------------------------------------
(* Theorems. *)

(* The inductive invariant of the fragments of an object. *)
THEOREM Invariance == Spec => []IInv
<1>1. IInv /\ [Next]_vars => IInv'
  BY TypeStep, IndexOnceStep, CarriedStep, StripedStep, EndedStep, WideStep DEF IInv
<1> QED
  BY <1>1, InitIInv, PTL DEF Spec

(* Every variable keeps its type. *)
THEOREM TypeCorrectness == Spec => []TypeOK
<1>1. IInv => TypeOK
  BY DEF IInv
<1> QED
  BY <1>1, Invariance, PTL

(* update_placements and add_placement never leave two fragments of one     *)
(* index in the journal, however passes, stragglers and restarts interleave.*)
THEOREM IndexPlacedOnce == Spec => []IndexOnce
<1>1. IInv => IndexOnce
  BY DEF IInv
<1> QED
  BY <1>1, Invariance, PTL

(* As many faults as the acknowledgement allows for leave the object        *)
(* readable from the journal's placements, however often passes, stragglers *)
(* and restarts have rewritten them.  The invariant counts nodes, and a     *)
(* list that names no index twice has no fewer indices than nodes.          *)
THEOREM AcknowledgedStaysReadable == Spec => []StaysReadable
<1>1. ASSUME IInv, state = "dirty", ~removed, MaxFaults <= W - K
      PROVE  Cardinality(Idx(Loadable(placements))) >= K
  <2> DEFINE P == Loadable(placements)
  <2>1. ending \in {"none", "propagated"}
    BY <1>1 DEF IInv, Ended, TypeOK
  <2>2. Cardinality(Reach(placements, stored, live)) + faults >= W
    BY <1>1, <2>1 DEF IInv, Wide, Enough
  <2>3. Reach(placements, stored, live) = On(P)
    BY DEF Reach, Loadable
  <2>4. P \subseteq placements /\ Single(placements) /\ placements \subseteq Placements
    BY <1>1 DEF Loadable, IInv, IndexOnce, Single, TypeOK
  <2>5. P \subseteq Placements /\ Single(P)
    BY <2>4, SinglePart
  <2> HIDE DEF P
  <2>6. /\ Cardinality(On(P)) <= Cardinality(Idx(P))
        /\ Cardinality(On(P)) \in Nat /\ Cardinality(Idx(P)) \in Nat
    BY <2>5, SingleFinite, FS_CardinalityType
  <2>7. faults \in Nat /\ faults <= MaxFaults
    BY <1>1, GeometryAssumption DEF IInv, TypeOK
  <2>8. Cardinality(Idx(P)) >= K
    BY <1>1, <2>2, <2>3, <2>6, <2>7, GeometryAssumption
  <2> QED
    BY <2>8 DEF P
<1>2. IInv => StaysReadable
  BY <1>1 DEF StaysReadable
<1> QED
  BY <1>2, Invariance, PTL

(* A step never makes the journal of a propagated, clean object dirty       *)
(* again: the pass that writes it back holds the stripe and read it clean.  *)
THEOREM PropagatedStaysClean == Spec => CleanIsFinal
<1>1. ASSUME IInv, Next, written, state = "clean"
      PROVE  state' # "dirty"
  <2>1. ASSUME NEW p \in Passes, UpdateWrite(p)
        PROVE  state' # "dirty"
    BY <1>1, <2>1 DEF UpdateWrite, IInv, Striped
  <2>2. ASSUME NEW p \in Passes, NEW n \in Nodes, RepairPlace(p, n)
        PROVE  state' = state
    BY <2>2 DEF RepairPlace, journalVars
  <2>3. ASSUME NEW p \in Passes,
               RepairRead(p) \/ RepairScan(p) \/ RepairAbandon(p) \/ UpdateRead(p)
        PROVE  state' = state
    BY <2>3 DEF RepairRead, RepairScan, RepairAbandon, UpdateRead, journalVars
  <2>4. ASSUME NEW f \in Placements, Land(f) \/ StragglerFails(f) \/ AddPlacement(f) \/ LoseFragment(f)
        PROVE  state' = state
    BY <2>4 DEF Land, StragglerFails, AddPlacement, LoseFragment, journalVars
  <2>5. ASSUME NEW n \in Nodes, NodeDown(n) \/ NodeUp(n)
        PROVE  state' = state
    BY <2>5 DEF NodeDown, NodeUp, journalVars
  <2>6. CASE Propagate \/ MarkClean \/ Discard \/ Delete \/ Restart
    BY <1>1, <2>6 DEF Propagate, MarkClean, Discard, Delete, Restart, journalVars
  <2> QED
    BY <1>1, <2>1, <2>2, <2>3, <2>4, <2>5, <2>6 DEF Next, RepairStep
<1>2. IInv /\ [Next]_vars => [(written /\ state = "clean") => state' # "dirty"]_vars
  BY <1>1
<1> QED
  BY <1>2, Invariance, PTL DEF Spec, CleanIsFinal
=============================================================================

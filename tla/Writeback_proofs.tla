--------------------------- MODULE Writeback_proofs ---------------------------
(***************************************************************************)
(* Theorems about Writeback, for every set of keys and objects, every       *)
(* length, limit and number of attempts and restarts.                       *)
(***************************************************************************)
EXTENDS Writeback, SequenceTheorems, FiniteSetTheorems, WellFoundedInduction, TLAPS

Busy == {"staging", "committed", "acked", "flushing", "bypass", "uploaded", "cleaned"}

(* key_locks: a task holds its key's guard from put_stream to the end of    *)
(* its offload, a DELETE from its first to its last step; the flush of an   *)
(* object's task runs inside that task; a write-through has none.           *)
Guarded ==
    /\ \A o \in Objects : /\ pc[o] # "idle" => keyOf[o] \in Keys
                          /\ pc[o] \in Busy => lock[keyOf[o]] = o
                          /\ flush[o].stage # "idle" => pc[o] = "flushing"
                          /\ o \in Through => pc[o] \in {"idle", "done"}
    /\ \A k \in Keys : lock[k] = Deleter <=> delPc[k] # "idle"

(* What a stream or a pack may hold: journaled objects below the limit. *)
Small == {o \in Objects : Journaled(o) /\ pc[o] # "stray" /\ len[o] <= SizeLimit}

(* The stream, and the batches taken from it; the clean-up of a pack runs   *)
(* after the pack is committed.                                             *)
Batches ==
    /\ stream \in Seq(Small)
    /\ packed \subseteq Small
    /\ \A t \in Owners :
         /\ flush[t].todo \in Seq(Small) /\ flush[t].pack \in Seq(Small)
         /\ flush[t].stage \in {"indexing", "cleaning", "freeing"} => flush[t].pack \in Seq(packed)
         /\ flush[t].stage = "freeing" => flush[t].pack # <<>>

(* Journals and fragments: a journal is written for an object whose         *)
(* fragments are there; the index names journals on disk; and only what was *)
(* offloaded, or deleted by a client, is ever cleaned up.                   *)
Disk ==
    /\ \A o \in Objects :
         /\ journal[o] # "absent" => Journaled(o)
         /\ pc[o] \in {"committed", "orphan"} => o \in frags
         /\ pc[o] \in {"uploaded", "cleaned"} => o \in uploaded
         /\ o \in dropped => Journaled(o) /\ journal[o] = "absent"
    /\ \A k \in Keys : dirty[k] # None => keyOf[dirty[k]] = k /\ journal[dirty[k]] # "absent"

(* The last acknowledged write of a key that no restart found twice, and    *)
(* that no DELETE left half-way, is indexed until it is offloaded, unless   *)
(* the late put of a client that hung up is indexed over it.                *)
Latest ==
    /\ \A k \in Keys : latest[k] # None =>
         /\ pc[latest[k]] # "idle" /\ keyOf[latest[k]] = k
         /\ Journaled(latest[k]) \/ latest[k] \in uploaded
         /\ latest[k] \notin dropped
    /\ \A k \in Keys \ (shadowed \cup torn) : latest[k] # None =>
         \/ Offloaded(latest[k])
         \/ dirty[k] = latest[k]
         \/ dirty[k] # None /\ pc[dirty[k]] = "stray"

(* A key that could be read without its dirty journal. *)
Behind(k) == packIndex[k] # None \/ origin[k] # None

(* The objects that can be unindexed: readers find their key elsewhere. *)
Covered == {o \in Objects : \A k \in Keys \ torn : (dirty[k] = o /\ lock[k] # Deleter) => Behind(k)}

Served ==
    restarts = 0 =>
      /\ \A o \in Objects : pc[o] \in {"uploaded", "cleaned"} => o \in Covered
      /\ \A t \in Owners : flush[t].stage \in {"cleaning", "freeing"} => flush[t].pack \in Seq(Covered)
      /\ \A k \in Keys \ torn : (latest[k] # None /\ lock[k] # Deleter) => dirty[k] # None \/ Behind(k)

(* A key whose objects all go to the origin directly: the index names the   *)
(* last write or nothing, and then the origin has it.                       *)
Direct ==
    restarts = 0 =>
      /\ \A o \in Objects : pc[o] # "resume"
      /\ \A k \in Keys : DirectOnly(k) => packIndex[k] = None /\ (lock[k] = Deleter => origin[k] = None)
      /\ \A k \in Keys \ torn : DirectOnly(k) =>
           /\ dirty[k] = None \/ dirty[k] = latest[k]
           /\ (lock[k] # Deleter /\ dirty[k] = None) => origin[k] = latest[k]
           /\ \A o \in Objects : keyOf[o] = k /\ pc[o] \in {"acked", "bypass", "uploaded", "cleaned"}
                => /\ latest[k] = o
                   /\ pc[o] \in {"uploaded", "cleaned"} => origin[k] = o

(* The journals on disk have a largest id, which a restart goes by. *)
Bounded == \E n \in Nat : \A o \in Objects : journal[o] # "absent" => o <= n

IInv == TypeOK /\ Bounded /\ Guarded /\ Batches /\ Disk /\ AckedDurable /\ Latest /\ Served /\ Direct

-----------------------------------------------------------------------------
(* Sequences and sentinels. *)

LEMMA SeqMono ==
    ASSUME NEW S, NEW T, S \subseteq T, NEW s \in Seq(S)
    PROVE  s \in Seq(T)
BY SeqDef

LEMMA SeqOf ==
    ASSUME NEW S, NEW T, NEW s \in Seq(S), \A i \in 1..Len(s) : s[i] \in T
    PROVE  s \in Seq(T)
<1>1. Len(s) \in Nat /\ s \in [1..Len(s) -> T]
  BY LenProperties
<1> QED
  BY <1>1, SeqDef

LEMMA HeadTail ==
    ASSUME NEW S, NEW s \in Seq(S), s # <<>>
    PROVE  Head(s) \in S /\ Tail(s) \in Seq(S)
BY HeadTailProperties

LEMMA AppendIn ==
    ASSUME NEW S, NEW s \in Seq(S), NEW x \in S
    PROVE  Append(s, x) \in Seq(S)
BY AppendProperties

LEMMA EmptyIn == \A S : <<>> \in Seq(S)
BY EmptySeq

LEMMA Sentinels ==
    /\ None \notin Objects /\ Drainer \notin Objects /\ Deleter \notin Objects
    /\ None # Deleter
BY WritebackAssumption DEF None, Drainer, Deleter

-----------------------------------------------------------------------------
(* Types. *)

LEMMA IdleType == IdleFlush \in FlushType
<1>1. 0 \in 0..(Attempts - 1)
  BY WritebackAssumption
<1> QED
  BY <1>1, EmptyIn DEF IdleFlush, FlushType, Stages

LEMMA TypeInit == Init => TypeOK
<1> SUFFICES ASSUME Init PROVE TypeOK
  OBVIOUS
<1>1. 0 \in 0..(Attempts - 1) /\ 0 \in 0..MaxRestarts
  BY WritebackAssumption
<1>2. stream \in Seq(Objects) /\ flush \in [Owners -> FlushType]
  BY IdleType, EmptyIn DEF Init
<1> QED
  BY <1>1, <1>2 DEF Init, TypeOK, PCs

(* The records flush_pack goes through. *)
LEMMA FlushTypes ==
    ASSUME TypeOK, NEW t \in Owners
    PROVE  /\ flush[t] \in FlushType
           /\ \A st \in Stages : [flush EXCEPT ![t].stage = st] \in [Owners -> FlushType]
           /\ [flush EXCEPT ![t] = IdleFlush] \in [Owners -> FlushType]
           /\ \A b \in Seq(Objects) :
                [flush EXCEPT ![t] = [IdleFlush EXCEPT !.stage = "reading", !.todo = b]]
                  \in [Owners -> FlushType]
<1>1. flush[t] \in FlushType /\ flush \in [Owners -> FlushType]
  BY DEF TypeOK
<1>2. \A st \in Stages : [flush EXCEPT ![t].stage = st] \in [Owners -> FlushType]
  BY <1>1 DEF FlushType
<1>3. ASSUME NEW b \in Seq(Objects)
      PROVE  [IdleFlush EXCEPT !.stage = "reading", !.todo = b] \in FlushType
  <2>1. 0 \in 0..(Attempts - 1)
    BY WritebackAssumption
  <2> QED
    BY <2>1, EmptyIn DEF FlushType, Stages, IdleFlush
<1> QED
  BY <1>1, <1>2, <1>3, IdleType

LEMMA CleanType ==
    ASSUME TypeOK, NEW o \in Objects, MarkClean(o) \/ Free(o)
    PROVE  /\ journal' \in [Objects -> {"absent", "dirty", "clean"}]
           /\ dirty' \in [Keys -> Objects \cup {None}]
<1>1. RemoveIndex(o) \in [Keys -> Objects \cup {None}]
  BY DEF TypeOK, RemoveIndex
<1>2. dirty' \in [Keys -> Objects \cup {None}]
  BY <1>1 DEF MarkClean, Free, TypeOK
<1>3. journal' \in [Objects -> {"absent", "dirty", "clean"}]
  BY DEF MarkClean, Free, TypeOK
<1> QED
  BY <1>2, <1>3

LEMMA EndType ==
    ASSUME TypeOK, NEW t \in Owners, EndFlush(t)
    PROVE  /\ flush' \in [Owners -> FlushType] /\ pc' \in [Objects -> PCs]
           /\ lock' \in [Keys -> Objects \cup {None, Deleter}]
<1>1. flush' \in [Owners -> FlushType]
  BY FlushTypes DEF EndFlush
<1>2. pc' \in [Objects -> PCs] /\ lock' \in [Keys -> Objects \cup {None, Deleter}]
  BY DEF EndFlush, Release, TypeOK, PCs
<1> QED
  BY <1>1, <1>2

(* A bounded set of ids has a largest one. *)
LEMMA Largest ==
    ASSUME NEW S \in SUBSET Nat, S # {}, NEW n \in Nat, \A x \in S : x <= n
    PROVE  \E m \in S : \A x \in S : x <= m
<1> DEFINE D == {n - x : x \in S}
           R == OpToRel(<, Nat)
<1>1. D \subseteq Nat
  OBVIOUS
<1>2. D # {}
  OBVIOUS
<1>3. \A x, y \in Nat : x < y => <<x, y>> \in R
  BY DEF OpToRel
<1>4. IsWellFoundedOn(R, Nat)
  BY NatLessThanWellFounded
<1>5. \E d \in D : \A e \in D : <<e, d>> \notin R
  <2> HIDE DEF R, D
  <2> QED
    BY <1>1, <1>2, <1>4, WFMin
<1>6. PICK d \in D : \A e \in D : <<e, d>> \notin R
  BY <1>5
<1>7. \A e \in D : d <= e
  <2> HIDE DEF R, D
  <2> SUFFICES ASSUME NEW e \in D PROVE d <= e
    OBVIOUS
  <2>1. d \in Nat /\ e \in Nat /\ ~(e < d)
    BY <1>1, <1>3, <1>6
  <2> QED
    BY <2>1
<1>8. PICK m \in S : d = n - m
  OBVIOUS
<1>9. \A x \in S : n - x \in D
  OBVIOUS
<1> QED
  <2> SUFFICES ASSUME NEW x \in S PROVE x <= m
    OBVIOUS
  <2>1. d <= n - x
    BY <1>7, <1>9
  <2> QED
    BY <1>8, <2>1

(* open_inner indexes a dirty journal of the key whenever there is one. *)
LEMMA RebuiltIn ==
    ASSUME TypeOK, Bounded
    PROVE  /\ Rebuilt \in [Keys -> Objects \cup {None}]
           /\ \A k \in Keys : IF DirtyOf(k) = {} THEN Rebuilt[k] = None
                              ELSE Rebuilt[k] \in DirtyOf(k)
<1>1. ASSUME NEW k \in Keys, DirtyOf(k) # {}
      PROVE  (CHOOSE o \in DirtyOf(k) : \A p \in DirtyOf(k) : p <= o) \in DirtyOf(k)
  <2>1. DirtyOf(k) \in SUBSET Nat
    BY WritebackAssumption DEF DirtyOf
  <2>2. PICK n \in Nat : \A o \in DirtyOf(k) : o <= n
    BY DEF Bounded, DirtyOf
  <2>3. \E m \in DirtyOf(k) : \A p \in DirtyOf(k) : p <= m
    <3> HIDE DEF DirtyOf
    <3> QED
      BY <1>1, <2>1, <2>2, Largest
  <2> QED
    BY <2>3
<1>2. \A k \in Keys : Rebuilt[k] = IF DirtyOf(k) = {} THEN None
                                   ELSE CHOOSE o \in DirtyOf(k) : \A p \in DirtyOf(k) : p <= o
  BY DEF Rebuilt
<1>3. \A k \in Keys : DirtyOf(k) \subseteq Objects
  BY DEF DirtyOf
<1>4. \A k \in Keys : IF DirtyOf(k) = {} THEN Rebuilt[k] = None
                      ELSE Rebuilt[k] \in DirtyOf(k)
  BY <1>1, <1>2
<1> QED
  BY <1>3, <1>4 DEF Rebuilt

(* pack_index.insert gives each key of the pack one of the pack's objects. *)
LEMMA IndexEffect ==
    ASSUME TypeOK, NEW t \in Owners, FlushIndex(t), NEW k \in Keys
    PROVE  LET p == flush[t].pack
           IN  \/ /\ \A i \in 1..Len(p) : keyOf[p[i]] # k
                  /\ packIndex'[k] = packIndex[k]
               \/ \E i \in 1..Len(p) : /\ keyOf[p[i]] = k /\ p[i] \in Objects
                                        /\ packIndex'[k] = p[i]
<1> DEFINE p == flush[t].pack
           At == {i \in 1..Len(p) : keyOf[p[i]] = k}
           last == CHOOSE i \in At : \A j \in At : j <= i
<1>1. packIndex'[k] = IF At = {} THEN packIndex[k] ELSE p[last]
  BY DEF FlushIndex
<1>2. p \in Seq(Objects) /\ Len(p) \in Nat
  BY LenProperties DEF TypeOK, FlushType
<1>3. At \in SUBSET Nat /\ \A i \in At : i <= Len(p)
  BY <1>2
<1>4. At # {} => last \in At
  <2>1. At # {} => \E i \in At : \A j \in At : j <= i
    <3> HIDE DEF At
    <3> QED
      BY <1>2, <1>3, Largest
  <2> QED
    BY <2>1
<1>5. \A i \in 1..Len(p) : p[i] \in Objects
  BY <1>2, ElementOfSeq
<1> QED
  BY <1>1, <1>4, <1>5

(* The next object that a pack's clean-up comes to. *)
LEMMA HeadPacked ==
    ASSUME TypeOK, Batches, NEW t \in Owners, FlushClean(t) \/ FlushFree(t)
    PROVE  /\ flush[t].pack \in Seq(Small) /\ flush[t].pack \in Seq(packed)
           /\ flush[t].pack # <<>>
           /\ Head(flush[t].pack) \in Small /\ Head(flush[t].pack) \in packed
           /\ Head(flush[t].pack) \in Objects
           /\ Tail(flush[t].pack) \in Seq(Small) /\ Tail(flush[t].pack) \in Seq(packed)
           /\ Tail(flush[t].pack) \in Seq(Objects)
<1>1. flush[t].stage \in {"cleaning", "freeing"} /\ flush[t].pack # <<>>
  BY DEF FlushClean, FlushFree, Batches
<1>2. flush[t].pack \in Seq(Small) /\ flush[t].pack \in Seq(packed) /\ flush[t].pack \in Seq(Objects)
  BY <1>1 DEF Batches, TypeOK, FlushType
<1> QED
  BY <1>1, <1>2, HeadTail

LEMMA TypeStep ==
    ASSUME TypeOK, Bounded, Batches, [Next]_vars
    PROVE  TypeOK'
<1> USE DEF coordVars, diskVars, offVars, histVars
<1>1. ASSUME NEW o \in Objects, NEW k \in Keys, NEW n \in Lens, PutStart(o, k, n)
      PROVE  TypeOK'
  BY <1>1 DEF PutStart, TypeOK, PCs
<1>2. ASSUME NEW o \in Objects, NEW k \in Keys, WriteThrough(o, k)
      PROVE  TypeOK'
  BY <1>2 DEF WriteThrough, TypeOK, PCs
<1>3. ASSUME NEW o \in Objects, PutFail(o)
      PROVE  TypeOK'
  BY <1>3 DEF PutFail, TypeOK, PCs
<1>4. ASSUME NEW o \in Objects, PutCommit(o)
      PROVE  TypeOK'
  BY <1>4 DEF PutCommit, TypeOK, PCs
<1>5. ASSUME NEW o \in Objects, PutAck(o)
      PROVE  TypeOK'
  BY <1>5 DEF PutAck, TypeOK, PCs
<1>6. ASSUME NEW o \in Objects, OffloadBypass(o) \/ Resume(o)
      PROVE  TypeOK'
  <2>1. BeginBypass(o)
    BY <1>6 DEF OffloadBypass, Resume
  <2>2. pc' \in [Objects -> PCs]
    BY <2>1 DEF BeginBypass, TypeOK, PCs
  <2>3. lock' \in [Keys -> Objects \cup {None, Deleter}]
    BY <2>1 DEF BeginBypass, TypeOK
  <2> QED
    BY <2>1, <2>2, <2>3 DEF BeginBypass, TypeOK
<1>7. ASSUME NEW o \in Objects, len[o] \in Nat
      PROVE  bytes + len[o] \in Nat /\ Append(stream, o) \in Seq(Objects)
  BY <1>7, AppendIn DEF TypeOK
<1>8. \A o \in Objects : len[o] \in Nat
  <2>1. len \in [Objects -> Lens \cup {0}]
    BY DEF TypeOK
  <2>2. Lens \cup {0} \subseteq Nat
    BY WritebackAssumption
  <2> QED
    BY <2>1, <2>2
<1>9. ASSUME NEW o \in Objects, OffloadPend(o)
      PROVE  TypeOK'
  BY <1>7, <1>8, <1>9 DEF OffloadPend, Release, TypeOK, PCs
<1>10. ASSUME NEW o \in Objects, OffloadFlush(o)
       PROVE  TypeOK'
  <2>1. flush' \in [Owners -> FlushType]
    BY <1>7, <1>8, <1>10, FlushTypes DEF OffloadFlush, StartFlush, Owners
  <2> QED
    BY <1>10, <2>1, EmptyIn DEF OffloadFlush, StartFlush, TypeOK, PCs
<1>11. ASSUME Drain
       PROVE  TypeOK'
  <2>1. flush' \in [Owners -> FlushType]
    BY <1>11, FlushTypes DEF Drain, StartFlush, Owners, TypeOK
  <2> QED
    BY <1>11, <2>1, EmptyIn DEF Drain, StartFlush, TypeOK, PCs
<1>12. ASSUME NEW o \in Objects, BypassUpload(o)
       PROVE  TypeOK'
  BY <1>12 DEF BypassUpload, TypeOK, PCs
<1>13. ASSUME NEW o \in Objects, BypassFail(o)
       PROVE  TypeOK'
  <2>1. tries' \in [Objects -> 0..(Attempts - 1)]
    <3>1. tries[o] + 1 # Attempts => tries[o] + 1 \in 0..(Attempts - 1)
      <4>1. tries[o] \in 0..(Attempts - 1)
        BY DEF TypeOK
      <4> QED
        BY <4>1, WritebackAssumption
    <3>2. 0 \in 0..(Attempts - 1)
      BY WritebackAssumption
    <3> QED
      BY <1>13, <3>1, <3>2 DEF BypassFail, TypeOK
  <2> QED
    BY <1>13, <2>1 DEF BypassFail, TypeOK, PCs
<1>14. ASSUME NEW o \in Objects, BypassClean(o)
       PROVE  TypeOK'
  <2>1. MarkClean(o)
    BY <1>14 DEF BypassClean
  <2> QED
    BY <1>14, <2>1, CleanType DEF BypassClean, TypeOK, PCs
<1>15. ASSUME NEW o \in Objects, BypassFree(o)
       PROVE  TypeOK'
  <2>1. Free(o) /\ frags' \subseteq Objects
    BY <1>15 DEF BypassFree, Free, TypeOK
  <2> QED
    BY <1>15, <2>1, CleanType DEF BypassFree, Release, TypeOK, PCs
<1>16. ASSUME NEW k \in Keys, DeleteOrigin(k) \/ DeleteIndex(k)
       PROVE  TypeOK'
  BY <1>16 DEF DeleteOrigin, DeleteIndex, TypeOK
<1>17. ASSUME NEW k \in Keys, DeleteJournal(k)
       PROVE  TypeOK'
  BY <1>17 DEF DeleteJournal, TypeOK
<1>18. ASSUME Shutdown
       PROVE  TypeOK'
  BY <1>18 DEF Shutdown, TypeOK
<1>19. ASSUME Restart
       PROVE  TypeOK'
  <2>1. restarts' \in 0..MaxRestarts /\ 0 \in 0..(Attempts - 1)
    BY <1>19, WritebackAssumption DEF Restart, TypeOK
  <2>2. dirty' \in [Keys -> Objects \cup {None}]
    BY <1>19, RebuiltIn DEF Restart
  <2>3. pc' \in [Objects -> PCs]
    BY <1>19 DEF Restart, TypeOK, PCs
  <2>4. flush' \in [Owners -> FlushType] /\ stream' \in Seq(Objects)
    BY <1>19, IdleType, EmptyIn DEF Restart
  <2>5. shadowed' \subseteq Keys
    BY <1>19 DEF Restart, TypeOK
  <2> QED
    BY <1>19, <2>1, <2>2, <2>3, <2>4, <2>5 DEF Restart, TypeOK
<1>20. ASSUME NEW t \in Owners, FlushRead(t)
       PROVE  TypeOK'
  <2>1. flush[t].todo \in Seq(Objects) /\ flush[t].pack \in Seq(Objects) /\ flush[t].todo # <<>>
    BY <1>20 DEF FlushRead, TypeOK, FlushType
  <2>2. PICK q \in Seq(Objects) :
          flush' = [flush EXCEPT ![t].todo = Tail(@), ![t].pack = q]
    BY <1>20, <2>1, HeadTail, AppendIn DEF FlushRead
  <2>3. [flush EXCEPT ![t].todo = Tail(@), ![t].pack = q] \in [Owners -> FlushType]
    <3> DEFINE g == [flush EXCEPT ![t].todo = Tail(@)]
    <3>1. Tail(flush[t].todo) \in Seq(Objects)
      BY <2>1, HeadTail
    <3>2. g \in [Owners -> FlushType]
      BY <3>1 DEF TypeOK, FlushType
    <3>3. [g EXCEPT ![t].pack = q] \in [Owners -> FlushType]
      <4> HIDE DEF g
      <4> QED
        BY <3>2 DEF FlushType
    <3> QED
      BY <3>3
  <2> QED
    BY <1>20, <2>2, <2>3 DEF FlushRead, TypeOK
<1>21. ASSUME NEW t \in Owners, FlushSeal(t) \/ FlushFail(t) \/ FlushEnd(t)
       PROVE  TypeOK'
  <2>1. CASE EndFlush(t)
    BY <1>21, <2>1, EndType DEF FlushSeal, FlushFail, FlushEnd, TypeOK
  <2>2. CASE ~EndFlush(t)
    <3>1. flush[t].tries + 1 # Attempts => [flush EXCEPT ![t].tries = @ + 1] \in [Owners -> FlushType]
      <4>1. flush[t].tries + 1 # Attempts => flush[t].tries + 1 \in 0..(Attempts - 1)
        BY WritebackAssumption DEF TypeOK, FlushType
      <4>2. flush \in [Owners -> FlushType] /\ flush[t] \in FlushType
        BY DEF TypeOK
      <4>3. flush[t].tries + 1 # Attempts => [flush[t] EXCEPT !.tries = @ + 1] \in FlushType
        BY <4>1, <4>2 DEF FlushType
      <4>4. [flush EXCEPT ![t].tries = @ + 1] = [flush EXCEPT ![t] = [flush[t] EXCEPT !.tries = @ + 1]]
        BY <4>2
      <4> QED
        BY <4>2, <4>3, <4>4
    <3>2. \/ flush' = [flush EXCEPT ![t].stage = "uploading"]
          \/ flush[t].tries + 1 # Attempts /\ flush' = [flush EXCEPT ![t].tries = @ + 1]
      BY <1>21, <2>2 DEF FlushSeal, FlushFail, FlushEnd
    <3>3. [flush EXCEPT ![t].stage = "uploading"] \in [Owners -> FlushType]
      BY FlushTypes DEF Stages
    <3>4. flush' \in [Owners -> FlushType]
      BY <3>1, <3>2, <3>3
    <3> QED
      BY <1>21, <2>2, <3>4 DEF FlushSeal, FlushFail, FlushEnd, TypeOK
  <2> QED
    BY <2>1, <2>2
<1>22. ASSUME NEW t \in Owners, FlushCommit(t)
       PROVE  TypeOK'
  <2>1. flush' \in [Owners -> FlushType]
    BY <1>22, FlushTypes DEF FlushCommit, Stages
  <2>2. PackSet(t) \subseteq Objects
    <3>1. flush[t].pack \in Seq(Objects)
      BY DEF TypeOK, FlushType
    <3> QED
      BY <3>1, ElementOfSeq DEF PackSet
  <2> QED
    BY <1>22, <2>1, <2>2 DEF FlushCommit, TypeOK
<1>23. ASSUME NEW t \in Owners, FlushIndex(t)
       PROVE  TypeOK'
  <2>1. flush' \in [Owners -> FlushType]
    BY <1>23, FlushTypes DEF FlushIndex, Stages
  <2>2. packIndex' \in [Keys -> Objects \cup {None}]
    <3>1. \A k \in Keys : packIndex'[k] \in Objects \cup {None}
      BY <1>23, IndexEffect DEF TypeOK
    <3> QED
      BY <1>23, <3>1 DEF FlushIndex
  <2> QED
    BY <1>23, <2>1, <2>2 DEF FlushIndex, TypeOK
<1>24. ASSUME NEW t \in Owners, FlushClean(t)
       PROVE  TypeOK'
  <2>1. flush' \in [Owners -> FlushType]
    BY <1>24, FlushTypes DEF FlushClean, Stages
  <2>2. Head(flush[t].pack) \in Objects
    BY <1>24, HeadTail DEF FlushClean, TypeOK, FlushType
  <2>3. MarkClean(Head(flush[t].pack))
    BY <1>24 DEF FlushClean
  <2> QED
    BY <1>24, <2>1, <2>2, <2>3, CleanType DEF FlushClean, TypeOK
<1>25. ASSUME NEW t \in Owners, FlushFree(t)
       PROVE  TypeOK'
  <2>1. flush' \in [Owners -> FlushType]
    <3> DEFINE g == [flush EXCEPT ![t].stage = "cleaning"]
    <3>1. Tail(flush[t].pack) \in Seq(Objects)
      BY <1>25, HeadPacked
    <3>2. g \in [Owners -> FlushType] /\ g[t].pack = flush[t].pack
      <4>1. flush \in [Owners -> FlushType] /\ flush[t] \in FlushType
        BY DEF TypeOK
      <4>2. g[t].pack = flush[t].pack
        BY <4>1 DEF FlushType
      <4> QED
        BY <4>2, FlushTypes DEF Stages
    <3>3. [g EXCEPT ![t].pack = Tail(@)] \in [Owners -> FlushType]
      <4> HIDE DEF g
      <4> QED
        BY <3>1, <3>2 DEF FlushType
    <3> QED
      BY <1>25, <3>3 DEF FlushFree
  <2>2. Free(Head(flush[t].pack)) /\ Head(flush[t].pack) \in Objects
    BY <1>25, HeadPacked DEF FlushFree
  <2>3. frags' \subseteq Objects
    BY <2>2 DEF Free, TypeOK
  <2> QED
    BY <1>25, <2>1, <2>2, <2>3, CleanType DEF FlushFree, TypeOK
<1>26. CASE UNCHANGED vars
  BY <1>26 DEF vars, TypeOK
<1>27. ASSUME NEW o \in Objects, PutStray(o) \/ PutCancel(o)
       PROVE  TypeOK'
  BY <1>27 DEF PutStray, PutCancel, TypeOK, PCs
<1>28. ASSUME NEW o \in Objects, LateJournal(o)
       PROVE  TypeOK'
  <2>0. /\ pc \in [Objects -> PCs] /\ journal \in [Objects -> {"absent", "dirty", "clean"}]
        /\ dirty \in [Keys -> Objects \cup {None}]
    BY DEF TypeOK
  <2>1. pc' \in [Objects -> PCs]
    <3>1. pc' = [pc EXCEPT ![o] = "failed"] \/ pc' = [pc EXCEPT ![o] = "stray"]
      BY <1>28 DEF LateJournal
    <3> QED
      BY <2>0, <3>1 DEF PCs
  <2>2. /\ journal' \in [Objects -> {"absent", "dirty", "clean"}]
        /\ dirty' \in [Keys -> Objects \cup {None}]
    <3>1. /\ journal' = journal \/ journal' = [journal EXCEPT ![o] = "dirty"]
          /\ dirty' = dirty \/ dirty' = [dirty EXCEPT ![keyOf[o]] = o]
      BY <1>28 DEF LateJournal
    <3> QED
      BY <2>0, <3>1
  <2> QED
    BY <1>28, <2>1, <2>2 DEF LateJournal, TypeOK
<1>29. ASSUME NEW o \in Objects, BypassCleanFail(o)
       PROVE  TypeOK'
  <2>1. tries' \in [Objects -> 0..(Attempts - 1)]
    <3>1. tries[o] + 1 # Attempts => tries[o] + 1 \in 0..(Attempts - 1)
      <4>1. tries[o] \in 0..(Attempts - 1)
        BY DEF TypeOK
      <4> QED
        BY <4>1, WritebackAssumption
    <3>2. 0 \in 0..(Attempts - 1)
      BY WritebackAssumption
    <3> QED
      BY <1>29, <3>1, <3>2 DEF BypassCleanFail, TypeOK
  <2>2. journal' \in [Objects -> {"absent", "dirty", "clean"}]
    BY <1>29 DEF BypassCleanFail, TypeOK
  <2>3. /\ pc' \in [Objects -> PCs]
        /\ lock' \in [Keys -> Objects \cup {None, Deleter}]
    BY <1>29 DEF BypassCleanFail, TypeOK, PCs
  <2> QED
    BY <1>29, <2>1, <2>2, <2>3 DEF BypassCleanFail, TypeOK
<1>30. ASSUME NEW k \in Keys, DeleteFail(k)
       PROVE  TypeOK'
  <2>1. dirty' \in [Keys -> Objects \cup {None}] /\ torn' \subseteq Keys
    BY <1>30 DEF DeleteFail, TypeOK
  <2> QED
    BY <1>30, <2>1 DEF DeleteFail, TypeOK
<1> QED
  BY <1>27, <1>28, <1>29, <1>30, <1>1, <1>2, <1>3, <1>4, <1>5, <1>6, <1>9, <1>10, <1>11, <1>12, <1>13, <1>14, <1>15,
     <1>16, <1>17, <1>18, <1>19, <1>20, <1>21, <1>22, <1>23, <1>24, <1>25, <1>26
     DEF Next, TaskStep, FlushStep, DeleteStep

-----------------------------------------------------------------------------
(* What the steps do to the tasks, the guards and the flushes. *)

LEMMA IdleFields ==
    IdleFlush.stage = "idle" /\ IdleFlush.todo = <<>> /\ IdleFlush.pack = <<>>
BY DEF IdleFlush

(* A step of flush_pack leaves the other flushes alone, and the task that   *)
(* runs it too, unless it is the last one.                                  *)
LEMMA FlushEffect ==
    ASSUME TypeOK, NEW t \in Owners, FlushStep(t)
    PROVE  /\ flush[t].stage # "idle"
           /\ \A u \in Owners \ {t} : flush'[u] = flush[u]
           /\ UNCHANGED <<keyOf, len, delPc, tries, stream, bytes, origin, shutdown, restarts,
                          latest, uploaded, dropped, shadowed, torn>>
           /\ EndFlush(t) \/ (UNCHANGED <<pc, lock>> /\ flush'[t].stage # "idle")
<1> USE DEF coordVars, histVars, diskVars
<1>1. flush \in [Owners -> FlushType] /\ flush[t] \in FlushType
  BY DEF TypeOK
<1>2. ASSUME EndFlush(t)
      PROVE  \A u \in Owners \ {t} : flush'[u] = flush[u]
  BY <1>1, <1>2 DEF EndFlush
<1>3. CASE FlushRead(t)
  <2>1. PICK q : flush' = [flush EXCEPT ![t].todo = Tail(@), ![t].pack = q]
    BY <1>3 DEF FlushRead
  <2>2. flush'[t].stage = flush[t].stage /\ \A u \in Owners \ {t} : flush'[u] = flush[u]
    BY <1>1, <2>1 DEF FlushType
  <2> QED
    BY <1>3, <2>2 DEF FlushRead
<1>4. CASE FlushSeal(t) \/ FlushFail(t) \/ FlushEnd(t)
  <2>1. CASE EndFlush(t)
    BY <1>2, <1>4, <2>1 DEF FlushSeal, FlushFail, FlushEnd
  <2>2. CASE ~EndFlush(t)
    <3>1. \/ flush' = [flush EXCEPT ![t].stage = "uploading"]
          \/ flush' = [flush EXCEPT ![t].tries = @ + 1]
      BY <1>4, <2>2 DEF FlushSeal, FlushFail, FlushEnd
    <3>2. flush'[t].stage # "idle" /\ \A u \in Owners \ {t} : flush'[u] = flush[u]
      BY <1>1, <1>4, <2>2, <3>1 DEF FlushType, FlushSeal, FlushFail, FlushEnd
    <3> QED
      BY <1>4, <2>2, <3>2 DEF FlushSeal, FlushFail, FlushEnd
  <2> QED
    BY <2>1, <2>2
<1>5. CASE FlushCommit(t)
  BY <1>1, <1>5 DEF FlushCommit, FlushType
<1>6. CASE FlushIndex(t)
  BY <1>1, <1>6 DEF FlushIndex, FlushType
<1>7. CASE FlushClean(t)
  BY <1>1, <1>7 DEF FlushClean, FlushType
<1>8. CASE FlushFree(t)
  BY <1>1, <1>8 DEF FlushFree, FlushType
<1> QED
  BY <1>3, <1>4, <1>5, <1>6, <1>7, <1>8 DEF FlushStep

(* The steps of an object's task after its PUT began. *)
LEMMA TaskEffect ==
    ASSUME TypeOK, NEW o \in Objects, TaskStep(o) \/ Resume(o)
    PROVE  /\ pc[o] \in Busy \cup {"resume", "orphan"}
           /\ \A p \in Objects \ {o} : pc'[p] = pc[p]
           /\ pc'[o] \in Busy \cup {"done", "failed", "orphan", "stray"}
           /\ pc'[o] \in {"failed", "orphan"} => pc[o] \in {"staging", "committed", "orphan"}
           /\ pc'[o] \in {"staging", "committed"} => pc[o] = "staging"
           /\ UNCHANGED <<keyOf, len, delPc, packIndex, shutdown, restarts, packed, dropped, shadowed>>
           /\ \/ lock' = [lock EXCEPT ![keyOf[o]] = None] /\ pc'[o] \notin Busy
              \/ lock' = lock /\ (pc[o] \in Busy <=> pc'[o] \in Busy)
              \/ Resume(o) /\ lock' = [lock EXCEPT ![keyOf[o]] = o] /\ pc'[o] = "bypass"
              \/ OffloadBypass(o) /\ lock' = [lock EXCEPT ![keyOf[o]] = o] /\ pc'[o] = "bypass"
<1> USE DEF diskVars, offVars, histVars, Busy
<1>1. pc \in [Objects -> PCs] /\ lock \in [Keys -> Objects \cup {None, Deleter}]
  BY DEF TypeOK
<1>2. CASE PutFail(o)
  BY <1>1, <1>2 DEF PutFail
<1>3. CASE PutCommit(o)
  BY <1>1, <1>3 DEF PutCommit
<1>4. CASE PutAck(o)
  BY <1>1, <1>4 DEF PutAck
<1>5. CASE OffloadBypass(o) \/ Resume(o)
  <2>1. BeginBypass(o) /\ pc[o] \in {"acked", "resume"}
    BY <1>5 DEF OffloadBypass, Resume
  <2>2. CASE shutdown
    BY <1>1, <1>5, <2>1, <2>2 DEF BeginBypass
  <2>3. CASE ~shutdown
    BY <1>1, <1>5, <2>1, <2>3 DEF BeginBypass
  <2> QED
    BY <2>2, <2>3
<1>6. CASE OffloadPend(o)
  BY <1>1, <1>6 DEF OffloadPend, Release
<1>7. CASE OffloadFlush(o)
  BY <1>1, <1>7 DEF OffloadFlush, StartFlush
<1>8. CASE BypassUpload(o)
  BY <1>1, <1>8 DEF BypassUpload
<1>9. CASE BypassFail(o)
  <2> DEFINE over == shutdown \/ journal[o] # "dirty" \/ tries[o] + 1 = Attempts
  <2>1. /\ pc[o] = "bypass"
        /\ pc' = [pc EXCEPT ![o] = IF over THEN "done" ELSE @]
        /\ lock' = [lock EXCEPT ![keyOf[o]] = IF over THEN None ELSE @]
        /\ UNCHANGED <<keyOf, len, delPc, packIndex, shutdown, restarts, packed, dropped, shadowed>>
    BY <1>9 DEF BypassFail
  <2> HIDE DEF over
  <2>2. CASE over
    BY <1>1, <2>1, <2>2
  <2>3. CASE ~over
    <3>1. lock' = lock
      BY <1>1, <2>1, <2>3
    <3> QED
      BY <1>1, <2>1, <2>3, <3>1
  <2> QED
    BY <2>2, <2>3
<1>10. CASE BypassClean(o)
  BY <1>1, <1>10 DEF BypassClean
<1>11. CASE BypassFree(o)
  BY <1>1, <1>11 DEF BypassFree, Release
<1>12. CASE PutStray(o) \/ PutCancel(o)
  BY <1>1, <1>12 DEF PutStray, PutCancel
<1>13. CASE LateJournal(o)
  BY <1>1, <1>13 DEF LateJournal
<1>14. CASE BypassCleanFail(o)
  <2> DEFINE over == shutdown \/ tries[o] + 1 = Attempts
  <2>1. /\ pc[o] = "uploaded"
        /\ pc' = [pc EXCEPT ![o] = IF over THEN "done" ELSE "bypass"]
        /\ lock' = [lock EXCEPT ![keyOf[o]] = IF over THEN None ELSE @]
        /\ UNCHANGED <<keyOf, len, delPc, packIndex, shutdown, restarts, packed, dropped, shadowed>>
    BY <1>14 DEF BypassCleanFail
  <2> HIDE DEF over
  <2>2. CASE over
    BY <1>1, <2>1, <2>2
  <2>3. CASE ~over
    <3>1. lock' = lock
      BY <1>1, <2>1, <2>3
    <3> QED
      BY <1>1, <2>1, <2>3, <3>1
  <2> QED
    BY <2>2, <2>3
<1> QED
  BY <1>2, <1>3, <1>4, <1>5, <1>6, <1>7, <1>8, <1>9, <1>10, <1>11, <1>12, <1>13, <1>14 DEF TaskStep

(* A PUT keeps its key and its length, and an acknowledgement is not        *)
(* withdrawn.                                                               *)
LEMMA TaskStays ==
    ASSUME IInv, [Next]_vars, NEW o \in Objects
    PROVE  /\ pc[o] # "idle" => pc'[o] # "idle" /\ keyOf'[o] = keyOf[o] /\ len'[o] = len[o]
           /\ Journaled(o) => Journaled(o)'
<1> USE DEF IInv, coordVars, diskVars, offVars, histVars, Journaled
<1>1. pc \in [Objects -> PCs] /\ keyOf \in [Objects -> Keys \cup {None}]
      /\ len \in [Objects -> Lens \cup {0}]
  BY DEF TypeOK
<1>2. ASSUME NEW p \in Objects, NEW k \in Keys, NEW n \in Lens, PutStart(p, k, n)
      PROVE  /\ pc[o] # "idle" => pc'[o] # "idle" /\ keyOf'[o] = keyOf[o] /\ len'[o] = len[o]
             /\ Journaled(o) => Journaled(o)'
  BY <1>1, <1>2 DEF PutStart
<1>3. ASSUME NEW p \in Objects, NEW k \in Keys, WriteThrough(p, k)
      PROVE  /\ pc[o] # "idle" => pc'[o] # "idle" /\ keyOf'[o] = keyOf[o] /\ len'[o] = len[o]
             /\ Journaled(o) => Journaled(o)'
  BY <1>1, <1>3 DEF WriteThrough
<1>4. ASSUME NEW p \in Objects, TaskStep(p) \/ Resume(p)
      PROVE  /\ pc[o] # "idle" => pc'[o] # "idle" /\ keyOf'[o] = keyOf[o] /\ len'[o] = len[o]
             /\ Journaled(o) => Journaled(o)'
  <2>1. pc'[o] # pc[o] => o = p
    BY <1>4, TaskEffect
  <2> QED
    BY <1>4, <2>1, TaskEffect DEF Busy
<1>5. ASSUME NEW t \in Owners, FlushStep(t)
      PROVE  /\ pc[o] # "idle" => pc'[o] # "idle" /\ keyOf'[o] = keyOf[o] /\ len'[o] = len[o]
             /\ Journaled(o) => Journaled(o)'
  <2>1. UNCHANGED <<keyOf, len>> /\ (pc'[o] = pc[o] \/ pc'[o] = "done")
    BY <1>1, <1>5, FlushEffect DEF EndFlush
  <2>2. pc'[o] = "done" => pc'[o] # "idle"
    OBVIOUS
  <2> QED
    BY <2>1, <2>2
<1>6. ASSUME Restart
      PROVE  /\ pc[o] # "idle" => pc'[o] # "idle" /\ keyOf'[o] = keyOf[o] /\ len'[o] = len[o]
             /\ Journaled(o) => Journaled(o)'
  BY <1>1, <1>6 DEF Restart
<1>7. ASSUME UNCHANGED <<pc, keyOf, len>>
      PROVE  /\ pc[o] # "idle" => pc'[o] # "idle" /\ keyOf'[o] = keyOf[o] /\ len'[o] = len[o]
             /\ Journaled(o) => Journaled(o)'
  BY <1>7
<1>8. ASSUME NEW k \in Keys, DeleteOrigin(k) \/ DeleteStep(k)
      PROVE  UNCHANGED <<pc, keyOf, len>>
  BY <1>8 DEF DeleteOrigin, DeleteStep, DeleteIndex, DeleteJournal, DeleteFail
<1>9. ASSUME Drain \/ Shutdown \/ UNCHANGED vars
      PROVE  UNCHANGED <<pc, keyOf, len>>
  BY <1>9 DEF Drain, Shutdown, vars
<1> QED
  BY <1>2, <1>3, <1>4, <1>5, <1>6, <1>7, <1>8, <1>9 DEF Next

(* A journal written behind its client's back: by a put that failed late,   *)
(* or by one whose client hung up.                                          *)
Late(o) == (PutStray(o) \/ LateJournal(o)) /\ pc'[o] = "stray"

(* Such an object has no task until a restart. *)
LEMMA StrayStays ==
    ASSUME IInv, [Next]_vars, NEW o \in Objects
    PROVE  /\ pc'[o] = "stray" => pc[o] = "stray" \/ Late(o)
           /\ pc[o] = "stray" => pc'[o] = "stray" \/ Restart
           /\ Late(o) => ~Journaled(o)
<1> USE DEF IInv, coordVars, diskVars, offVars, histVars
<1> DEFINE Goal == /\ pc'[o] = "stray" => pc[o] = "stray" \/ Late(o)
                   /\ pc[o] = "stray" => pc'[o] = "stray" \/ Restart
<1>0. Late(o) => ~Journaled(o)
  BY DEF Late, PutStray, LateJournal, Journaled
<1>1. pc \in [Objects -> PCs]
  BY DEF TypeOK
<1>2. ASSUME NEW p \in Objects, NEW k \in Keys,
             WriteThrough(p, k) \/ \E n \in Lens : PutStart(p, k, n)
      PROVE  Goal
  BY <1>1, <1>2 DEF WriteThrough, PutStart
<1>3. ASSUME NEW p \in Objects, TaskStep(p) \/ Resume(p)
      PROVE  Goal
  <2>1. CASE p # o
    BY <1>3, <2>1, TaskEffect
  <2>2. CASE p = o
    <3>1. pc[o] # "stray"
      BY <1>3, <2>2, TaskEffect DEF Busy
    <3>2. ASSUME ~PutStray(o), ~LateJournal(o)
          PROVE  pc'[o] # "stray"
      <4>1. CASE OffloadBypass(o) \/ Resume(o)
        BY <1>1, <4>1 DEF OffloadBypass, Resume, BeginBypass
      <4>2. CASE PutFail(o) \/ PutCommit(o) \/ PutAck(o) \/ PutCancel(o)
        BY <1>1, <4>2 DEF PutFail, PutCommit, PutAck, PutCancel
      <4>3. CASE OffloadPend(o) \/ OffloadFlush(o) \/ BypassUpload(o)
        BY <1>1, <4>3 DEF OffloadPend, OffloadFlush, BypassUpload
      <4>4. CASE BypassFail(o) \/ BypassCleanFail(o)
        BY <1>1, <4>4 DEF BypassFail, BypassCleanFail
      <4>5. CASE BypassClean(o) \/ BypassFree(o)
        BY <1>1, <4>5 DEF BypassClean, BypassFree
      <4> QED
        BY <1>3, <2>2, <3>2, <4>1, <4>2, <4>3, <4>4, <4>5 DEF TaskStep
    <3> QED
      BY <3>1, <3>2 DEF Late
  <2> QED
    BY <2>1, <2>2
<1>4. ASSUME NEW t \in Owners, FlushStep(t)
      PROVE  Goal
  <2>1. pc'[o] = pc[o] \/ (pc'[o] = "done" /\ o = t)
    BY <1>1, <1>4, FlushEffect DEF EndFlush
  <2>2. o = t => pc[o] = "flushing"
    BY <1>4, FlushEffect DEF Guarded
  <2> QED
    BY <2>1, <2>2
<1>5. ASSUME Restart
      PROVE  Goal
  BY <1>1, <1>5 DEF Restart
<1>6. ASSUME NEW k \in Keys, DeleteOrigin(k) \/ DeleteStep(k)
      PROVE  Goal
  BY <1>6 DEF DeleteOrigin, DeleteStep, DeleteIndex, DeleteJournal, DeleteFail
<1>7. ASSUME Drain \/ Shutdown \/ UNCHANGED vars
      PROVE  Goal
  BY <1>7 DEF Drain, Shutdown, vars
<1> HIDE DEF Goal
<1>8. Goal
  BY <1>2, <1>3, <1>4, <1>5, <1>6, <1>7 DEF Next
<1> QED
  BY <1>0, <1>8 DEF Goal

-----------------------------------------------------------------------------
(* Every step preserves the invariant, part by part. *)

LEMMA InitIInv == Init => IInv
<1> SUFFICES ASSUME Init PROVE IInv
  OBVIOUS
<1>1. TypeOK
  BY TypeInit
<1>2. Bounded /\ Disk /\ AckedDurable /\ Latest
  BY DEF Init, Bounded, Disk, AckedDurable, Latest, Journaled
<1>3. Guarded
  BY IdleFields, Sentinels DEF Init, Guarded, Busy, Owners
<1>4. Batches
  BY IdleFields, EmptyIn DEF Init, Batches
<1>5. Served
  BY IdleFields DEF Init, Served
<1>6. Direct
  BY Sentinels DEF Init, Direct
<1> QED
  BY <1>1, <1>2, <1>3, <1>4, <1>5, <1>6 DEF IInv

LEMMA BoundedStep ==
    ASSUME IInv, [Next]_vars
    PROVE  Bounded'
<1> USE DEF IInv, coordVars, diskVars, offVars, histVars
<1>1. ASSUME NEW o \in Objects, \A p \in Objects \ {o} : journal'[p] = journal[p]
      PROVE  Bounded'
  <2>1. PICK n \in Nat : \A p \in Objects : journal[p] # "absent" => p <= n
    BY DEF Bounded
  <2>2. \A p \in Objects \ {o} : journal'[p] = journal[p]
    BY <1>1
  <2>3. Objects \subseteq Nat
    BY WritebackAssumption
  <2>4. CASE o <= n
    BY <2>1, <2>2, <2>4 DEF Bounded
  <2>5. CASE ~(o <= n)
    <3>1. \A p \in Objects : journal'[p] # "absent" => p <= o
      BY <2>1, <2>2, <2>3, <2>5
    <3> QED
      BY <2>3, <3>1 DEF Bounded
  <2> QED
    BY <2>4, <2>5
<1>2. ASSUME \A o \in Objects : journal'[o] # "absent" => journal[o] # "absent"
      PROVE  Bounded'
  BY <1>2 DEF Bounded
<1>3. ASSUME NEW o \in Objects, MarkClean(o) \/ Free(o)
      PROVE  \A q \in Objects : journal'[q] # "absent" => journal[q] # "absent"
  BY <1>3 DEF MarkClean, Free, TypeOK
<1>4. ASSUME NEW o \in Objects, TaskStep(o) \/ Resume(o)
      PROVE  \A p \in Objects \ {o} : journal'[p] = journal[p]
  BY <1>4 DEF TaskStep, Resume, PutFail, PutCommit, PutAck, PutStray, PutCancel, LateJournal,
              OffloadBypass, BeginBypass, OffloadPend, OffloadFlush, BypassUpload, BypassFail,
              BypassClean, BypassCleanFail, BypassFree, MarkClean, Free, TypeOK
<1>5. ASSUME NEW t \in Owners, FlushStep(t)
      PROVE  journal' = journal \/ \E o \in Objects : MarkClean(o) \/ Free(o)
  <2>1. CASE FlushClean(t) \/ FlushFree(t)
    BY <2>1, HeadPacked DEF FlushClean, FlushFree
  <2> QED
    BY <1>5, <2>1 DEF FlushStep, FlushRead, FlushSeal, FlushCommit, FlushFail, FlushIndex, FlushEnd
<1>6. ASSUME NEW k \in Keys, DeleteOrigin(k) \/ DeleteStep(k)
      PROVE  \A o \in Objects : journal'[o] # "absent" => journal[o] # "absent"
  BY <1>6 DEF DeleteOrigin, DeleteStep, DeleteIndex, DeleteJournal, DeleteFail, TypeOK
<1>7. ASSUME NEW o \in Objects, NEW k \in Keys,
             WriteThrough(o, k) \/ \E n \in Lens : PutStart(o, k, n)
      PROVE  journal' = journal
  BY <1>7 DEF WriteThrough, PutStart
<1>8. ASSUME Drain \/ Shutdown \/ Restart \/ UNCHANGED vars
      PROVE  journal' = journal
  BY <1>8 DEF Drain, Shutdown, Restart, vars
<1> QED
  BY <1>1, <1>2, <1>3, <1>4, <1>5, <1>6, <1>7, <1>8 DEF Next

LEMMA GuardedStep ==
    ASSUME IInv, [Next]_vars
    PROVE  Guarded'
<1> USE DEF IInv, coordVars, diskVars, offVars, histVars
<1>1. /\ pc \in [Objects -> PCs] /\ keyOf \in [Objects -> Keys \cup {None}]
      /\ lock \in [Keys -> Objects \cup {None, Deleter}]
      /\ delPc \in [Keys -> {"idle", "index", "journal"}]
      /\ flush \in [Owners -> FlushType]
      /\ Objects \subseteq Owners
  BY DEF TypeOK, Owners
<1>2. ASSUME NEW o \in Objects, NEW k \in Keys, NEW n \in Lens, PutStart(o, k, n)
      PROVE  Guarded'
  <2>1. /\ o \notin Through
        /\ pc[o] = "idle" /\ pc'[o] = "staging" /\ keyOf'[o] = k /\ lock[k] = None /\ lock'[k] = o
        /\ \A p \in Objects \ {o} : pc'[p] = pc[p] /\ keyOf'[p] = keyOf[p]
        /\ \A j \in Keys \ {k} : lock'[j] = lock[j]
        /\ UNCHANGED <<delPc, flush>>
    BY <1>1, <1>2 DEF PutStart
  <2> QED
    BY <2>1, Sentinels DEF Guarded, Busy
<1>3. ASSUME NEW o \in Objects, NEW k \in Keys, WriteThrough(o, k)
      PROVE  Guarded'
  <2>1. /\ pc[o] = "idle" /\ pc'[o] = "done" /\ keyOf'[o] = k
        /\ \A p \in Objects \ {o} : pc'[p] = pc[p] /\ keyOf'[p] = keyOf[p]
        /\ UNCHANGED <<lock, delPc, flush>>
    BY <1>1, <1>3 DEF WriteThrough
  <2> QED
    BY <2>1 DEF Guarded, Busy
<1>4. ASSUME NEW o \in Objects, TaskStep(o) \/ Resume(o)
      PROVE  Guarded'
  <2>1. /\ keyOf[o] \in Keys /\ UNCHANGED <<keyOf, delPc>>
        /\ \A p \in Objects \ {o} : pc'[p] = pc[p]
        /\ pc'[o] # "idle" /\ o \notin Through
    BY <1>4, TaskEffect DEF Guarded, Busy
  <2>2. /\ \A p \in Objects \ {o} : flush'[p] = flush[p]
        /\ flush'[o].stage # "idle" => pc'[o] = "flushing"
    <3>1. CASE OffloadFlush(o)
      BY <1>1, <3>1 DEF OffloadFlush, StartFlush
    <3>2. CASE ~OffloadFlush(o)
      <4>1. flush' = flush /\ pc[o] # "flushing"
        BY <1>4, <3>2 DEF TaskStep, Resume, PutFail, PutCommit, PutAck, PutStray, PutCancel,
                          LateJournal, OffloadBypass, BeginBypass, OffloadPend, BypassUpload,
                          BypassFail, BypassClean, BypassCleanFail, BypassFree
      <4> QED
        BY <4>1 DEF Guarded
    <3> QED
      BY <3>1, <3>2
  <2>3. CASE lock' = [lock EXCEPT ![keyOf[o]] = None] /\ pc'[o] \notin Busy
    <3>1. lock[keyOf[o]] = o \/ lock[keyOf[o]] = None
      <4>1. CASE Resume(o)
        BY <4>1 DEF Resume
      <4>2. CASE TaskStep(o) /\ ~LateJournal(o)
        <5>1. pc[o] \in Busy
          BY <4>2 DEF TaskStep, PutFail, PutCommit, PutAck, PutStray, PutCancel, OffloadBypass,
                      OffloadPend, OffloadFlush, BypassUpload, BypassFail, BypassClean,
                      BypassCleanFail, BypassFree, Busy
        <5> QED
          BY <5>1 DEF Guarded
      <4>3. CASE LateJournal(o)
        <5>1. lock' = lock
          BY <4>3 DEF LateJournal
        <5> QED
          BY <1>1, <2>1, <2>3, <5>1
      <4> QED
        BY <1>4, <4>1, <4>2, <4>3
    <3>2. lock'[keyOf[o]] = None /\ \A k \in Keys : k # keyOf[o] => lock'[k] = lock[k]
      BY <1>1, <2>1, <2>3
    <3> QED
      BY <2>1, <2>2, <2>3, <3>1, <3>2, Sentinels DEF Guarded
  <2>4. CASE lock' = lock /\ (pc[o] \in Busy <=> pc'[o] \in Busy)
    BY <2>1, <2>2, <2>4 DEF Guarded
  <2>5. CASE lock' = [lock EXCEPT ![keyOf[o]] = o] /\ (Resume(o) \/ OffloadBypass(o))
    <3>1. lock[keyOf[o]] = o \/ lock[keyOf[o]] = None
      BY <2>5 DEF Resume, OffloadBypass, Guarded, Busy
    <3>2. lock'[keyOf[o]] = o /\ \A k \in Keys : k # keyOf[o] => lock'[k] = lock[k]
      BY <1>1, <2>1, <2>5
    <3>3. \A k \in Keys : lock'[k] = Deleter <=> delPc'[k] # "idle"
      <4>1. lock[keyOf[o]] # Deleter /\ lock'[keyOf[o]] # Deleter
        BY <3>1, <3>2, Sentinels
      <4> QED
        BY <2>1, <3>2, <4>1 DEF Guarded
    <3>4. \A p \in Objects : pc'[p] \in Busy => lock'[keyOf'[p]] = p
      <4> SUFFICES ASSUME NEW p \in Objects, p # o, pc[p] \in Busy
                   PROVE  lock'[keyOf[p]] = p
        BY <2>1, <3>2
      <4>1. keyOf[p] \in Keys /\ lock[keyOf[p]] = p
        BY DEF Guarded, Busy
      <4> QED
        BY <3>1, <3>2, <4>1, Sentinels
    <3> QED
      BY <2>1, <2>2, <3>3, <3>4 DEF Guarded
  <2> QED
    BY <1>4, <2>3, <2>4, <2>5, TaskEffect
<1>5. ASSUME NEW t \in Owners, FlushStep(t)
      PROVE  Guarded'
  <2>1. /\ flush[t].stage # "idle" /\ UNCHANGED <<keyOf, delPc>>
        /\ \A u \in Owners \ {t} : flush'[u] = flush[u]
    BY <1>5, FlushEffect
  <2>2. CASE UNCHANGED <<pc, lock>> /\ flush'[t].stage # "idle"
    BY <1>1, <2>1, <2>2 DEF Guarded
  <2>3. CASE EndFlush(t) /\ t = Drainer
    BY <1>1, <2>1, <2>3, Sentinels DEF EndFlush, Guarded
  <2>4. CASE EndFlush(t) /\ t # Drainer
    <3>1. t \in Objects /\ pc[t] = "flushing"
      BY <2>1, <2>4 DEF Owners, Guarded
    <3>2. keyOf[t] \in Keys /\ lock[keyOf[t]] = t
      BY <3>1 DEF Guarded, Busy
    <3>3. /\ flush'[t] = IdleFlush /\ pc'[t] = "done" /\ lock'[keyOf[t]] = None
          /\ \A p \in Objects \ {t} : pc'[p] = pc[p]
          /\ \A k \in Keys : k # keyOf[t] => lock'[k] = lock[k]
      BY <1>1, <2>4, <3>1, <3>2 DEF EndFlush, Release
    <3> QED
      BY <1>1, <2>1, <3>1, <3>2, <3>3, IdleFields, Sentinels DEF Guarded, Busy
  <2> QED
    BY <1>5, <2>2, <2>3, <2>4, FlushEffect
<1>6. ASSUME NEW k \in Keys, DeleteOrigin(k) \/ DeleteStep(k)
      PROVE  Guarded'
  <2>1. UNCHANGED <<pc, keyOf, flush>>
    BY <1>6 DEF DeleteOrigin, DeleteStep, DeleteIndex, DeleteJournal, DeleteFail
  <2>2. CASE DeleteOrigin(k)
    <3>1. /\ lock[k] = None /\ lock'[k] = Deleter /\ delPc'[k] = "index"
          /\ \A j \in Keys \ {k} : lock'[j] = lock[j] /\ delPc'[j] = delPc[j]
      BY <1>1, <2>2 DEF DeleteOrigin
    <3>2. \A p \in Objects : pc[p] \in Busy => lock'[keyOf[p]] = p
      <4> SUFFICES ASSUME NEW p \in Objects, pc[p] \in Busy
                   PROVE  lock'[keyOf[p]] = p
        OBVIOUS
      <4>1. keyOf[p] \in Keys /\ lock[keyOf[p]] = p
        BY DEF Guarded, Busy
      <4> QED
        BY <3>1, <4>1, Sentinels
    <3> QED
      BY <2>1, <3>1, <3>2 DEF Guarded
  <2>3. CASE DeleteIndex(k)
    <3>1. /\ delPc[k] = "index" /\ delPc'[k] = "journal" /\ lock' = lock
          /\ \A j \in Keys \ {k} : delPc'[j] = delPc[j]
      BY <1>1, <2>3 DEF DeleteIndex
    <3> QED
      BY <2>1, <3>1 DEF Guarded
  <2>4. CASE DeleteJournal(k) \/ DeleteFail(k)
    <3>1. /\ delPc[k] = "journal" /\ delPc'[k] = "idle" /\ lock'[k] = None
          /\ \A j \in Keys \ {k} : lock'[j] = lock[j] /\ delPc'[j] = delPc[j]
      BY <1>1, <2>4 DEF DeleteJournal, DeleteFail
    <3>2. lock[k] = Deleter
      BY <3>1 DEF Guarded
    <3>3. \A p \in Objects : pc[p] \in Busy => lock'[keyOf[p]] = p
      <4> SUFFICES ASSUME NEW p \in Objects, pc[p] \in Busy
                   PROVE  lock'[keyOf[p]] = p
        OBVIOUS
      <4>1. keyOf[p] \in Keys /\ lock[keyOf[p]] = p
        BY DEF Guarded, Busy
      <4> QED
        BY <3>1, <3>2, <4>1, Sentinels
    <3>4. lock'[k] # Deleter
      BY <3>1, Sentinels
    <3> QED
      BY <2>1, <3>1, <3>3, <3>4 DEF Guarded
  <2> QED
    BY <1>6, <2>2, <2>3, <2>4 DEF DeleteStep
<1>7. ASSUME Drain
      PROVE  Guarded'
  <2>1. UNCHANGED <<pc, keyOf, lock, delPc>> /\ \A p \in Objects : flush'[p] = flush[p]
    BY <1>1, <1>7, Sentinels DEF Drain, StartFlush
  <2> QED
    BY <2>1 DEF Guarded
<1>8. ASSUME Restart
      PROVE  Guarded'
  <2>1. \A o \in Objects : pc'[o] \notin Busy
    BY <1>1, <1>8 DEF Restart, PCs, Busy
  <2>2. \A o \in Objects : pc'[o] # "idle" => keyOf'[o] \in Keys
    <3> SUFFICES ASSUME NEW o \in Objects, pc'[o] # "idle" PROVE keyOf[o] \in Keys
      BY <1>8 DEF Restart
    <3>1. CASE pc[o] # "idle"
      BY <3>1 DEF Guarded
    <3>2. CASE pc[o] = "idle"
      <4>1. PICK k \in Keys : Rebuilt[k] = o
        BY <1>8, <3>2 DEF Restart
      <4>2. keyOf[o] = k
        BY <4>1, RebuiltIn, Sentinels DEF DirtyOf
      <4> QED
        BY <4>2
    <3> QED
      BY <3>1, <3>2
  <2>3. \A o \in Objects : flush'[o].stage = "idle"
    BY <1>1, <1>8, IdleFields DEF Restart
  <2>5. \A o \in Through : pc'[o] \in {"idle", "done"}
    <3> SUFFICES ASSUME NEW o \in Through PROVE pc'[o] \in {"idle", "done"}
      OBVIOUS
    <3>1. o \in Objects /\ pc[o] \in {"idle", "done"}
      BY WritebackAssumption DEF Guarded
    <3>2. \A k \in Keys : Rebuilt[k] # o
      BY <3>1, RebuiltIn, Sentinels DEF DirtyOf, Disk, Journaled
    <3> QED
      BY <1>8, <3>1, <3>2 DEF Restart
  <2>4. \A k \in Keys : lock'[k] = None /\ delPc'[k] = "idle"
    BY <1>8 DEF Restart
  <2> QED
    BY <2>1, <2>2, <2>3, <2>4, <2>5, Sentinels DEF Guarded
<1>9. ASSUME Shutdown \/ UNCHANGED vars
      PROVE  Guarded'
  BY <1>9 DEF Shutdown, vars, Guarded
<1> QED
  BY <1>2, <1>3, <1>4, <1>5, <1>6, <1>7, <1>8, <1>9 DEF Next

LEMMA BatchesStep ==
    ASSUME IInv, [Next]_vars
    PROVE  Batches'
<1> USE DEF IInv, coordVars, diskVars, offVars, histVars
<1>0. Small \subseteq Small'
  <2> SUFFICES ASSUME NEW o \in Small PROVE o \in Small'
    OBVIOUS
  <2>1. o \in Objects /\ Journaled(o) /\ pc[o] \notin {"idle", "stray"} /\ len[o] <= SizeLimit
    BY DEF Small, Journaled
  <2>2. pc'[o] # "stray"
    BY <2>1, StrayStays
  <2> QED
    BY <2>1, <2>2, TaskStays DEF Small
<1>1. /\ flush \in [Owners -> FlushType] /\ Objects \subseteq Owners
      /\ packed \subseteq Small'
      /\ stream \in Seq(Small') /\ \A t \in Owners : /\ flush[t].todo \in Seq(Small')
                                                     /\ flush[t].pack \in Seq(Small')
  BY <1>0, SeqMono DEF TypeOK, Owners, Batches
<1>2. ASSUME UNCHANGED <<stream, flush, packed>>
      PROVE  Batches'
  BY <1>1, <1>2 DEF Batches
<1>3. ASSUME NEW o \in Objects, pc[o] = "acked", len[o] <= SizeLimit, TaskStep(o)
      PROVE  Append(stream, o) \in Seq(Small')
  <2>1. o \in Small
    BY <1>3 DEF Small, Journaled, Guarded
  <2> QED
    BY <1>0, <1>1, <2>1, AppendIn
<1>4. ASSUME NEW o \in Objects, TaskStep(o) \/ Resume(o)
      PROVE  Batches'
  <2>1. CASE OffloadPend(o)
    <3>1. stream' \in Seq(Small') /\ UNCHANGED <<flush, packed>>
      BY <1>3, <2>1 DEF OffloadPend, TaskStep
    <3> QED
      BY <1>1, <3>1 DEF Batches
  <2>2. CASE OffloadFlush(o)
    <3>1. Append(stream, o) \in Seq(Small')
      BY <1>3, <2>2 DEF OffloadFlush, TaskStep
    <3>2. /\ flush'[o] = [IdleFlush EXCEPT !.stage = "reading", !.todo = Append(stream, o)]
          /\ \A t \in Owners \ {o} : flush'[t] = flush[t]
          /\ stream' = <<>> /\ packed' = packed
      BY <1>1, <2>2 DEF OffloadFlush, StartFlush
    <3>3. flush'[o].stage = "reading" /\ flush'[o].todo = Append(stream, o) /\ flush'[o].pack = <<>>
      BY <3>2 DEF IdleFlush
    <3> QED
      BY <1>1, <3>1, <3>2, <3>3, EmptyIn DEF Batches
  <2>3. CASE ~OffloadPend(o) /\ ~OffloadFlush(o)
    <3>1. UNCHANGED <<stream, flush, packed>>
      BY <1>4, <2>3 DEF TaskStep, Resume, PutFail, PutCommit, PutAck, PutStray, PutCancel,
                        LateJournal, OffloadBypass, BeginBypass, BypassUpload, BypassFail,
                        BypassClean, BypassCleanFail, BypassFree
    <3> QED
      BY <1>2, <3>1
  <2> QED
    BY <2>1, <2>2, <2>3
<1>5. ASSUME Drain
      PROVE  Batches'
  <2>1. /\ flush'[Drainer] = [IdleFlush EXCEPT !.stage = "reading", !.todo = stream]
        /\ \A t \in Owners \ {Drainer} : flush'[t] = flush[t]
        /\ stream' = <<>> /\ packed' = packed
    BY <1>1, <1>5 DEF Drain, StartFlush, Owners
  <2>2. /\ flush'[Drainer].stage = "reading" /\ flush'[Drainer].todo = stream
        /\ flush'[Drainer].pack = <<>>
    BY <2>1 DEF IdleFlush
  <2> QED
    BY <1>1, <2>1, <2>2, EmptyIn DEF Batches
<1>6. ASSUME NEW t \in Owners, FlushStep(t), packed \subseteq packed', packed' \subseteq Small',
             flush'[t].todo \in Seq(Small') /\ flush'[t].pack \in Seq(Small'),
             flush'[t].stage \in {"indexing", "cleaning", "freeing"} => flush'[t].pack \in Seq(packed'),
             flush'[t].stage = "freeing" => flush'[t].pack # <<>>
      PROVE  Batches'
  <2>1. stream' = stream /\ \A u \in Owners \ {t} : flush'[u] = flush[u]
    BY <1>6, FlushEffect
  <2>2. \A u \in Owners : flush[u].stage \in {"indexing", "cleaning", "freeing"}
                            => flush[u].pack \in Seq(packed')
    BY <1>6, SeqMono DEF Batches
  <2> QED
    BY <1>1, <1>6, <2>1, <2>2 DEF Batches
<1>7. ASSUME NEW t \in Owners, FlushStep(t)
      PROVE  Batches'
  <2>1. flush[t] \in FlushType
    BY <1>1
  <2>2. CASE FlushRead(t)
    <3>1. PICK q \in {flush[t].pack, Append(flush[t].pack, Head(flush[t].todo))} :
            flush' = [flush EXCEPT ![t].todo = Tail(@), ![t].pack = q]
      BY <2>2 DEF FlushRead
    <3>2. /\ flush'[t].todo = Tail(flush[t].todo) /\ flush'[t].pack = q
          /\ flush'[t].stage = "reading" /\ packed' = packed
      BY <1>1, <2>1, <2>2, <3>1 DEF FlushRead, FlushType
    <3>3. /\ Tail(flush[t].todo) \in Seq(Small') /\ Head(flush[t].todo) \in Small'
      BY <1>1, <2>2, HeadTail DEF FlushRead
    <3>4. q \in Seq(Small')
      BY <1>1, <3>1, <3>3, AppendIn
    <3> QED
      BY <1>1, <1>6, <1>7, <3>2, <3>3, <3>4
  <2>3. CASE EndFlush(t)
    <3>1. flush'[t] = IdleFlush
      BY <1>1, <2>3 DEF EndFlush
    <3>2. packed' = packed
      <4>1. ~FlushCommit(t)
        BY <2>1, <3>1, IdleFields DEF FlushCommit, TypeOK, FlushType
      <4> QED
        BY <1>7, <4>1 DEF FlushStep, FlushRead, FlushSeal, FlushFail, FlushIndex, FlushClean,
                          FlushFree, FlushEnd
    <3> QED
      BY <1>1, <1>6, <1>7, <3>1, <3>2, IdleFields, EmptyIn
  <2>4. CASE (FlushSeal(t) \/ FlushFail(t) \/ FlushEnd(t)) /\ ~EndFlush(t)
    <3>1. /\ flush[t].stage \in {"reading", "uploading"} /\ packed' = packed
          /\ \/ flush' = [flush EXCEPT ![t].stage = "uploading"]
             \/ flush' = [flush EXCEPT ![t].tries = @ + 1]
      BY <2>4 DEF FlushSeal, FlushFail, FlushEnd
    <3>2. /\ flush'[t].stage \in {"reading", "uploading"}
          /\ flush'[t].todo = flush[t].todo /\ flush'[t].pack = flush[t].pack
      BY <1>1, <2>1, <3>1 DEF FlushType
    <3> QED
      BY <1>1, <1>6, <1>7, <3>1, <3>2
  <2>5. CASE FlushCommit(t)
    <3>1. /\ flush'[t].stage = "indexing" /\ flush'[t].todo = flush[t].todo
          /\ flush'[t].pack = flush[t].pack /\ packed' = packed \cup PackSet(t)
      BY <1>1, <2>1, <2>5 DEF FlushCommit, FlushType
    <3>2. flush[t].pack \in Seq(packed')
      BY <1>1, <3>1, SeqOf DEF PackSet
    <3>3. packed' \subseteq Small'
      BY <1>1, <3>1, ElementOfSeq DEF PackSet
    <3> QED
      BY <1>1, <1>6, <1>7, <3>1, <3>2, <3>3
  <2>6. CASE FlushIndex(t)
    <3>1. /\ flush[t].stage = "indexing" /\ flush'[t].stage = "cleaning"
          /\ flush'[t].todo = flush[t].todo /\ flush'[t].pack = flush[t].pack /\ packed' = packed
      BY <1>1, <2>1, <2>6 DEF FlushIndex, FlushType
    <3>2. flush[t].pack \in Seq(packed)
      BY <3>1 DEF Batches
    <3> QED
      BY <1>1, <1>6, <1>7, <3>1, <3>2
  <2>7. CASE FlushClean(t)
    <3>1. /\ flush'[t].stage = "freeing" /\ flush'[t].todo = flush[t].todo
          /\ flush'[t].pack = flush[t].pack /\ packed' = packed
      BY <1>1, <2>1, <2>7 DEF FlushClean, FlushType
    <3>2. flush[t].pack \in Seq(packed) /\ flush[t].pack # <<>>
      BY <2>7, HeadPacked
    <3> QED
      BY <1>1, <1>6, <1>7, <3>1, <3>2
  <2>8. CASE FlushFree(t)
    <3>1. /\ flush'[t].stage = "cleaning" /\ flush'[t].todo = flush[t].todo
          /\ flush'[t].pack = Tail(flush[t].pack) /\ packed' = packed
      BY <1>1, <2>1, <2>8 DEF FlushFree, FlushType
    <3>2. Tail(flush[t].pack) \in Seq(Small') /\ Tail(flush[t].pack) \in Seq(packed)
      BY <1>0, <2>8, HeadPacked, SeqMono
    <3> QED
      BY <1>1, <1>6, <1>7, <3>1, <3>2
  <2> QED
    BY <1>7, <2>2, <2>3, <2>4, <2>5, <2>6, <2>7, <2>8 DEF FlushStep
<1>8. ASSUME Restart
      PROVE  Batches'
  <2>1. stream' = <<>> /\ packed' = packed /\ \A t \in Owners : flush'[t] = IdleFlush
    BY <1>8 DEF Restart
  <2> QED
    BY <1>1, <2>1, IdleFields, EmptyIn DEF Batches
<1>9. ASSUME NEW o \in Objects, NEW k \in Keys,
             WriteThrough(o, k) \/ \E n \in Lens : PutStart(o, k, n)
      PROVE  Batches'
  BY <1>2, <1>9 DEF WriteThrough, PutStart
<1>10. ASSUME NEW k \in Keys, DeleteOrigin(k) \/ DeleteStep(k)
       PROVE  Batches'
  BY <1>2, <1>10 DEF DeleteOrigin, DeleteStep, DeleteIndex, DeleteJournal, DeleteFail
<1>11. ASSUME Shutdown \/ UNCHANGED vars
       PROVE  Batches'
  BY <1>2, <1>11 DEF Shutdown, vars
<1> QED
  BY <1>4, <1>5, <1>7, <1>8, <1>9, <1>10, <1>11 DEF Next

-----------------------------------------------------------------------------
(* What the steps do to journals, fragments and index. *)

(* Where a task can have come from. *)
LEMMA Sources ==
    ASSUME IInv, [Next]_vars, NEW o \in Objects
    PROVE  /\ pc'[o] = "committed" => pc[o] = "committed" \/ PutCommit(o)
           /\ pc'[o] \in {"uploaded", "cleaned"} => pc[o] \in {"uploaded", "cleaned"} \/ BypassUpload(o)
           /\ pc'[o] = "acked" => pc[o] = "acked" \/ PutAck(o)
           /\ pc'[o] = "bypass" => pc[o] \in {"acked", "bypass", "resume", "uploaded"}
           /\ pc'[o] = "orphan" => pc[o] \in {"committed", "orphan"}
           /\ pc'[o] = "resume" => pc[o] = "resume" \/ Restart
           /\ Journaled(o)' => Journaled(o) \/ PutAck(o) \/ Late(o)
<1> USE DEF IInv, coordVars, diskVars, offVars, histVars
<1> DEFINE Goal ==
           /\ pc'[o] = "committed" => pc[o] = "committed" \/ PutCommit(o)
           /\ pc'[o] \in {"uploaded", "cleaned"} => pc[o] \in {"uploaded", "cleaned"} \/ BypassUpload(o)
           /\ pc'[o] = "acked" => pc[o] = "acked" \/ PutAck(o)
           /\ pc'[o] = "bypass" => pc[o] \in {"acked", "bypass", "resume", "uploaded"}
           /\ pc'[o] = "orphan" => pc[o] \in {"committed", "orphan"}
           /\ pc'[o] = "resume" => pc[o] = "resume" \/ Restart
           /\ Journaled(o)' => Journaled(o) \/ PutAck(o) \/ Late(o)
<1> SUFFICES Goal
  OBVIOUS
<1>1. pc \in [Objects -> PCs]
  BY DEF TypeOK
<1>2. ASSUME pc'[o] = pc[o]
      PROVE  Goal
  BY <1>2 DEF Journaled
<1>3. ASSUME NEW p \in Objects, NEW k \in Keys,
             WriteThrough(p, k) \/ \E n \in Lens : PutStart(p, k, n)
      PROVE  Goal
  <2>1. pc'[o] = pc[o] \/ (o = p /\ pc'[o] = "staging") \/ (o \in Through /\ pc'[o] = "done")
    BY <1>1, <1>3 DEF WriteThrough, PutStart
  <2> QED
    BY <1>2, <2>1 DEF Journaled
<1>4. ASSUME NEW p \in Objects, TaskStep(p) \/ Resume(p)
      PROVE  Goal
  <2>1. CASE p # o
    BY <1>2, <1>4, <2>1, TaskEffect
  <2>2. CASE p = o /\ pc[o] \in {"staging", "committed", "orphan"}
    <3>1. \/ PutFail(o) \/ PutCommit(o) \/ PutAck(o)
          \/ PutStray(o) \/ PutCancel(o) \/ LateJournal(o)
      BY <1>4, <2>2 DEF TaskStep, Resume, OffloadBypass, OffloadPend, OffloadFlush,
                        BypassUpload, BypassFail, BypassClean, BypassCleanFail, BypassFree
    <3>2. \/ pc'[o] = "failed"
          \/ PutCommit(o) /\ pc'[o] = "committed"
          \/ PutAck(o)  /\ pc'[o] = "acked"
          \/ pc[o] = "committed" /\ pc'[o] = "orphan"
          \/ Late(o) /\ pc'[o] = "stray"
      BY <1>1, <3>1 DEF PutFail, PutCommit, PutAck, PutStray, PutCancel, LateJournal, Late
    <3> QED
      BY <3>2 DEF Journaled
  <2>3. CASE p = o /\ pc[o] \notin {"staging", "committed", "orphan"}
    <3>1. Journaled(o)
      BY <1>4, <2>3, TaskEffect DEF Journaled, Busy, Guarded
    <3>2. \/ pc'[o] \in {"done", "flushing"}
          \/ pc[o] \in {"acked", "bypass", "resume", "uploaded"} /\ pc'[o] = "bypass"
          \/ BypassUpload(o) /\ pc'[o] = "uploaded"
          \/ pc[o] = "uploaded" /\ pc'[o] = "cleaned"
      <4>1. CASE OffloadBypass(o) \/ Resume(o)
        BY <1>1, <4>1 DEF OffloadBypass, Resume, BeginBypass
      <4>2. CASE OffloadPend(o) \/ OffloadFlush(o)
        BY <1>1, <4>2 DEF OffloadPend, OffloadFlush
      <4>3. CASE BypassUpload(o)
        BY <1>1, <4>3 DEF BypassUpload
      <4>4. CASE BypassFail(o) \/ BypassCleanFail(o)
        BY <1>1, <4>4 DEF BypassFail, BypassCleanFail
      <4>5. CASE BypassClean(o) \/ BypassFree(o)
        BY <1>1, <4>5 DEF BypassClean, BypassFree
      <4> QED
        BY <1>4, <2>3, <4>1, <4>2, <4>3, <4>4, <4>5
           DEF TaskStep, PutFail, PutCommit, PutAck, PutStray, PutCancel, LateJournal
    <3> QED
      BY <3>1, <3>2
  <2> QED
    BY <2>1, <2>2, <2>3
<1>5. ASSUME NEW t \in Owners, FlushStep(t)
      PROVE  Goal
  <2>1. pc'[o] = pc[o] \/ (pc'[o] = "done" /\ o = t)
    BY <1>1, <1>5, FlushEffect DEF EndFlush
  <2>2. o = t => Journaled(o)
    BY <1>5, FlushEffect DEF Guarded, Journaled
  <2> QED
    BY <1>2, <2>1, <2>2
<1>6. ASSUME Restart
      PROVE  Goal
  <2>1. pc'[o] \in {"idle", "failed", "done", "resume"}
    BY <1>1, <1>6 DEF Restart, PCs
  <2>2. pc'[o] = "resume" => Journaled(o) \/ pc[o] = "resume"
    <3>1. ASSUME NEW k \in Keys, Rebuilt[k] = o
          PROVE  Journaled(o)
      BY <3>1, RebuiltIn, Sentinels DEF DirtyOf, Disk
    <3> QED
      BY <1>1, <1>6, <3>1 DEF Restart, PCs
  <2>3. pc'[o] = "done" => pc[o] \notin {"idle", "staging", "committed", "failed", "orphan"}
    BY <1>1, <1>6 DEF Restart, PCs
  <2>4. pc[o] = "resume" => Journaled(o)
    BY DEF Journaled, Guarded
  <2> QED
    BY <1>6, <2>1, <2>2, <2>3, <2>4 DEF Journaled
<1>7. ASSUME NEW k \in Keys, DeleteOrigin(k) \/ DeleteStep(k)
      PROVE  Goal
  BY <1>2, <1>7 DEF DeleteOrigin, DeleteStep, DeleteIndex, DeleteJournal, DeleteFail
<1>8. ASSUME Drain \/ Shutdown \/ UNCHANGED vars
      PROVE  Goal
  BY <1>2, <1>8 DEF Drain, Shutdown, vars
<1> HIDE DEF Goal
<1> QED
  BY <1>3, <1>4, <1>5, <1>6, <1>7, <1>8 DEF Next

(* An object that is cleaned up leaves the index, and no other does. *)
LEMMA CleanEffect ==
    ASSUME IInv, NEW o \in Objects, MarkClean(o) \/ Free(o)
    PROVE  /\ \A p \in Objects \ {o} : journal'[p] = journal[p]
           /\ journal'[o] # "absent" => journal[o] # "absent"
           /\ \A k \in Keys : \/ dirty[k] = o /\ dirty'[k] = None
                              \/ dirty[k] # o /\ dirty'[k] = dirty[k]
<1>1. /\ dirty \in [Keys -> Objects \cup {None}]
      /\ journal \in [Objects -> {"absent", "dirty", "clean"}]
  BY DEF IInv, TypeOK
<1>2. /\ \A p \in Objects \ {o} : journal'[p] = journal[p]
      /\ journal'[o] # "absent" => journal[o] # "absent"
  BY <1>1 DEF MarkClean, Free
<1>3. \A k \in Keys : dirty[k] = o => k = keyOf[o] /\ journal[o] # "absent"
  BY <1>1, Sentinels DEF IInv, Disk
<1>4. dirty' = IF journal[o] = "absent" THEN dirty ELSE RemoveIndex(o)
  BY DEF MarkClean, Free
<1>5. \A k \in Keys : \/ dirty[k] = o /\ dirty'[k] = None
                      \/ dirty[k] # o /\ dirty'[k] = dirty[k]
  BY <1>1, <1>3, <1>4 DEF RemoveIndex
<1> QED
  BY <1>2, <1>5

(* The eight kinds of steps. *)
Acknowledge == \E o \in Objects : PutAck(o)
CleanUp(o) ==
    /\ Offloaded(o) /\ Journaled(o)
    /\ (MarkClean(o) /\ frags' = frags) \/ Free(o)
    /\ pc[o] \in {"uploaded", "cleaned"}
         \/ \E t \in Owners : (FlushClean(t) \/ FlushFree(t)) /\ o = Head(flush[t].pack)
    /\ UNCHANGED <<latest, dropped, shadowed, torn, restarts, origin, packIndex>>
Delete == \E k \in Keys : DeleteJournal(k)
Strayed == \E o \in Objects : Late(o)
Unclean == \E o \in Objects : BypassCleanFail(o)
Halved  == \E k \in Keys : DeleteFail(k)
Other ==
    /\ UNCHANGED <<journal, dirty, dropped, shadowed, restarts>>
    /\ frags' = frags \/ \E o \in Objects : PutFail(o) \/ PutCommit(o)
    /\ latest' = latest \/ \E o \in Objects, k \in Keys : WriteThrough(o, k)

LEMMA DiskEffect ==
    ASSUME IInv, [Next]_vars
    PROVE  /\ uploaded \subseteq uploaded' /\ packed \subseteq packed'
           /\ \/ Acknowledge \/ (\E o \in Objects : CleanUp(o)) \/ Delete \/ Restart
              \/ Strayed \/ Unclean \/ Halved \/ Other
<1> USE DEF IInv, coordVars, diskVars, offVars, histVars
<1> DEFINE Goal ==
           /\ uploaded \subseteq uploaded' /\ packed \subseteq packed'
           /\ \/ Acknowledge \/ (\E o \in Objects : CleanUp(o)) \/ Delete \/ Restart
              \/ Strayed \/ Unclean \/ Halved \/ Other
<1> SUFFICES Goal
  OBVIOUS
<1>1. ASSUME NEW o \in Objects, TaskStep(o) \/ Resume(o)
      PROVE  Goal
  <2>1. CASE PutAck(o)
    BY <2>1 DEF PutAck, Acknowledge
  <2>2. CASE PutFail(o) \/ PutCommit(o)
    <3>1. Other /\ UNCHANGED <<uploaded, packed>>
      BY <2>2 DEF PutFail, PutCommit, Other
    <3> QED
      BY <3>1
  <2>3. CASE BypassClean(o) \/ BypassFree(o)
    <3>1. Offloaded(o) /\ Journaled(o) /\ pc[o] \in {"uploaded", "cleaned"}
      BY <2>3 DEF BypassClean, BypassFree, Disk, Offloaded, Journaled, Guarded
    <3>2. CleanUp(o) /\ UNCHANGED <<uploaded, packed>>
      BY <2>3, <3>1 DEF BypassClean, BypassFree, CleanUp
    <3> QED
      BY <3>2
  <2>4. CASE OffloadBypass(o) \/ Resume(o) \/ OffloadPend(o) \/ OffloadFlush(o) \/ BypassFail(o)
    <3>1. Other /\ UNCHANGED <<uploaded, packed>>
      BY <2>4 DEF OffloadBypass, Resume, BeginBypass, OffloadPend, OffloadFlush, BypassFail, Other
    <3> QED
      BY <3>1
  <2>5. CASE BypassUpload(o)
    <3>1. Other /\ packed' = packed /\ uploaded \subseteq uploaded'
      BY <2>5 DEF BypassUpload, Other
    <3> QED
      BY <3>1
  <2>6. CASE PutStray(o) \/ LateJournal(o)
    <3>1. CASE Late(o)
      BY <2>6, <3>1 DEF PutStray, LateJournal, Strayed
    <3>2. CASE ~Late(o)
      <4>1. pc \in [Objects -> PCs]
        BY DEF TypeOK
      <4>2. LateJournal(o) /\ UNCHANGED <<journal, dirty>>
        BY <2>6, <3>2, <4>1 DEF PutStray, LateJournal, Late
      <4>3. Other /\ UNCHANGED <<uploaded, packed>>
        BY <4>2 DEF LateJournal, Other
      <4> QED
        BY <4>3
    <3> QED
      BY <3>1, <3>2
  <2>7. CASE PutCancel(o)
    <3>1. Other /\ UNCHANGED <<uploaded, packed>>
      BY <2>7 DEF PutCancel, Other
    <3> QED
      BY <3>1
  <2>8. CASE BypassCleanFail(o)
    BY <2>8 DEF BypassCleanFail, Unclean
  <2> QED
    BY <1>1, <2>1, <2>2, <2>3, <2>4, <2>5, <2>6, <2>7, <2>8 DEF TaskStep
<1>2. ASSUME NEW t \in Owners, FlushStep(t)
      PROVE  Goal
  <2>1. CASE FlushClean(t) \/ FlushFree(t)
    <3> DEFINE o == Head(flush[t].pack)
    <3>1. o \in Objects /\ Offloaded(o) /\ Journaled(o)
      BY <2>1, HeadPacked DEF Small, Offloaded
    <3>2. CleanUp(o) /\ UNCHANGED <<uploaded, packed>>
      BY <2>1, <3>1 DEF FlushClean, FlushFree, CleanUp
    <3> QED
      BY <3>1, <3>2
  <2>2. CASE FlushRead(t) \/ FlushSeal(t) \/ FlushFail(t) \/ FlushIndex(t) \/ FlushEnd(t)
    <3>1. Other /\ UNCHANGED <<uploaded, packed>>
      BY <2>2 DEF FlushRead, FlushSeal, FlushFail, FlushIndex, FlushEnd, Other
    <3> QED
      BY <3>1
  <2>3. CASE FlushCommit(t)
    <3>1. Other /\ uploaded' = uploaded /\ packed \subseteq packed'
      BY <2>3 DEF FlushCommit, Other
    <3> QED
      BY <3>1
  <2> QED
    BY <1>2, <2>1, <2>2, <2>3 DEF FlushStep
<1>3. ASSUME NEW o \in Objects, NEW k \in Keys, NEW n \in Lens, PutStart(o, k, n)
      PROVE  Goal
  <2>1. Other /\ UNCHANGED <<uploaded, packed>>
    BY <1>3 DEF PutStart, Other
  <2> QED
    BY <2>1
<1>4. ASSUME NEW o \in Objects, NEW k \in Keys, WriteThrough(o, k)
      PROVE  Goal
  <2>1. UNCHANGED <<journal, dirty, dropped, shadowed, restarts, frags, packed>>
        /\ uploaded \subseteq uploaded'
    BY <1>4 DEF WriteThrough
  <2>2. Other
    BY <1>4, <2>1 DEF Other
  <2> QED
    BY <2>1, <2>2
<1>5. ASSUME NEW k \in Keys, DeleteOrigin(k) \/ DeleteStep(k)
      PROVE  Goal
  <2>1. CASE DeleteJournal(k)
    BY <2>1 DEF DeleteJournal, Delete
  <2>2. CASE DeleteOrigin(k) \/ DeleteIndex(k)
    <3>1. Other /\ UNCHANGED <<uploaded, packed>>
      BY <2>2 DEF DeleteOrigin, DeleteIndex, Other
    <3> QED
      BY <3>1
  <2>3. CASE DeleteFail(k)
    BY <2>3 DEF DeleteFail, Halved
  <2> QED
    BY <1>5, <2>1, <2>2, <2>3 DEF DeleteStep
<1>6. ASSUME Drain \/ Shutdown \/ UNCHANGED vars
      PROVE  Goal
  <2>1. Other /\ UNCHANGED <<uploaded, packed>>
    BY <1>6 DEF Drain, Shutdown, vars, Other
  <2> QED
    BY <2>1
<1>7. ASSUME Restart
      PROVE  Goal
  BY <1>7 DEF Restart
<1> HIDE DEF Goal
<1> QED
  BY <1>1, <1>2, <1>3, <1>4, <1>5, <1>6, <1>7 DEF Next

(* What these steps do, by object and key. *)
LEMMA LateEffect ==
    ASSUME IInv, NEW o \in Objects, Late(o)
    PROVE  /\ pc[o] \in {"committed", "orphan"} /\ ~Journaled(o) /\ Journaled(o)'
           /\ o \in frags /\ keyOf[o] \in Keys
           /\ journal'[o] = "dirty" /\ \A p \in Objects \ {o} : journal'[p] = journal[p]
           /\ \A k \in Keys : dirty'[k] = dirty[k] \/ (k = keyOf[o] /\ dirty'[k] = o)
           /\ UNCHANGED <<keyOf, len, frags, dropped, shadowed, torn, restarts, origin, packIndex,
                          flush, latest, uploaded, packed>>
<1>1. /\ pc \in [Objects -> PCs] /\ journal \in [Objects -> {"absent", "dirty", "clean"}]
      /\ dirty \in [Keys -> Objects \cup {None}]
  BY DEF IInv, TypeOK
<1>2. /\ pc[o] \in {"committed", "orphan"} /\ pc'[o] = "stray" /\ o \notin Through
      /\ o \in frags /\ keyOf[o] \in Keys
  BY <1>1 DEF Late, PutStray, LateJournal, IInv, Guarded, Disk
<1>3. /\ journal' = [journal EXCEPT ![o] = "dirty"]
      /\ dirty' = dirty \/ dirty' = [dirty EXCEPT ![keyOf[o]] = o]
      /\ UNCHANGED <<keyOf, len, frags, dropped, shadowed, torn, restarts, origin, packIndex,
                     flush, latest, uploaded, packed>>
  <2>1. CASE PutStray(o)
    BY <2>1 DEF PutStray, offVars, histVars
  <2>2. CASE LateJournal(o)
    <3>1. pc' # [pc EXCEPT ![o] = "failed"]
      BY <1>1, <1>2
    <3> QED
      BY <2>2, <3>1 DEF LateJournal, offVars, histVars
  <2> QED
    BY <2>1, <2>2 DEF Late
<1> QED
  BY <1>1, <1>2, <1>3 DEF Journaled

LEMMA UncleanEffect ==
    ASSUME IInv, NEW o \in Objects, BypassCleanFail(o)
    PROVE  /\ pc[o] = "uploaded" /\ o \in uploaded /\ Journaled(o) /\ journal[o] # "absent"
           /\ journal'[o] # "absent" /\ \A p \in Objects \ {o} : journal'[p] = journal[p]
           /\ UNCHANGED <<keyOf, len, frags, dirty, dropped, shadowed, torn, restarts, origin,
                          packIndex, flush, latest, uploaded, packed>>
<1>1. journal \in [Objects -> {"absent", "dirty", "clean"}]
  BY DEF IInv, TypeOK
<1>2. pc[o] = "uploaded" /\ o \in uploaded /\ Journaled(o)
  BY DEF BypassCleanFail, IInv, Disk, Guarded, Journaled
<1>3. /\ journal[o] # "absent"
      /\ journal' = journal \/ journal' = [journal EXCEPT ![o] = "clean"]
  BY DEF BypassCleanFail
<1> QED
  BY <1>1, <1>2, <1>3 DEF BypassCleanFail, offVars, histVars

LEMMA HalfEffect ==
    ASSUME IInv, NEW k \in Keys, DeleteFail(k)
    PROVE  /\ delPc[k] = "journal" /\ lock[k] = Deleter /\ k \in torn' /\ torn \subseteq torn'
           /\ \A j \in Keys : dirty'[j] = dirty[j] \/ (j = k /\ dirty'[j] = None)
           /\ UNCHANGED <<pc, keyOf, len, journal, frags, dropped, shadowed, restarts, origin,
                          packIndex, flush, latest, uploaded, packed>>
<1>1. dirty \in [Keys -> Objects \cup {None}]
  BY DEF IInv, TypeOK
<1>2. delPc[k] = "journal" /\ lock[k] = Deleter
  BY DEF DeleteFail, IInv, Guarded
<1>3. dirty' = dirty \/ dirty' = [dirty EXCEPT ![k] = None]
  BY DEF DeleteFail
<1> QED
  BY <1>1, <1>2, <1>3 DEF DeleteFail, offVars, diskVars

LEMMA AckEffect ==
    ASSUME IInv, NEW o \in Objects, PutAck(o)
    PROVE  /\ pc[o] = "committed" /\ ~Journaled(o) /\ Journaled(o)' /\ o \in frags /\ keyOf[o] \in Keys
           /\ journal'[o] = "dirty" /\ \A p \in Objects \ {o} : journal'[p] = journal[p]
           /\ dirty'[keyOf[o]] = o /\ latest'[keyOf[o]] = o
           /\ \A k \in Keys : k # keyOf[o] => dirty'[k] = dirty[k] /\ latest'[k] = latest[k]
           /\ torn' = torn \ {keyOf[o]}
           /\ UNCHANGED <<keyOf, lock, frags, dropped, shadowed, restarts, origin, packIndex, flush>>
<1>1. /\ pc \in [Objects -> PCs] /\ journal \in [Objects -> {"absent", "dirty", "clean"}]
      /\ dirty \in [Keys -> Objects \cup {None}] /\ latest \in [Keys -> Objects \cup {None}]
  BY DEF IInv, TypeOK
<1>2. pc[o] = "committed" /\ pc'[o] = "acked" /\ o \notin Through /\ o \in frags /\ keyOf[o] \in Keys
  BY <1>1 DEF PutAck, IInv, Guarded, Disk
<1> QED
  BY <1>1, <1>2 DEF PutAck, Journaled, offVars

LEMMA DeleteEffect ==
    ASSUME IInv, NEW k \in Keys, DeleteJournal(k)
    PROVE  /\ delPc[k] = "journal" /\ lock[k] = Deleter
           /\ dirty'[k] = None /\ latest'[k] = None
           /\ \A j \in Keys \ {k} : /\ dirty'[j] = dirty[j] /\ latest'[j] = latest[j]
                                    /\ lock'[j] = lock[j]
           /\ \A o \in Objects :
                \/ o = dirty[k] /\ journal'[o] = "absent" /\ o \in dropped'
                \/ /\ o # dirty[k] /\ journal'[o] = journal[o]
                   /\ o \in dropped' <=> o \in dropped
                   /\ o \in frags' <=> o \in frags
           /\ UNCHANGED <<pc, keyOf, len, shadowed, restarts, origin, packIndex, flush>>
<1>1. /\ journal \in [Objects -> {"absent", "dirty", "clean"}]
      /\ dirty \in [Keys -> Objects \cup {None}] /\ latest \in [Keys -> Objects \cup {None}]
      /\ lock \in [Keys -> Objects \cup {None, Deleter}]
  BY DEF IInv, TypeOK
<1>2. delPc[k] = "journal" /\ lock[k] = Deleter
  BY DEF DeleteJournal, IInv, Guarded
<1>3. /\ dirty'[k] = None /\ latest'[k] = None
      /\ \A j \in Keys \ {k} : /\ dirty'[j] = dirty[j] /\ latest'[j] = latest[j]
                               /\ lock'[j] = lock[j]
      /\ UNCHANGED <<pc, keyOf, len, shadowed, restarts, origin, packIndex, flush>>
  BY <1>1 DEF DeleteJournal, offVars
<1>4. ASSUME NEW o \in Objects
      PROVE  \/ o = dirty[k] /\ journal'[o] = "absent" /\ o \in dropped'
             \/ /\ o # dirty[k] /\ journal'[o] = journal[o]
                /\ o \in dropped' <=> o \in dropped
                /\ o \in frags' <=> o \in frags
  <2>1. CASE o = dirty[k]
    BY <1>1, <2>1, Sentinels DEF DeleteJournal
  <2>2. CASE o # dirty[k]
    BY <1>1, <2>2 DEF DeleteJournal
  <2> QED
    BY <2>1, <2>2
<1> QED
  BY <1>2, <1>3, <1>4

LEMMA DiskStep ==
    ASSUME IInv, [Next]_vars
    PROVE  Disk'
<1> USE DEF IInv
<1>0. /\ uploaded \subseteq uploaded' /\ dirty \in [Keys -> Objects \cup {None}]
      /\ \A o \in Objects : Journaled(o) => Journaled(o)' /\ keyOf'[o] = keyOf[o]
                                          /\ pc[o] \notin {"committed", "orphan"}
  BY DiskEffect, TaskStays DEF TypeOK, Journaled
<1>1. ASSUME NEW o \in Objects, pc'[o] \in {"uploaded", "cleaned"}
      PROVE  o \in uploaded'
  <2>1. BypassUpload(o) => o \in uploaded'
    BY DEF BypassUpload
  <2> QED
    BY <1>0, <1>1, <2>1, Sources DEF Disk
<1>2. ASSUME NEW o \in Objects, pc'[o] \in {"committed", "orphan"},
             pc[o] \notin {"committed", "orphan"}
      PROVE  o \in frags'
  <2>1. PutCommit(o)
    BY <1>2, Sources
  <2> QED
    BY <2>1 DEF PutCommit
<1>3. ASSUME \A o \in Objects : journal'[o] # "absent" => Journaled(o)',
             \A o \in Objects : pc[o] \in {"committed", "orphan"} /\ pc'[o] \in {"committed", "orphan"}
                                => o \in frags',
             \A o \in Objects : o \in dropped' => Journaled(o)' /\ journal'[o] = "absent",
             \A k \in Keys : dirty'[k] # None => /\ keyOf'[dirty'[k]] = k
                                                 /\ journal'[dirty'[k]] # "absent"
      PROVE  Disk'
  BY <1>1, <1>2, <1>3 DEF Disk
<1>4. CASE Acknowledge
  <2>1. PICK o \in Objects : PutAck(o)
    BY <1>4 DEF Acknowledge
  <2>2. \A p \in Objects : journal'[p] # "absent" => Journaled(p)'
    BY <1>0, <2>1, AckEffect DEF Disk
  <2>3. \A p \in Objects : pc[p] \in {"committed", "orphan"} => p \in frags'
    BY <2>1, AckEffect DEF Disk
  <2>4. \A p \in Objects : p \in dropped' => Journaled(p)' /\ journal'[p] = "absent"
    BY <1>0, <2>1, AckEffect DEF Disk
  <2>5. \A k \in Keys : dirty'[k] # None => /\ keyOf'[dirty'[k]] = k
                                            /\ journal'[dirty'[k]] # "absent"
    <3> SUFFICES ASSUME NEW k \in Keys, dirty'[k] # None
                 PROVE  keyOf'[dirty'[k]] = k /\ journal'[dirty'[k]] # "absent"
      OBVIOUS
    <3>1. CASE k = keyOf[o]
      BY <2>1, <3>1, AckEffect
    <3>2. CASE k # keyOf[o]
      <4>1. dirty'[k] = dirty[k] /\ dirty[k] \in Objects /\ keyOf' = keyOf
        BY <1>0, <2>1, <3>2, AckEffect
      <4>2. keyOf[dirty[k]] = k /\ journal[dirty[k]] # "absent"
        BY <4>1 DEF Disk
      <4>3. dirty[k] # o
        BY <3>2, <4>2
      <4> QED
        BY <2>1, <4>1, <4>2, <4>3, AckEffect
    <3> QED
      BY <3>1, <3>2
  <2> QED
    BY <1>3, <2>2, <2>3, <2>4, <2>5
<1>5. CASE \E o \in Objects : CleanUp(o)
  <2>1. PICK o \in Objects : CleanUp(o)
    BY <1>5
  <2>2. /\ \A p \in Objects \ {o} : journal'[p] = journal[p]
        /\ journal'[o] # "absent" => journal[o] # "absent"
        /\ \A k \in Keys : \/ dirty[k] = o /\ dirty'[k] = None
                           \/ dirty[k] # o /\ dirty'[k] = dirty[k]
    BY <2>1, CleanEffect DEF CleanUp
  <2>3. Journaled(o) /\ dropped' = dropped /\ (frags' = frags \/ frags' = frags \ {o})
    BY <2>1 DEF CleanUp, Free
  <2>4. \A p \in Objects : journal'[p] # "absent" => Journaled(p)'
    BY <1>0, <2>2 DEF Disk
  <2>5. \A p \in Objects : pc[p] \in {"committed", "orphan"} => p \in frags'
    BY <1>0, <2>3 DEF Disk
  <2>6. \A p \in Objects : p \in dropped' => Journaled(p)' /\ journal'[p] = "absent"
    BY <1>0, <2>2, <2>3 DEF Disk
  <2>7. \A k \in Keys : dirty'[k] # None => /\ keyOf'[dirty'[k]] = k
                                            /\ journal'[dirty'[k]] # "absent"
    <3> SUFFICES ASSUME NEW k \in Keys, dirty'[k] # None
                 PROVE  keyOf'[dirty'[k]] = k /\ journal'[dirty'[k]] # "absent"
      OBVIOUS
    <3>1. dirty'[k] = dirty[k] /\ dirty[k] \in Objects \ {o}
      BY <1>0, <2>2
    <3>2. keyOf[dirty[k]] = k /\ journal[dirty[k]] # "absent"
      BY <3>1 DEF Disk
    <3>3. Journaled(dirty[k])
      BY <3>1, <3>2 DEF Disk
    <3> QED
      BY <1>0, <2>2, <3>1, <3>2, <3>3
  <2> QED
    BY <1>3, <2>4, <2>5, <2>6, <2>7
<1>6. CASE Delete
  <2>1. PICK k \in Keys : DeleteJournal(k)
    BY <1>6 DEF Delete
  <2>2. ASSUME NEW o \in Objects, o = dirty[k]
        PROVE  Journaled(o) /\ keyOf[o] = k
    BY <2>2, Sentinels DEF Disk
  <2>3. \A o \in Objects : journal'[o] # "absent" => Journaled(o)'
    BY <1>0, <2>1, DeleteEffect DEF Disk
  <2>4. \A o \in Objects : pc[o] \in {"committed", "orphan"} => o \in frags'
    BY <1>0, <2>1, <2>2, DeleteEffect DEF Disk
  <2>5. \A o \in Objects : o \in dropped' => Journaled(o)' /\ journal'[o] = "absent"
    BY <1>0, <2>1, <2>2, DeleteEffect DEF Disk
  <2>6. \A j \in Keys : dirty'[j] # None => /\ keyOf'[dirty'[j]] = j
                                            /\ journal'[dirty'[j]] # "absent"
    <3> SUFFICES ASSUME NEW j \in Keys, dirty'[j] # None
                 PROVE  keyOf'[dirty'[j]] = j /\ journal'[dirty'[j]] # "absent"
      OBVIOUS
    <3>1. j # k /\ dirty'[j] = dirty[j] /\ dirty[j] \in Objects /\ keyOf' = keyOf
      BY <1>0, <2>1, DeleteEffect
    <3>2. keyOf[dirty[j]] = j /\ journal[dirty[j]] # "absent"
      BY <3>1 DEF Disk
    <3>3. dirty[j] # dirty[k]
      BY <2>2, <3>1, <3>2
    <3> QED
      BY <2>1, <3>1, <3>2, <3>3, DeleteEffect
  <2> QED
    BY <1>3, <2>3, <2>4, <2>5, <2>6
<1>7. CASE Restart
  <2>1. dirty' = Rebuilt /\ UNCHANGED <<keyOf, journal, frags, dropped>>
    BY <1>7 DEF Restart, diskVars
  <2>2. \A k \in Keys : dirty'[k] # None => dirty'[k] \in DirtyOf(k)
    BY <2>1, RebuiltIn
  <2>3. \A k \in Keys : dirty'[k] # None => keyOf'[dirty'[k]] = k /\ journal'[dirty'[k]] # "absent"
    BY <2>1, <2>2 DEF DirtyOf
  <2>4. /\ \A o \in Objects : journal'[o] # "absent" => Journaled(o)'
        /\ \A o \in Objects : pc[o] \in {"committed", "orphan"} => o \in frags'
        /\ \A o \in Objects : o \in dropped' => Journaled(o)' /\ journal'[o] = "absent"
    BY <1>0, <2>1 DEF Disk
  <2> QED
    BY <1>3, <2>3, <2>4
<1>8. CASE Other
  <2>1. UNCHANGED <<journal, dirty, dropped>>
    BY <1>8 DEF Other
  <2>2. \A o \in Objects : pc[o] \in {"committed", "orphan"} => o \in frags'
    <3> SUFFICES ASSUME NEW o \in Objects, pc[o] \in {"committed", "orphan"}
                 PROVE  o \in frags'
      OBVIOUS
    <3>1. o \in frags
      BY DEF Disk
    <3>2. ASSUME NEW p \in Objects, PutFail(p)
          PROVE  frags' = frags \/ (frags' = frags \ {p} /\ p # o)
      BY <3>2 DEF PutFail
    <3>3. ASSUME NEW p \in Objects, PutCommit(p)
          PROVE  frags \subseteq frags'
      BY <3>3 DEF PutCommit
    <3> QED
      BY <1>8, <3>1, <3>2, <3>3 DEF Other
  <2>3. /\ \A o \in Objects : journal'[o] # "absent" => Journaled(o)'
        /\ \A o \in Objects : o \in dropped' => Journaled(o)' /\ journal'[o] = "absent"
    BY <1>0, <2>1 DEF Disk
  <2>4. \A k \in Keys : dirty'[k] # None => keyOf'[dirty'[k]] = k /\ journal'[dirty'[k]] # "absent"
    <3> SUFFICES ASSUME NEW k \in Keys, dirty[k] # None
                 PROVE  keyOf'[dirty[k]] = k /\ journal[dirty[k]] # "absent"
      BY <2>1
    <3>1. dirty[k] \in Objects /\ keyOf[dirty[k]] = k /\ journal[dirty[k]] # "absent"
      BY <1>0 DEF Disk
    <3>2. Journaled(dirty[k])
      BY <3>1 DEF Disk
    <3> QED
      BY <1>0, <3>1, <3>2
  <2> QED
    BY <1>3, <2>2, <2>3, <2>4
<1>9. CASE Strayed
  <2>1. PICK o \in Objects : Late(o)
    BY <1>9 DEF Strayed
  <2>2. /\ \A p \in Objects : journal'[p] # "absent" => Journaled(p)'
        /\ \A p \in Objects : pc[p] \in {"committed", "orphan"} => p \in frags'
        /\ \A p \in Objects : p \in dropped' => Journaled(p)' /\ journal'[p] = "absent"
    BY <1>0, <2>1, LateEffect DEF Disk
  <2>3. \A k \in Keys : dirty'[k] # None => keyOf'[dirty'[k]] = k /\ journal'[dirty'[k]] # "absent"
    <3> SUFFICES ASSUME NEW k \in Keys, dirty'[k] # None
                 PROVE  keyOf'[dirty'[k]] = k /\ journal'[dirty'[k]] # "absent"
      OBVIOUS
    <3>1. CASE k = keyOf[o] /\ dirty'[k] = o
      BY <2>1, <3>1, LateEffect
    <3>2. CASE dirty'[k] = dirty[k]
      <4>1. dirty[k] \in Objects /\ keyOf[dirty[k]] = k /\ journal[dirty[k]] # "absent"
        BY <1>0, <3>2 DEF Disk
      <4> QED
        BY <2>1, <3>2, <4>1, LateEffect
    <3> QED
      BY <2>1, <3>1, <3>2, LateEffect
  <2> QED
    BY <1>3, <2>2, <2>3
<1>10. CASE Unclean
  <2>1. PICK o \in Objects : BypassCleanFail(o)
    BY <1>10 DEF Unclean
  <2>2. /\ \A p \in Objects : journal'[p] # "absent" <=> journal[p] # "absent"
        /\ UNCHANGED <<keyOf, frags, dirty, dropped>>
    BY <2>1, UncleanEffect
  <2>3. \A k \in Keys : dirty[k] # None => dirty[k] \in Objects
    BY <1>0
  <2>4. /\ \A p \in Objects : journal'[p] # "absent" => Journaled(p)'
        /\ \A p \in Objects : pc[p] \in {"committed", "orphan"} => p \in frags'
        /\ \A p \in Objects : p \in dropped' => Journaled(p)' /\ journal'[p] = "absent"
    BY <1>0, <2>2 DEF Disk
  <2>5. \A k \in Keys : dirty'[k] # None => keyOf'[dirty'[k]] = k /\ journal'[dirty'[k]] # "absent"
    BY <2>2, <2>3 DEF Disk
  <2> QED
    BY <1>3, <2>4, <2>5
<1>11. CASE Halved
  <2>1. PICK k \in Keys : DeleteFail(k)
    BY <1>11 DEF Halved
  <2>2. /\ UNCHANGED <<pc, keyOf, journal, frags, dropped>>
        /\ \A j \in Keys : dirty'[j] # None => dirty'[j] = dirty[j]
    BY <2>1, HalfEffect
  <2>3. /\ \A p \in Objects : journal'[p] # "absent" => Journaled(p)'
        /\ \A p \in Objects : pc[p] \in {"committed", "orphan"} => p \in frags'
        /\ \A p \in Objects : p \in dropped' => Journaled(p)' /\ journal'[p] = "absent"
    BY <1>0, <2>2 DEF Disk
  <2>4. \A j \in Keys : dirty'[j] # None => keyOf'[dirty'[j]] = j /\ journal'[dirty'[j]] # "absent"
    BY <2>2 DEF Disk
  <2> QED
    BY <1>3, <2>3, <2>4
<1> QED
  BY <1>4, <1>5, <1>6, <1>7, <1>8, <1>9, <1>10, <1>11, DiskEffect

LEMMA DurableStep ==
    ASSUME IInv, [Next]_vars
    PROVE  AckedDurable'
<1> USE DEF IInv
<1> SUFFICES ASSUME NEW o \in Objects, Journaled(o)', ~Offloaded(o)'
             PROVE  (journal'[o] = "dirty" /\ o \in frags') \/ o \in dropped'
  BY DEF AckedDurable
<1>1. ~Offloaded(o)
  BY DiskEffect DEF Offloaded
<1>2. CASE PutAck(o)
  BY <1>2, AckEffect
<1>4. CASE Late(o)
  BY <1>4, LateEffect
<1>3. CASE ~PutAck(o) /\ ~Late(o)
  <2>1. Journaled(o)
    BY <1>3, Sources
  <2>2. (journal[o] = "dirty" /\ o \in frags) \/ o \in dropped
    BY <1>1, <2>1 DEF AckedDurable
  <2>3. CASE Acknowledge
    BY <1>3, <2>2, <2>3, AckEffect DEF Acknowledge
  <2>4. ASSUME NEW p \in Objects, CleanUp(p)
        PROVE  (journal'[o] = "dirty" /\ o \in frags') \/ o \in dropped'
    <3>1. p # o
      BY <1>1, <2>4 DEF CleanUp
    <3>2. journal'[o] = journal[o]
      BY <2>4, <3>1, CleanEffect DEF CleanUp
    <3>3. dropped' = dropped /\ (o \in frags => o \in frags')
      BY <2>4, <3>1 DEF CleanUp, Free
    <3> QED
      BY <2>2, <3>2, <3>3
  <2>5. CASE Delete
    BY <2>2, <2>5, DeleteEffect DEF Delete
  <2>6. CASE Restart
    BY <2>2, <2>6 DEF Restart, diskVars
  <2>7. CASE Other
    <3>1. ASSUME NEW p \in Objects, PutFail(p) \/ PutCommit(p)
          PROVE  o \in frags => o \in frags'
      BY <2>1, <3>1 DEF PutFail, PutCommit, Journaled
    <3> QED
      BY <2>2, <2>7, <3>1 DEF Other
  <2>8. CASE Strayed
    BY <1>3, <2>2, <2>8, LateEffect DEF Strayed
  <2>9. ASSUME NEW p \in Objects, BypassCleanFail(p)
        PROVE  (journal'[o] = "dirty" /\ o \in frags') \/ o \in dropped'
    <3>1. p # o
      BY <1>1, <2>9, UncleanEffect DEF Offloaded
    <3> QED
      BY <2>2, <2>9, <3>1, UncleanEffect
  <2>10. CASE Halved
    BY <2>2, <2>10, HalfEffect DEF Halved
  <2> QED
    BY <2>3, <2>4, <2>5, <2>6, <2>7, <2>8, <2>9, <2>10, DiskEffect DEF Unclean
<1> QED
  BY <1>2, <1>3, <1>4

-----------------------------------------------------------------------------
(* What the steps do to one key. *)

LEMMA KeyEffect ==
    ASSUME IInv, [Next]_vars, NEW k \in Keys
    PROVE  /\ \/ origin'[k] = origin[k]
              \/ \E o \in Objects : BypassUpload(o) /\ keyOf[o] = k /\ origin'[k] = o
              \/ \E o \in Objects : WriteThrough(o, k) /\ origin'[k] = o
              \/ DeleteOrigin(k) /\ origin'[k] = None
           /\ \/ packIndex'[k] = packIndex[k]
              \/ DeleteIndex(k) \/ Restart
              \/ \E o \in Small : keyOf[o] = k /\ packIndex'[k] = o
           /\ delPc'[k] = delPc[k] \/ DeleteOrigin(k) \/ DeleteStep(k) \/ Restart
           /\ \/ latest'[k] = latest[k] \/ DeleteJournal(k)
              \/ \E o \in Objects : PutAck(o) /\ keyOf[o] = k
              \/ \E o \in Objects : WriteThrough(o, k) /\ latest'[k] = o
           /\ \/ k \in torn => k \in torn'
              \/ DeleteJournal(k)
              \/ \E o \in Objects : PutAck(o) /\ keyOf[o] = k
              \/ \E o \in Objects : WriteThrough(o, k) /\ latest'[k] = o
<1> USE DEF IInv, coordVars, diskVars, offVars, histVars
<1> DEFINE Goal ==
           /\ \/ origin'[k] = origin[k]
              \/ \E o \in Objects : BypassUpload(o) /\ keyOf[o] = k /\ origin'[k] = o
              \/ \E o \in Objects : WriteThrough(o, k) /\ origin'[k] = o
              \/ DeleteOrigin(k) /\ origin'[k] = None
           /\ \/ packIndex'[k] = packIndex[k]
              \/ DeleteIndex(k) \/ Restart
              \/ \E o \in Small : keyOf[o] = k /\ packIndex'[k] = o
           /\ delPc'[k] = delPc[k] \/ DeleteOrigin(k) \/ DeleteStep(k) \/ Restart
           /\ \/ latest'[k] = latest[k] \/ DeleteJournal(k)
              \/ \E o \in Objects : PutAck(o) /\ keyOf[o] = k
              \/ \E o \in Objects : WriteThrough(o, k) /\ latest'[k] = o
           /\ \/ k \in torn => k \in torn'
              \/ DeleteJournal(k)
              \/ \E o \in Objects : PutAck(o) /\ keyOf[o] = k
              \/ \E o \in Objects : WriteThrough(o, k) /\ latest'[k] = o
<1> SUFFICES Goal
  OBVIOUS
<1>1. /\ origin \in [Keys -> Objects \cup {None}] /\ packIndex \in [Keys -> Objects \cup {None}]
      /\ latest \in [Keys -> Objects \cup {None}] /\ delPc \in [Keys -> {"idle", "index", "journal"}]
  BY DEF TypeOK
<1>2. ASSUME UNCHANGED <<origin, packIndex, delPc, latest, torn>>
      PROVE  Goal
  BY <1>2
<1>3. ASSUME NEW o \in Objects, NEW j \in Keys, NEW n \in Lens, PutStart(o, j, n)
      PROVE  Goal
  BY <1>2, <1>3 DEF PutStart
<1>4. ASSUME NEW o \in Objects, NEW j \in Keys, WriteThrough(o, j)
      PROVE  Goal
  <2>1. CASE j = k
    BY <1>1, <1>4, <2>1 DEF WriteThrough
  <2>2. CASE j # k
    <3>1. /\ UNCHANGED <<packIndex, delPc>> /\ origin'[k] = origin[k] /\ latest'[k] = latest[k]
          /\ k \in torn => k \in torn'
      BY <1>1, <1>4, <2>2 DEF WriteThrough
    <3> QED
      BY <3>1
  <2> QED
    BY <2>1, <2>2
<1>5. ASSUME NEW o \in Objects, TaskStep(o) \/ Resume(o)
      PROVE  Goal
  <2>1. CASE PutAck(o)
    <3>1. /\ UNCHANGED <<origin, packIndex, delPc>>
          /\ keyOf[o] # k => latest'[k] = latest[k] /\ (k \in torn => k \in torn')
      BY <1>1, <2>1 DEF PutAck
    <3> QED
      BY <2>1, <3>1
  <2>2. CASE BypassUpload(o)
    <3>1. /\ UNCHANGED <<latest, packIndex, delPc, torn>> /\ (keyOf[o] # k => origin'[k] = origin[k])
          /\ keyOf[o] = k => origin'[k] = o
      BY <1>1, <2>2 DEF BypassUpload
    <3> QED
      BY <2>2, <3>1
  <2>3. CASE ~PutAck(o) /\ ~BypassUpload(o)
    <3>1. UNCHANGED <<origin, packIndex, delPc, latest, torn>>
      BY <1>5, <2>3 DEF TaskStep, Resume, PutFail, PutCommit, PutStray, PutCancel, LateJournal,
                        OffloadBypass, BeginBypass, OffloadPend, OffloadFlush, BypassFail,
                        BypassClean, BypassCleanFail, BypassFree
    <3> QED
      BY <1>2, <3>1
  <2> QED
    BY <2>1, <2>2, <2>3
<1>6. ASSUME NEW t \in Owners, FlushStep(t)
      PROVE  Goal
  <2>1. UNCHANGED <<origin, delPc, latest, torn>>
    BY <1>6, FlushEffect
  <2>2. CASE FlushIndex(t)
    <3>1. \A i \in 1..Len(flush[t].pack) : flush[t].pack[i] \in Small
      BY ElementOfSeq DEF Batches
    <3> QED
      BY <2>1, <2>2, <3>1, IndexEffect
  <2>3. CASE ~FlushIndex(t)
    <3>1. packIndex' = packIndex
      BY <1>6, <2>3 DEF FlushStep, FlushRead, FlushSeal, FlushCommit, FlushFail, FlushClean,
                        FlushFree, FlushEnd
    <3> QED
      BY <1>2, <2>1, <3>1
  <2> QED
    BY <2>2, <2>3
<1>7. ASSUME NEW j \in Keys, DeleteOrigin(j)
      PROVE  Goal
  <2>1. /\ UNCHANGED <<packIndex, latest, torn>> /\ origin'[j] = None
        /\ j # k => origin'[k] = origin[k] /\ delPc'[k] = delPc[k]
    BY <1>1, <1>7 DEF DeleteOrigin
  <2> QED
    BY <1>7, <2>1
<1>8. ASSUME NEW j \in Keys, DeleteIndex(j)
      PROVE  Goal
  <2>1. /\ UNCHANGED <<origin, latest, torn>>
        /\ j # k => packIndex'[k] = packIndex[k] /\ delPc'[k] = delPc[k]
    BY <1>1, <1>8 DEF DeleteIndex
  <2> QED
    BY <1>8, <2>1 DEF DeleteStep
<1>9. ASSUME NEW j \in Keys, DeleteJournal(j)
      PROVE  Goal
  <2>1. /\ UNCHANGED <<origin, packIndex>>
        /\ j # k => /\ latest'[k] = latest[k] /\ delPc'[k] = delPc[k]
                    /\ k \in torn => k \in torn'
    BY <1>1, <1>9 DEF DeleteJournal
  <2> QED
    BY <1>9, <2>1 DEF DeleteStep
<1>10. ASSUME Restart
       PROVE  Goal
  BY <1>10 DEF Restart
<1>11. ASSUME Drain \/ Shutdown \/ UNCHANGED vars
       PROVE  Goal
  BY <1>2, <1>11 DEF Drain, Shutdown, vars
<1>12. ASSUME NEW j \in Keys, DeleteFail(j)
       PROVE  Goal
  <2>1. /\ UNCHANGED <<origin, packIndex, latest>> /\ (k \in torn => k \in torn')
        /\ j # k => delPc'[k] = delPc[k]
    BY <1>1, <1>12 DEF DeleteFail
  <2> QED
    BY <1>12, <2>1 DEF DeleteStep
<1> HIDE DEF Goal
<1> QED
  BY <1>3, <1>4, <1>5, <1>6, <1>7, <1>8, <1>9, <1>10, <1>11, <1>12 DEF Next, DeleteStep

(* A DELETE takes the guard at its first step and drops it at its last. *)
LEMMA DeleterEffect ==
    ASSUME IInv, [Next]_vars, NEW k \in Keys, ~Restart
    PROVE  /\ (lock[k] = Deleter /\ lock'[k] # Deleter) => DeleteJournal(k) \/ DeleteFail(k)
           /\ (lock[k] # Deleter /\ lock'[k] = Deleter) => DeleteOrigin(k)
           /\ DeleteOrigin(k) => lock[k] = None
           /\ DeleteIndex(k) \/ DeleteJournal(k) \/ DeleteFail(k) => lock[k] = Deleter
<1>1. /\ lock[k] = Deleter <=> delPc[k] # "idle"
      /\ lock'[k] = Deleter <=> delPc'[k] # "idle"
  BY GuardedStep DEF IInv, Guarded
<1>2. delPc[k] \in {"idle", "index", "journal"} /\ delPc \in [Keys -> {"idle", "index", "journal"}]
  BY DEF IInv, TypeOK
<1>3. delPc'[k] = delPc[k] \/ DeleteOrigin(k) \/ DeleteIndex(k) \/ DeleteJournal(k)
      \/ DeleteFail(k)
  BY KeyEffect DEF DeleteStep
<1>4. DeleteOrigin(k) => lock[k] = None /\ delPc'[k] # "idle"
  BY <1>2 DEF DeleteOrigin
<1>5. DeleteIndex(k) => delPc[k] # "idle" /\ delPc'[k] # "idle"
  BY <1>2 DEF DeleteIndex
<1>6. DeleteJournal(k) \/ DeleteFail(k) => delPc[k] # "idle" /\ delPc'[k] = "idle"
  BY <1>2 DEF DeleteJournal, DeleteFail
<1> QED
  BY <1>1, <1>3, <1>4, <1>5, <1>6, Sentinels

(* Where the index of a key can go in one step. *)
LEMMA DirtyEffect ==
    ASSUME IInv, [Next]_vars, NEW k \in Keys, ~Restart
    PROVE  \/ dirty'[k] = dirty[k] \/ (DeleteJournal(k) /\ dirty'[k] = None)
           \/ \E o \in Objects : PutAck(o) /\ keyOf[o] = k /\ dirty'[k] = o
           \/ \E o \in Objects : Late(o) /\ keyOf[o] = k /\ dirty'[k] = o
           \/ \E o \in Objects : CleanUp(o) /\ dirty[k] = o /\ dirty'[k] = None
           \/ DeleteFail(k) /\ dirty'[k] = None
<1>1. CASE Acknowledge
  <2>1. PICK o \in Objects : PutAck(o)
    BY <1>1 DEF Acknowledge
  <2>2. CASE keyOf[o] = k
    BY <2>1, <2>2, AckEffect
  <2>3. CASE keyOf[o] # k
    BY <2>1, <2>3, AckEffect
  <2> QED
    BY <2>2, <2>3
<1>2. ASSUME NEW o \in Objects, CleanUp(o)
      PROVE  dirty'[k] = dirty[k] \/ (dirty[k] = o /\ dirty'[k] = None)
  BY <1>2, CleanEffect DEF CleanUp
<1>3. ASSUME NEW j \in Keys, DeleteJournal(j)
      PROVE  dirty'[k] = dirty[k] \/ (j = k /\ dirty'[k] = None)
  BY <1>3, DeleteEffect
<1>4. CASE Other
  BY <1>4 DEF Other
<1>5. ASSUME NEW o \in Objects, Late(o)
      PROVE  dirty'[k] = dirty[k] \/ (keyOf[o] = k /\ dirty'[k] = o)
  BY <1>5, LateEffect
<1>6. CASE Unclean
  BY <1>6, UncleanEffect DEF Unclean
<1>7. ASSUME NEW j \in Keys, DeleteFail(j)
      PROVE  dirty'[k] = dirty[k] \/ (j = k /\ dirty'[k] = None)
  BY <1>7, HalfEffect
<1> QED
  BY <1>1, <1>2, <1>3, <1>4, <1>5, <1>6, <1>7, DiskEffect DEF Delete, Strayed, Halved

(* Two dirty journals of one key are counted as such. *)
LEMMA TwoDirty ==
    ASSUME IInv, NEW k \in Keys, NEW o \in DirtyOf(k), NEW p \in DirtyOf(k), o # p
    PROVE  Cardinality(DirtyOf(k)) > 1
<1>1. PICK n \in Nat : \A x \in DirtyOf(k) : x <= n
  BY DEF IInv, Bounded, DirtyOf
<1>2. DirtyOf(k) \subseteq 0..n
  <2>1. DirtyOf(k) \subseteq Nat
    BY WritebackAssumption DEF DirtyOf
  <2> QED
    BY <1>1, <2>1
<1>3. IsFiniteSet(DirtyOf(k))
  <2>1. IsFiniteSet(0..n)
    BY FS_Interval
  <2> QED
    BY <1>2, <2>1, FS_Subset
<1>4. Cardinality({o, p}) = 2 /\ {o, p} \subseteq DirtyOf(k)
  <2>1. IsFiniteSet({o}) /\ Cardinality({o}) = 1
    BY FS_Singleton
  <2>2. Cardinality({o} \cup {p}) = 2
    BY <2>1, FS_AddElement
  <2>3. {o} \cup {p} = {o, p}
    OBVIOUS
  <2> QED
    BY <2>2, <2>3
<1>5. Cardinality({o, p}) <= Cardinality(DirtyOf(k)) /\ Cardinality(DirtyOf(k)) \in Nat
  BY <1>3, <1>4, FS_Subset, FS_CardinalityType
<1> QED
  BY <1>4, <1>5

(* Only a restart counts restarts, and only a DELETE drops an object. *)
LEMMA HistoryEffect ==
    ASSUME IInv, [Next]_vars
    PROVE  /\ ~Restart => UNCHANGED <<shadowed, restarts>>
           /\ dropped' = dropped \/ Delete
           /\ shadowed \subseteq shadowed'
<1>1. Restart => dropped' = dropped /\ shadowed \subseteq shadowed'
  BY DEF Restart
<1> QED
  BY <1>1, DiskEffect, AckEffect, DeleteEffect, LateEffect, UncleanEffect, HalfEffect
     DEF Acknowledge, Delete, CleanUp, Strayed, Unclean, Halved, Other

LEMMA LatestStep ==
    ASSUME IInv, [Next]_vars
    PROVE  Latest'
<1> USE DEF IInv
<1>0. latest \in [Keys -> Objects \cup {None}] /\ dirty \in [Keys -> Objects \cup {None}]
  BY DEF TypeOK
<1> DEFINE Settled(k) == /\ pc'[latest'[k]] # "idle" /\ keyOf'[latest'[k]] = k
                         /\ Journaled(latest[k])' \/ latest'[k] \in uploaded'
                         /\ latest'[k] \notin dropped'
<1>1. ASSUME NEW k \in Keys, latest'[k] # None
      PROVE  Settled(k)
  <2>1. CASE latest'[k] = latest[k] /\ ~DeleteJournal(k)
    <3>0. PICK o \in Objects : o = latest[k]
      BY <1>0, <1>1, <2>1
    <3>1. /\ o \in Objects /\ pc[o] # "idle" /\ keyOf[o] = k
          /\ Journaled(o) \/ o \in uploaded
          /\ o \notin dropped
      BY <1>0, <1>1, <2>1, <3>0 DEF Latest
    <3>2. pc'[o] # "idle" /\ keyOf'[o] = k /\ (Journaled(o) => Journaled(o)')
      BY <3>1, TaskStays
    <3>3. o \in uploaded => o \in uploaded'
      BY DiskEffect
    <3>4. o \notin dropped'
      <4>1. ASSUME NEW j \in Keys, DeleteJournal(j)
            PROVE  o \notin dropped'
        <5>1. o # dirty[j]
          <6>1. dirty[j] # None => keyOf[dirty[j]] = j
            BY DEF Disk
          <6> QED
            BY <2>1, <3>1, <4>1, <6>1, Sentinels
        <5> QED
          BY <3>1, <4>1, <5>1, DeleteEffect
      <4> QED
        BY <3>1, <4>1, HistoryEffect DEF Delete
    <3>5. Journaled(latest[k])' <=> Journaled(o)'
      BY <2>1, <3>0 DEF Journaled
    <3> QED
      BY <2>1, <3>0, <3>1, <3>2, <3>3, <3>4, <3>5
  <2>2. ASSUME NEW o \in Objects, PutAck(o), keyOf[o] = k
        PROVE  Settled(k)
    <3>1. /\ latest'[k] = o /\ Journaled(o)' /\ ~Journaled(o) /\ keyOf'[o] = k
          /\ dropped' = dropped
      BY <2>2, AckEffect
    <3>2. o \notin dropped
      BY <3>1 DEF Disk
    <3>3. pc'[o] # "idle" /\ Journaled(latest[k])'
      BY <3>1 DEF Journaled
    <3> QED
      BY <3>1, <3>2, <3>3
  <2>3. ASSUME NEW o \in Objects, WriteThrough(o, k), latest'[k] = o
        PROVE  Settled(k)
    <3>1. o \notin dropped
      BY <2>3 DEF Disk, WriteThrough, Journaled
    <3>2. pc'[o] = "done" /\ keyOf'[o] = k /\ o \in uploaded' /\ dropped' = dropped
      BY <2>3 DEF WriteThrough, TypeOK
    <3> QED
      BY <2>3, <3>1, <3>2
  <2>4. DeleteJournal(k) => latest'[k] = None
    BY DeleteEffect
  <2> HIDE DEF Settled
  <2> QED
    BY <1>1, <2>1, <2>2, <2>3, <2>4, KeyEffect
<1> DEFINE Known(k) == \/ Offloaded(latest[k])'
                       \/ dirty'[k] = latest'[k]
                       \/ dirty'[k] # None /\ pc'[dirty'[k]] = "stray"
<1>2. ASSUME NEW k \in Keys, k \notin shadowed', k \notin torn', latest'[k] # None
      PROVE  Known(k)
  <2>1. \A o : Offloaded(o) => o \in uploaded' \cup packed'
    BY DiskEffect DEF Offloaded
  <2>0. latest'[k] \in uploaded' \cup packed' => Offloaded(latest[k])'
    BY DEF Offloaded
  <2>2. k \notin shadowed
    BY <1>2, HistoryEffect
  <2>3. ASSUME NEW o \in Objects, PutAck(o), keyOf[o] = k
        PROVE  Known(k)
    BY <2>3, AckEffect
  <2>4. ASSUME NEW o \in Objects, WriteThrough(o, k), latest'[k] = o
        PROVE  Known(k)
    BY <2>4 DEF WriteThrough, Offloaded
  <2>5. DeleteJournal(k) => latest'[k] = None
    BY DeleteEffect
  <2>6. CASE latest'[k] = latest[k] /\ k \notin torn /\ ~Restart
    <3>1. \/ Offloaded(latest[k]) \/ dirty[k] = latest[k]
          \/ dirty[k] # None /\ pc[dirty[k]] = "stray"
      BY <1>2, <2>2, <2>6 DEF Latest
    <3>2. ASSUME NEW o \in Objects, CleanUp(o), dirty[k] = o
          PROVE  Offloaded(o) /\ pc[o] # "stray"
      <4>1. ASSUME NEW t \in Owners, FlushClean(t) \/ FlushFree(t), o = Head(flush[t].pack)
            PROVE  pc[o] # "stray"
        BY <4>1, HeadPacked DEF Small
      <4> QED
        BY <3>2, <4>1 DEF CleanUp
    <3>3. ASSUME NEW o \in Objects, Late(o), dirty'[k] = o
          PROVE  Known(k)
      <4>1. dirty'[k] # None /\ pc'[dirty'[k]] = "stray"
        BY <3>3, Sentinels DEF Late
      <4> QED
        BY <4>1
    <3>4. DeleteFail(k) => k \in torn'
      BY HalfEffect
    <3>5. CASE dirty'[k] = dirty[k]
      <4>1. CASE dirty[k] # None /\ pc[dirty[k]] = "stray"
        <5>1. dirty[k] \in Objects
          BY <1>0, <4>1
        <5>2. pc'[dirty[k]] = "stray"
          BY <2>6, <4>1, <5>1, StrayStays
        <5> QED
          BY <3>5, <4>1, <5>2
      <4>2. CASE Offloaded(latest[k])
        BY <2>0, <2>1, <2>6, <4>2
      <4>3. CASE dirty[k] = latest[k]
        BY <2>6, <3>5, <4>3
      <4> QED
        BY <3>1, <4>1, <4>2, <4>3
    <3>6. ASSUME NEW o \in Objects, CleanUp(o), dirty[k] = o
          PROVE  Known(k)
      <4>1. Offloaded(latest[k])
        BY <3>1, <3>2, <3>6
      <4> QED
        BY <2>0, <2>1, <2>6, <4>1
    <3> HIDE DEF Known
    <3> QED
      BY <1>2, <2>3, <2>5, <2>6, <3>3, <3>4, <3>5, <3>6, DirtyEffect
  <2>7. CASE latest'[k] = latest[k] /\ k \notin torn /\ Restart
    <3> DEFINE o == latest[k]
    <3>1. CASE Offloaded(o)
      BY <2>0, <2>1, <2>7, <3>1
    <3>2. CASE ~Offloaded(o)
      <4>1. /\ o \in Objects /\ keyOf[o] = k /\ o \notin dropped
            /\ Journaled(o) \/ o \in uploaded
        BY <1>0, <1>2, <2>7 DEF Latest
      <4>2. o \in DirtyOf(k)
        BY <3>2, <4>1 DEF AckedDurable, Offloaded, DirtyOf
      <4>3. ~(Cardinality(DirtyOf(k)) > 1)
        BY <1>2, <2>7 DEF Restart
      <4>4. Rebuilt[k] \in DirtyOf(k)
        BY <4>2, RebuiltIn
      <4>5. Rebuilt[k] = o
        BY <4>2, <4>3, <4>4, TwoDirty
      <4>6. dirty'[k] = o
        BY <2>7, <4>5 DEF Restart
      <4> QED
        BY <2>7, <4>6
    <3> QED
      BY <3>1, <3>2
  <2>8. Restart => torn' = torn
    BY DEF Restart
  <2> HIDE DEF Known
  <2> QED
    BY <1>2, <2>3, <2>4, <2>5, <2>6, <2>7, <2>8, KeyEffect
<1> QED
  BY <1>1, <1>2 DEF Latest

(* Until the first restart a key stays behind its journal. *)
LEMMA BehindStays ==
    ASSUME IInv, [Next]_vars, ~Restart, NEW k \in Keys,
           lock[k] # Deleter, lock'[k] # Deleter, Behind(k)
    PROVE  Behind(k)'
<1>1. ~DeleteOrigin(k) /\ ~DeleteIndex(k)
  <2>1. DeleteOrigin(k) => lock'[k] = Deleter
    BY DEF DeleteOrigin, IInv, TypeOK
  <2> QED
    BY <2>1, DeleterEffect
<1>2. origin[k] # None => origin'[k] # None
  BY <1>1, KeyEffect, Sentinels
<1>3. packIndex[k] # None => packIndex'[k] # None
  BY <1>1, KeyEffect, Sentinels DEF Small
<1> QED
  BY <1>2, <1>3 DEF Behind

LEMMA CoveredStays ==
    ASSUME IInv, [Next]_vars, ~Restart, NEW o \in Covered, Journaled(o)
    PROVE  o \in Covered'
<1>0. o \in Objects
  BY DEF Covered
<1> SUFFICES ASSUME NEW k \in Keys, k \notin torn', dirty'[k] = o, lock'[k] # Deleter
             PROVE  Behind(k)'
  BY <1>0 DEF Covered
<1>1. dirty[k] = o
  BY <1>0, DirtyEffect, AckEffect, LateEffect, Sentinels
<1>2. lock[k] # Deleter
  BY <1>0, DeleterEffect, DeleteEffect, HalfEffect, Sentinels
<1>3. ASSUME NEW p \in Objects, WriteThrough(p, k)
      PROVE  Behind(k)'
  BY <1>3, Sentinels DEF WriteThrough, Behind, IInv, TypeOK
<1>4. CASE k \notin torn
  <2>1. Behind(k)
    BY <1>1, <1>2, <1>4 DEF Covered
  <2> QED
    BY <1>2, <2>1, BehindStays
<1>5. CASE k \in torn
  <2>1. ~DeleteJournal(k)
    BY <1>2, DeleterEffect
  <2>2. ASSUME NEW p \in Objects, PutAck(p), keyOf[p] = k
        PROVE  FALSE
    BY <1>0, <2>2, AckEffect
  <2> QED
    BY <1>3, <1>5, <2>1, <2>2, KeyEffect
<1> QED
  BY <1>4, <1>5

LEMMA ServedStep ==
    ASSUME IInv, [Next]_vars
    PROVE  Served'
<1> USE DEF IInv
<1> SUFFICES ASSUME restarts' = 0 PROVE Served'
  BY DEF Served
<1>0. ~Restart /\ restarts = 0
  <2>1. restarts \in Nat
    BY WritebackAssumption DEF TypeOK
  <2>2. ~Restart
    BY <2>1 DEF Restart
  <2>3. restarts' = restarts
    BY <2>2, HistoryEffect
  <2> QED
    BY <2>2, <2>3
<1>1. ASSUME NEW o \in Objects, pc'[o] \in {"uploaded", "cleaned"}
      PROVE  o \in Covered'
  <2>1. CASE pc[o] \in {"uploaded", "cleaned"}
    <3>1. o \in Covered /\ Journaled(o)
      BY <1>0, <2>1 DEF Served, Journaled, Guarded
    <3> QED
      BY <1>0, <3>1, CoveredStays
  <2>2. CASE BypassUpload(o)
    <3>1. dirty' = dirty /\ keyOf[o] \in Keys /\ origin'[keyOf[o]] = o
      BY <2>2 DEF BypassUpload, Guarded, TypeOK
    <3>2. \A k \in Keys : dirty[k] = o => k = keyOf[o]
      BY Sentinels DEF Disk
    <3> QED
      BY <3>1, <3>2, Sentinels DEF Covered, Behind
  <2> QED
    BY <1>1, <2>1, <2>2, Sources
<1>2. ASSUME NEW t \in Owners, flush[t].stage \in {"cleaning", "freeing"}
      PROVE  flush[t].pack \in Seq(Covered')
  <2>1. flush[t].pack \in Seq(Covered) /\ flush[t].pack \in Seq(Small)
    BY <1>0, <1>2 DEF Served, Batches
  <2>2. \A i \in 1..Len(flush[t].pack) : flush[t].pack[i] \in Covered'
    <3> SUFFICES ASSUME NEW i \in 1..Len(flush[t].pack) PROVE flush[t].pack[i] \in Covered'
      OBVIOUS
    <3>1. flush[t].pack[i] \in Covered /\ Journaled(flush[t].pack[i])
      BY <2>1, ElementOfSeq DEF Small
    <3> QED
      BY <1>0, <3>1, CoveredStays
  <2> QED
    BY <2>1, <2>2, SeqOf
<1>3. ASSUME NEW t \in Owners, FlushStep(t), flush'[t].stage \in {"cleaning", "freeing"}
      PROVE  flush'[t].pack \in Seq(Covered')
  <2>0. flush \in [Owners -> FlushType] /\ flush[t] \in FlushType
    BY DEF TypeOK
  <2>1. CASE FlushIndex(t)
    <3>1. flush'[t].pack = flush[t].pack /\ dirty' = dirty
      BY <2>0, <2>1 DEF FlushIndex, FlushType
    <3>2. flush[t].pack \in Seq(Objects)
      BY <2>0 DEF FlushType
    <3>3. \A i \in 1..Len(flush[t].pack) : flush[t].pack[i] \in Covered'
      <4> SUFFICES ASSUME NEW i \in 1..Len(flush[t].pack), NEW k \in Keys, dirty[k] = flush[t].pack[i]
                   PROVE  packIndex'[k] # None
        BY <3>1, <3>2, ElementOfSeq DEF Covered, Behind
      <4>1. keyOf[flush[t].pack[i]] = k
        BY <3>2, ElementOfSeq, Sentinels DEF Disk
      <4> QED
        BY <2>1, <4>1, IndexEffect, Sentinels
    <3> QED
      BY <3>1, <3>2, <3>3, SeqOf
  <2>2. CASE FlushClean(t)
    <3>1. flush'[t].pack = flush[t].pack /\ flush[t].stage = "cleaning"
      BY <2>0, <2>2 DEF FlushClean, FlushType
    <3> QED
      BY <1>2, <3>1
  <2>3. CASE FlushFree(t)
    <3>1. flush'[t].pack = Tail(flush[t].pack) /\ flush[t].stage = "freeing" /\ flush[t].pack # <<>>
      BY <2>0, <2>3, HeadPacked DEF FlushFree, FlushType
    <3> QED
      BY <1>2, <3>1, HeadTail
  <2>4. CASE FlushRead(t) \/ FlushSeal(t) \/ FlushCommit(t) \/ FlushFail(t) \/ FlushEnd(t)
    <3>1. CASE EndFlush(t)
      BY <1>3, <2>0, <3>1, IdleFields DEF EndFlush
    <3>2. CASE FlushRead(t)
      <4>1. PICK q : flush' = [flush EXCEPT ![t].todo = Tail(@), ![t].pack = q]
        BY <3>2 DEF FlushRead
      <4>2. flush'[t].stage = "reading"
        BY <2>0, <3>2, <4>1 DEF FlushRead, FlushType
      <4> QED
        BY <1>3, <4>2
    <3>3. CASE FlushCommit(t)
      BY <1>3, <2>0, <3>3 DEF FlushCommit, FlushType
    <3>4. CASE (FlushSeal(t) \/ FlushFail(t) \/ FlushEnd(t)) /\ ~EndFlush(t)
      <4>1. /\ flush[t].stage \in {"reading", "uploading"}
            /\ \/ flush' = [flush EXCEPT ![t].stage = "uploading"]
               \/ flush' = [flush EXCEPT ![t].tries = @ + 1]
        BY <3>4 DEF FlushSeal, FlushFail, FlushEnd
      <4>2. flush'[t].stage \in {"reading", "uploading"}
        BY <2>0, <4>1 DEF FlushType
      <4> QED
        BY <1>3, <4>2
    <3> QED
      BY <2>4, <3>1, <3>2, <3>3, <3>4
  <2> QED
    BY <1>3, <2>1, <2>2, <2>3, <2>4 DEF FlushStep
<1>4. ASSUME NEW t \in Owners, flush'[t].stage \in {"cleaning", "freeing"}, ~FlushStep(t)
      PROVE  flush'[t] = flush[t]
  <2> USE DEF coordVars, diskVars, offVars, histVars
  <2>0. flush \in [Owners -> FlushType]
    BY DEF TypeOK
  <2>1. ASSUME NEW o \in Objects, TaskStep(o) \/ Resume(o)
        PROVE  flush'[t] = flush[t]
    <3>1. CASE OffloadFlush(o)
      <4>1. flush' = [flush EXCEPT ![o] = [IdleFlush EXCEPT !.stage = "reading",
                                                            !.todo = Append(stream, o)]]
        BY <3>1 DEF OffloadFlush, StartFlush
      <4>2. t = o => flush'[t].stage = "reading"
        BY <2>0, <4>1 DEF IdleFlush
      <4> QED
        BY <1>4, <2>0, <4>1, <4>2
    <3>2. CASE ~OffloadFlush(o)
      BY <2>1, <3>2 DEF TaskStep, Resume, PutFail, PutCommit, PutAck, PutStray, PutCancel,
                        LateJournal, OffloadBypass, BeginBypass, OffloadPend, BypassUpload,
                        BypassFail, BypassClean, BypassCleanFail, BypassFree
    <3> QED
      BY <3>1, <3>2
  <2>2. ASSUME Drain
        PROVE  flush'[t] = flush[t]
    <3>1. flush' = [flush EXCEPT ![Drainer] = [IdleFlush EXCEPT !.stage = "reading",
                                                                !.todo = stream]]
      BY <2>2 DEF Drain, StartFlush
    <3>2. t = Drainer => flush'[t].stage = "reading"
      BY <2>0, <3>1 DEF IdleFlush
    <3> QED
      BY <1>4, <2>0, <3>1, <3>2
  <2>3. ASSUME NEW u \in Owners, FlushStep(u)
        PROVE  flush'[t] = flush[t]
    BY <1>4, <2>3, FlushEffect
  <2>4. ASSUME NEW o \in Objects, NEW k \in Keys,
               WriteThrough(o, k) \/ \E n \in Lens : PutStart(o, k, n)
        PROVE  flush' = flush
    BY <2>4 DEF WriteThrough, PutStart
  <2>5. ASSUME NEW k \in Keys, DeleteOrigin(k) \/ DeleteStep(k)
        PROVE  flush' = flush
    BY <2>5 DEF DeleteOrigin, DeleteStep, DeleteIndex, DeleteJournal, DeleteFail
  <2>6. ASSUME Shutdown \/ UNCHANGED vars
        PROVE  flush' = flush
    BY <2>6 DEF Shutdown, vars
  <2> QED
    BY <1>0, <2>1, <2>2, <2>3, <2>4, <2>5, <2>6 DEF Next
<1>5. ASSUME NEW t \in Owners, flush'[t].stage \in {"cleaning", "freeing"}
      PROVE  flush'[t].pack \in Seq(Covered')
  <2>1. CASE FlushStep(t)
    BY <1>3, <1>5, <2>1
  <2>2. CASE ~FlushStep(t)
    <3>1. flush'[t] = flush[t]
      BY <1>4, <1>5, <2>2
    <3>2. flush[t].stage \in {"cleaning", "freeing"}
      BY <1>5, <3>1
    <3> QED
      BY <1>2, <3>1, <3>2
  <2> QED
    BY <2>1, <2>2
<1>6. ASSUME NEW k \in Keys, k \notin torn', latest'[k] # None, lock'[k] # Deleter
      PROVE  dirty'[k] # None \/ Behind(k)'
  <2>1. ASSUME NEW o \in Objects, PutAck(o), keyOf[o] = k
        PROVE  dirty'[k] # None
    BY <2>1, AckEffect, Sentinels
  <2>2. ASSUME NEW o \in Objects, WriteThrough(o, k)
        PROVE  Behind(k)'
    BY <2>2, Sentinels DEF WriteThrough, Behind, TypeOK
  <2>3. DeleteJournal(k) => latest'[k] = None
    BY DeleteEffect
  <2>4. CASE latest'[k] = latest[k] /\ k \notin torn /\ ~DeleteJournal(k)
    <3>0. ~DeleteFail(k)
      BY <1>6, HalfEffect
    <3>1. lock[k] # Deleter
      BY <1>0, <1>6, <2>4, <3>0, DeleterEffect
    <3>2. dirty[k] # None \/ Behind(k)
      BY <1>0, <1>6, <2>4, <3>1 DEF Served
    <3>3. ASSUME NEW o \in Objects, CleanUp(o), dirty[k] = o
          PROVE  Behind(k)
      <4>1. o \in Covered
        <5>1. CASE pc[o] \in {"uploaded", "cleaned"}
          BY <1>0, <5>1 DEF Served
        <5>2. ASSUME NEW t \in Owners, FlushClean(t) \/ FlushFree(t), o = Head(flush[t].pack)
              PROVE  o \in Covered
          <6>1. flush[t].stage \in {"cleaning", "freeing"} /\ flush[t].pack # <<>>
            BY <5>2, HeadPacked DEF FlushClean, FlushFree
          <6>2. flush[t].pack \in Seq(Covered)
            BY <1>0, <6>1 DEF Served
          <6> QED
            BY <5>2, <6>1, <6>2, HeadTail
        <5> QED
          BY <3>3, <5>1, <5>2 DEF CleanUp
      <4> QED
        BY <2>4, <3>1, <3>3, <4>1 DEF Covered
    <3>4. Behind(k) => Behind(k)'
      BY <1>0, <1>6, <3>1, BehindStays
    <3>5. ASSUME NEW o \in Objects, Late(o), dirty'[k] = o
          PROVE  dirty'[k] # None
      BY <3>5, Sentinels
    <3> QED
      BY <1>0, <2>1, <2>4, <3>0, <3>2, <3>3, <3>4, <3>5, DirtyEffect
  <2> QED
    BY <1>6, <2>1, <2>2, <2>3, <2>4, KeyEffect
<1> QED
  BY <1>1, <1>5, <1>6 DEF Served

LEMMA DirectStep ==
    ASSUME IInv, [Next]_vars
    PROVE  Direct'
<1> USE DEF IInv
<1> SUFFICES ASSUME restarts' = 0 PROVE Direct'
  BY DEF Direct
<1> DEFINE Held == {"acked", "bypass", "uploaded", "cleaned"}
<1>0. ~Restart /\ restarts = 0
  <2>1. restarts \in Nat
    BY WritebackAssumption DEF TypeOK
  <2>2. ~Restart
    BY <2>1 DEF Restart
  <2>3. restarts' = restarts
    BY <2>2, HistoryEffect
  <2> QED
    BY <2>2, <2>3
<1>1. \A o \in Objects : pc[o] # "resume" /\ pc'[o] # "resume"
  BY <1>0, Sources DEF Direct
<1>2. ASSUME NEW k \in Keys, DirectOnly(k)'
      PROVE  /\ DirectOnly(k) /\ packIndex'[k] = None /\ (lock'[k] = Deleter => origin'[k] = None)
             /\ \A o \in Objects : ~WriteThrough(o, k)
             /\ \A o \in Small : keyOf[o] # k
             /\ \A o \in Objects : keyOf[o] = k => ~Late(o)
  <2>1. DirectOnly(k)
    BY <1>0, <1>2, TaskStays, StrayStays DEF DirectOnly
  <2>2. \A o \in Objects : ~WriteThrough(o, k)
    BY <1>2 DEF WriteThrough, DirectOnly, TypeOK
  <2>3. \A o \in Small : keyOf[o] # k
    <3>1. \A o \in Objects : len[o] \in Nat
      <4>1. len \in [Objects -> Lens \cup {0}]
        BY DEF TypeOK
      <4>2. Lens \cup {0} \subseteq Nat
        BY WritebackAssumption
      <4> QED
        BY <4>1, <4>2
    <3> QED
      BY <2>1, <3>1, WritebackAssumption DEF Small, Journaled, DirectOnly
  <2>4. packIndex'[k] = None
    <3>1. DeleteIndex(k) => packIndex'[k] = None
      BY DEF DeleteIndex, TypeOK
    <3> QED
      BY <1>0, <2>1, <2>3, <3>1, KeyEffect DEF Direct
  <2>5. ASSUME NEW o \in Objects, keyOf[o] = k, Late(o)
        PROVE  FALSE
    <3>1. pc'[o] = "stray" /\ keyOf'[o] = k
      BY <2>5, LateEffect DEF Late
    <3> QED
      BY <1>2, <3>1 DEF DirectOnly
  <2>6. ASSUME lock'[k] = Deleter
        PROVE  origin'[k] = None
    <3>1. ASSUME NEW o \in Objects, BypassUpload(o), keyOf[o] = k
          PROVE  lock[k] = o /\ lock'[k] = o
      BY <3>1 DEF BypassUpload, Guarded, Busy
    <3>2. CASE lock[k] = Deleter
      <4>1. origin[k] = None
        BY <1>0, <2>1, <3>2 DEF Direct
      <4> QED
        BY <2>2, <3>1, <3>2, <4>1, KeyEffect, Sentinels
    <3>3. CASE lock[k] # Deleter
      <4>1. DeleteOrigin(k)
        BY <1>0, <2>6, <3>3, DeleterEffect
      <4> QED
        BY <4>1 DEF DeleteOrigin, TypeOK
    <3> QED
      BY <3>2, <3>3
  <2> QED
    BY <2>1, <2>2, <2>3, <2>4, <2>5, <2>6
<1>4. ASSUME NEW k \in Keys, k \notin torn', DirectOnly(k)', k \in torn
      PROVE  DeleteJournal(k) \/ \E o \in Objects : PutAck(o) /\ keyOf[o] = k
  BY <1>2, <1>4, KeyEffect
(* A write, or a DELETE that succeeds, settles a key left half-way. *)
<1>5. ASSUME NEW k \in Keys, k \notin torn', DirectOnly(k)', k \in torn
      PROVE  /\ dirty'[k] = None \/ dirty'[k] = latest'[k]
             /\ (lock'[k] # Deleter /\ dirty'[k] = None) => origin'[k] = latest'[k]
             /\ \A o \in Objects : keyOf'[o] = k /\ pc'[o] \in Held
                  => /\ latest'[k] = o
                     /\ pc'[o] \in {"uploaded", "cleaned"} => origin'[k] = o
  <2>0. DirectOnly(k) /\ (lock[k] = Deleter => origin'[k] = origin[k])
    <3>1. ASSUME NEW o \in Objects, BypassUpload(o), keyOf[o] = k
          PROVE  lock[k] = o
      BY <3>1 DEF BypassUpload, Guarded, Busy
    <3>2. DeleteOrigin(k) => lock[k] = None
      BY DEF DeleteOrigin
    <3> QED
      BY <1>2, <1>5, <3>1, <3>2, KeyEffect, Sentinels
  <2>1. ASSUME NEW o \in Objects, PutAck(o), keyOf[o] = k
        PROVE  /\ dirty'[k] = o /\ latest'[k] = o /\ lock'[k] = o /\ keyOf' = keyOf
               /\ pc'[o] = "acked" /\ \A p \in Objects \ {o} : pc'[p] = pc[p]
               /\ lock[k] = o
    BY <2>1, AckEffect DEF PutAck, TypeOK, Guarded, Busy
  <2>2. ASSUME NEW p \in Objects, keyOf[p] = k, pc[p] \in Held
        PROVE  lock[k] = p
    BY <2>2 DEF Guarded, Busy
  <2>3. CASE \E o \in Objects : PutAck(o) /\ keyOf[o] = k
    <3>1. PICK o \in Objects : PutAck(o) /\ keyOf[o] = k
      BY <2>3
    <3>2. \A p \in Objects : keyOf'[p] = k /\ pc'[p] \in Held => p = o
      BY <2>1, <2>2, <3>1
    <3> QED
      BY <2>1, <3>1, <3>2, Sentinels
  <2>4. CASE DeleteJournal(k)
    <3>1. /\ dirty'[k] = None /\ latest'[k] = None /\ lock[k] = Deleter /\ UNCHANGED <<pc, keyOf>>
      BY <2>4, DeleteEffect
    <3>2. origin'[k] = None
      BY <2>0, <3>1, <1>0 DEF Direct
    <3>3. \A p \in Objects : ~(keyOf'[p] = k /\ pc'[p] \in Held)
      BY <2>2, <3>1, Sentinels
    <3> QED
      BY <3>1, <3>2, <3>3
  <2> QED
    BY <1>4, <1>5, <2>3, <2>4
<1>3. ASSUME NEW k \in Keys, k \notin torn', DirectOnly(k)', k \notin torn
      PROVE  /\ dirty'[k] = None \/ dirty'[k] = latest'[k]
             /\ (lock'[k] # Deleter /\ dirty'[k] = None) => origin'[k] = latest'[k]
             /\ \A o \in Objects : keyOf'[o] = k /\ pc'[o] \in Held
                  => /\ latest'[k] = o
                     /\ pc'[o] \in {"uploaded", "cleaned"} => origin'[k] = o
  <2>1. DirectOnly(k)
    BY <1>2, <1>3
  <2>2. (\A o \in Objects : ~WriteThrough(o, k)) /\ (\A o \in Objects : keyOf[o] = k => ~Late(o))
    BY <1>2, <1>3
  <2>3. \A o \in Small : keyOf[o] # k
    BY <1>2, <1>3
  <2>0. ~DeleteFail(k)
    BY <1>3, HalfEffect
  <2>4. /\ dirty[k] = None \/ dirty[k] = latest[k]
        /\ (lock[k] # Deleter /\ dirty[k] = None) => origin[k] = latest[k]
        /\ lock[k] = Deleter => origin[k] = None
        /\ \A o \in Objects : keyOf[o] = k /\ pc[o] \in Held
             => /\ latest[k] = o /\ lock[k] = o
                /\ pc[o] \in {"uploaded", "cleaned"} => origin[k] = o
    BY <1>0, <1>3, <2>1 DEF Direct, Guarded, Busy
  <2>5. ASSUME NEW o \in Objects, PutAck(o), keyOf[o] = k
        PROVE  dirty'[k] = o /\ latest'[k] = o /\ lock[k] = o /\ pc[o] = "committed"
    BY <2>5, AckEffect DEF Guarded, Busy
  <2>6. ASSUME NEW o \in Objects, BypassUpload(o), keyOf[o] = k
        PROVE  lock[k] = o /\ latest[k] = o
    BY <2>4, <2>6 DEF BypassUpload
  <2>7. ASSUME NEW o \in Objects, CleanUp(o), dirty[k] = o
        PROVE  origin'[k] = o /\ latest'[k] = o /\ latest[k] = o
    <3>1. keyOf[o] = k
      BY <2>7, Sentinels DEF Disk
    <3>2. pc[o] \in {"uploaded", "cleaned"}
      <4>1. ASSUME NEW t \in Owners, FlushClean(t) \/ FlushFree(t), o = Head(flush[t].pack)
            PROVE  FALSE
        <5>1. flush[t].pack # <<>> /\ flush[t].pack \in Seq(Small)
          BY <4>1, HeadPacked DEF FlushClean, FlushFree, Batches
        <5> QED
          BY <2>3, <3>1, <4>1, <5>1, HeadTail
      <4> QED
        BY <2>7, <4>1 DEF CleanUp
    <3> QED
      BY <2>4, <2>7, <3>1, <3>2 DEF CleanUp
  <2>9. \/ latest'[k] = latest[k]
        \/ DeleteJournal(k)
        \/ \E o \in Objects : PutAck(o) /\ keyOf[o] = k
    BY <2>2, KeyEffect
  <2>10. \/ origin'[k] = origin[k]
         \/ \E o \in Objects : BypassUpload(o) /\ keyOf[o] = k /\ origin'[k] = o
         \/ DeleteOrigin(k) /\ origin'[k] = None
    BY <2>2, KeyEffect
  <2>11. /\ DeleteJournal(k) => /\ dirty'[k] = None /\ latest'[k] = None
                                /\ origin'[k] = origin[k] /\ lock[k] = Deleter
         /\ DeleteOrigin(k) => lock[k] = None /\ lock'[k] = Deleter /\ origin'[k] = None
    BY DeleteEffect DEF DeleteOrigin, TypeOK
  <2>12. dirty'[k] = None \/ dirty'[k] = latest'[k]
    BY <1>0, <2>0, <2>2, <2>4, <2>5, <2>9, <2>11, DirtyEffect
  <2>13. ASSUME lock'[k] # Deleter, dirty'[k] = None
         PROVE  origin'[k] = latest'[k]
    <3>1. CASE DeleteJournal(k)
      BY <2>4, <2>11, <3>1
    <3>2. CASE ~DeleteJournal(k)
      <4>1. latest'[k] = latest[k]
        BY <2>5, <2>9, <2>13, <3>2, Sentinels
      <4>2. lock[k] # Deleter
        BY <1>0, <2>0, <2>13, <3>2, DeleterEffect
      <4>3. CASE dirty[k] = None
        BY <2>4, <2>6, <2>10, <2>11, <2>13, <4>1, <4>2, <4>3
      <4>4. CASE dirty[k] # None
        BY <1>0, <2>0, <2>2, <2>7, <2>5, <2>13, <3>2, <4>4, DirtyEffect, Sentinels
      <4> QED
        BY <4>3, <4>4
    <3> QED
      BY <3>1, <3>2
  <2>15. ASSUME NEW o \in Objects, keyOf'[o] = k, pc'[o] \in Held
         PROVE  /\ latest'[k] = o
                /\ pc'[o] \in {"uploaded", "cleaned"} => origin'[k] = o
    <3>1. CASE PutAck(o)
      <4>1. keyOf[o] = k /\ pc'[o] = "acked"
        BY <2>15, <3>1 DEF PutAck, TypeOK
      <4> QED
        BY <2>5, <3>1, <4>1
    <3>2. CASE ~PutAck(o)
      <4>1. pc[o] \in Held
        <5>1. BypassUpload(o) => pc[o] = "bypass"
          BY DEF BypassUpload
        <5> QED
          BY <1>1, <2>15, <3>2, <5>1, Sources
      <4>2. keyOf[o] = k
        BY <2>15, <4>1, TaskStays
      <4>3. latest[k] = o /\ lock[k] = o
        BY <2>4, <4>1, <4>2
      <4>4. latest'[k] = o
        BY <2>5, <2>9, <2>11, <4>1, <4>3, Sentinels
      <4>5. ASSUME pc'[o] \in {"uploaded", "cleaned"}
            PROVE  origin'[k] = o
        <5>1. CASE BypassUpload(o)
          BY <4>2, <5>1 DEF BypassUpload, TypeOK
        <5>2. CASE ~BypassUpload(o)
          <6>1. pc[o] \in {"uploaded", "cleaned"}
            BY <4>5, <5>2, Sources
          <6>2. origin[k] = o
            BY <2>4, <4>2, <6>1
          <6> QED
            BY <2>6, <2>10, <2>11, <4>3, <6>2, Sentinels
        <5> QED
          BY <5>1, <5>2
      <4> QED
        BY <4>4, <4>5
    <3> QED
      BY <3>1, <3>2
  <2> QED
    BY <2>12, <2>13, <2>15
<1> QED
  BY <1>1, <1>2, <1>3, <1>5 DEF Direct

-----------------------------------------------------------------------------
(* The invariant, and what the tier promises. *)

(* Every action of the tier, a crash and restart at any point included,     *)
(* keeps the guards, the batches, the journals and the index of             *)
(* coordinator.rs, journal.rs and offload.rs consistent.                    *)
THEOREM Invariance == Spec => []IInv
<1>1. Init => IInv
  BY InitIInv
<1>2. IInv /\ [Next]_vars => IInv'
  <2> SUFFICES ASSUME IInv, [Next]_vars PROVE IInv'
    OBVIOUS
  <2>1. TypeOK'
    BY TypeStep DEF IInv
  <2>2. Bounded' /\ Guarded' /\ Batches'
    BY BoundedStep, GuardedStep, BatchesStep
  <2>3. Disk' /\ AckedDurable' /\ Latest' /\ Served' /\ Direct'
    BY DiskStep, DurableStep, LatestStep, ServedStep, DirectStep
  <2> QED
    BY <2>1, <2>2, <2>3 DEF IInv
<1> QED
  BY <1>1, <1>2, PTL DEF Spec

(* The state of the coordinator, the journal store and the offload buffer   *)
(* keeps its type.                                                          *)
THEOREM TypeCorrectness == Spec => []TypeOK
<1>1. IInv => TypeOK
  BY DEF IInv
<1> QED
  BY <1>1, Invariance, PTL

(* No object whose journal JournalStore::put wrote, hence none whose PUT     *)
(* finish_stream_ack acknowledged, is lost: until a DELETE removes it, it   *)
(* is in a dirty journal with its fragments or the origin accepted it,      *)
(* through failed flushes, exhausted uploads, hang-ups, shutdowns and       *)
(* crashes between any two steps of the clean-up.                           *)
THEOREM AcknowledgedIsDurable == Spec => []AckedDurable
<1>1. IInv => AckedDurable
  BY DEF IInv
<1> QED
  BY <1>1, Invariance, PTL

(* When await_referenced of the commit barrier lets a key pass, the last    *)
(* acknowledged write of the key was put at that key of the origin, or it   *)
(* is small enough to be grouped and is in a committed pack; for every key  *)
(* of which no restart found two dirty journals and no DELETE failed        *)
(* half-way.  A grouped object is not at its own key.                       *)
THEOREM BarrierIsSound == Spec => []BarrierSound
<1>1. IInv => BarrierSound
  <2> SUFFICES ASSUME IInv, NEW k \in Keys, k \notin shadowed, k \notin torn,
                      dirty[k] = None, latest[k] # None
               PROVE  \/ latest[k] \in uploaded
                      \/ latest[k] \in packed /\ len[latest[k]] <= SizeLimit
    BY DEF BarrierSound, BarrierOpen
  <2>1. Offloaded(latest[k])
    BY DEF IInv, Latest
  <2>2. latest[k] \in packed => len[latest[k]] <= SizeLimit
    BY DEF IInv, Batches, Small
  <2> QED
    BY <2>1, <2>2 DEF Offloaded
<1> QED
  BY <1>1, Invariance, PTL

(* Until the first restart WritebackReader::get finds every key whose last  *)
(* operation was an acknowledged write, while mark_clean, the pack index    *)
(* and the clean-up of older objects of the key interleave.                 *)
THEOREM NothingGoesMissing == Spec => []NeverMissing
<1>1. IInv => NeverMissing
  <2> SUFFICES ASSUME IInv, NEW k \in Keys, k \notin torn,
                      restarts = 0, latest[k] # None, lock[k] # Deleter
               PROVE  Get(k) # None
    BY DEF NeverMissing
  <2>1. dirty[k] # None \/ Behind(k)
    BY DEF IInv, Served
  <2>2. dirty[k] # None => journal[dirty[k]] # "absent"
    BY DEF IInv, Disk
  <2> QED
    BY <2>1, <2>2 DEF Get, Behind
<1> QED
  BY <1>1, Invariance, PTL

(* A key whose objects all exceed offload_size_limit, none of them          *)
(* journaled behind its client's back, is linearizable until the first      *)
(* restart: with its guard free, a read returns the last acknowledged       *)
(* write, or nothing after a DELETE, unless a DELETE failed half-way.       *)
THEOREM DirectKeysLinear == Spec => []DirectKeyLinear
<1>1. IInv => DirectKeyLinear
  <2> SUFFICES ASSUME IInv, NEW k \in Keys, k \notin torn,
                      restarts = 0, DirectOnly(k), lock[k] = None
               PROVE  Get(k) = latest[k]
    BY DEF DirectKeyLinear
  <2>1. /\ packIndex[k] = None
        /\ dirty[k] = None \/ dirty[k] = latest[k]
        /\ dirty[k] = None => origin[k] = latest[k]
    BY Sentinels DEF IInv, Direct
  <2>2. dirty[k] # None => journal[dirty[k]] # "absent"
    BY DEF IInv, Disk
  <2> QED
    BY <2>1, <2>2 DEF Get
<1> QED
  BY <1>1, Invariance, PTL
=============================================================================

-------------------------- MODULE TableAppend_proofs --------------------------
(***************************************************************************)
(* Theorems about TableAppend, for every number of processes, appends,      *)
(* tries, crashes and faults: an acknowledged append is in the table or on  *)
(* disk, no wake-up of the committer is lost, and an idle queue owes        *)
(* nothing.                                                                 *)
(***************************************************************************)
EXTENDS TableAppend, SequenceTheorems, TLAPS

(* An entry whose WAL file was written keeps it until a snapshot has it,    *)
(* which is when the committer or the replay comes to remove files.         *)
Journaled ==
    /\ \A e \in Entries : phase[e] \in {"journaled", "pushed", "acked"}
                            => home[e] \in Nodes /\ (Committed(e) \/ e \in wal[home[e]])
    /\ \A n \in Nodes : job[n].pc = "clean" => \A e \in job[n].ids : Committed(e)

(* A keyed append that was answered, or would be from the cache, landed. *)
Keyed ==
    /\ \A n \in Nodes : cache[n] = None \/ cache[n] \in 0..Len(snaps)
    /\ \A i \in Tries : try[i].pc \in {"done", "replayed"} => Committed(Key)

(* The kinds of jobs: a drain belongs to a committer of a process that has  *)
(* replayed; before that nothing is queued, and the replay has every file   *)
(* that is not committed yet.                                               *)
Jobs ==
    \A n \in Nodes :
      /\ job[n].pc = "none" => job[n] = NoJob
      /\ (job[n].pc # "none" /\ job[n].mode = "drain") => committing[n] /\ replayed[n]
      /\ job[n].mode = "replay"
           => ~replayed[n] /\ \A e \in wal[n] : e \in job[n].ids \/ Committed(e)
      /\ ~replayed[n] => /\ pending[n] = {} /\ ~committing[n]
                         /\ \A e \in Entries : home[e] = n => phase[e] \notin {"journaled", "pushed"}

(* What a process has queued since it replayed is committed, pending or in  *)
(* the committer's hands.                                                   *)
Queued ==
    \A n \in Nodes, e \in Entries :
      (replayed[n] /\ home[e] = n /\ phase[e] \in {"pushed", "acked"})
        => Committed(e) \/ e \in pending[n] \/ e \in job[n].ids

IInv == TypeOK /\ Journaled /\ Keyed /\ Jobs /\ Woken /\ Queued

-----------------------------------------------------------------------------
(* The table only grows. *)

Rows == SUBSET (Entries \cup {Key})

(* What is committed stays committed when a snapshot is added, and the new  *)
(* snapshot's rows are.                                                     *)
LEMMA Grows ==
    ASSUME snaps \in Seq(Rows), NEW rows \in Rows, snaps' = Append(snaps, rows)
    PROVE  /\ \A r : Committed(r) => Committed(r)'
           /\ \A r \in rows : Committed(r)'
           /\ Len(snaps') = Len(snaps) + 1
           /\ snaps' \in Seq(Rows)
<1>1. /\ Len(snaps') = Len(snaps) + 1
      /\ \A i \in 1..Len(snaps) : snaps'[i] = snaps[i]
      /\ snaps'[Len(snaps) + 1] = rows
      /\ snaps' \in Seq(Rows)
  BY AppendProperties
<1>2. Len(snaps) \in Nat
  BY LenProperties
<1>3. 1..Len(snaps) \subseteq 1..Len(snaps') /\ Len(snaps) + 1 \in 1..Len(snaps')
  BY <1>1, <1>2
<1> QED
  BY <1>1, <1>3 DEF Committed

(* A key that the table's own rows are found under is committed. *)
LEMMA Found ==
    ASSUME snaps \in Seq(Rows), NEW v \in 0..Len(snaps), NEW rows, Has(v, rows)
    PROVE  \A r \in rows : Committed(r)
<1>1. Len(snaps) \in Nat
  BY LenProperties
<1>2. 1..v \subseteq 1..Len(snaps)
  BY <1>1
<1> QED
  BY <1>2 DEF Has, Committed

(* Every step leaves the table or adds one snapshot. *)
LEMMA NextSnaps ==
    ASSUME TypeOK, [Next]_vars
    PROVE  snaps' = snaps \/ \E rows \in Rows : snaps' = Append(snaps, rows)
<1>1. \A n \in Nodes : job[n].ids \in Rows
  BY DEF TypeOK, JobType, Rows
<1>2. {Key} \in Rows
  BY DEF Rows
<1>3. ASSUME NEW n \in Nodes, Attempt(n)
      PROVE  snaps' = snaps \/ snaps' = Append(snaps, job[n].ids)
  BY <1>3 DEF Attempt
<1>4. ASSUME NEW i \in Tries, KeyedAttempt(i)
      PROVE  snaps' = snaps \/ snaps' = Append(snaps, {Key})
  BY <1>4 DEF KeyedAttempt
<1>5. ASSUME NEW n \in Nodes, NEW e \in Entries, Remove(n, e) \/ Journal(n, e)
      PROVE  snaps' = snaps
  BY <1>5 DEF Remove, Journal
<1>6. ASSUME NEW n \in Nodes, ReplayStart(n) \/ Drain(n) \/ Load(n) \/ Crash(n)
      PROVE  snaps' = snaps
  BY <1>6 DEF ReplayStart, Drain, Load, Crash
<1>7. ASSUME NEW e \in Entries, Handler(e)
      PROVE  snaps' = snaps
  BY <1>7 DEF Handler, Push, SpawnAndAck
<1>8. ASSUME NEW i \in Tries, NEW n \in Nodes, KeyedStart(i, n)
      PROVE  snaps' = snaps
  BY <1>8 DEF KeyedStart
<1>9. CASE UNCHANGED vars
  BY <1>9 DEF vars
<1> QED
  BY <1>1, <1>2, <1>3, <1>4, <1>5, <1>6, <1>7, <1>8, <1>9 DEF Next, Committer

LEMMA NextGrows ==
    ASSUME TypeOK, [Next]_vars
    PROVE  /\ \A r : Committed(r) => Committed(r)'
           /\ snaps' \in Seq(Rows)
           /\ Len(snaps) \in Nat /\ Len(snaps') \in Nat /\ Len(snaps) <= Len(snaps')
<1>1. snaps \in Seq(Rows)
  BY DEF TypeOK, Rows
<1>2. CASE snaps' = snaps
  BY <1>1, <1>2, LenProperties DEF Committed
<1>3. ASSUME NEW rows \in Rows, snaps' = Append(snaps, rows)
      PROVE  /\ \A r : Committed(r) => Committed(r)'
             /\ snaps' \in Seq(Rows)
             /\ Len(snaps) \in Nat /\ Len(snaps') \in Nat /\ Len(snaps) <= Len(snaps')
  BY <1>1, <1>3, Grows, LenProperties
<1> QED
  BY <1>2, <1>3, NextSnaps

-----------------------------------------------------------------------------
(* Types. *)

LEMMA NoJobType == NoJob \in JobType
BY DEF NoJob, JobType

LEMMA TypeInit == Init => TypeOK
<1> SUFFICES ASSUME Init PROVE TypeOK
  OBVIOUS
<1>1. snaps \in Seq(Rows)
  BY EmptySeq DEF Init
<1>2. try \in [Tries -> TryType]
  BY DEF Init, TryType
<1>3. 0 \in 0..MaxCrashes /\ 0 \in 0..MaxFaults
  BY AppendAssumption
<1> QED
  BY <1>1, <1>2, <1>3, NoJobType DEF Init, TypeOK, Rows

(* A conflict that is retried leaves a job, or a try, of its type. *)
LEMMA JobRetry ==
    ASSUME NEW f \in [Nodes -> JobType], NEW n \in Nodes, NEW b \in Nat
    PROVE  [f EXCEPT ![n].base = b, ![n].tries = @ + 1] \in [Nodes -> JobType]
<1> DEFINE g == [f EXCEPT ![n].base = b]
<1>1. g \in [Nodes -> JobType]
  BY DEF JobType
<1>2. [g EXCEPT ![n].tries = @ + 1] \in [Nodes -> JobType]
  <2> HIDE DEF g
  <2> QED
    BY <1>1 DEF JobType
<1> QED
  BY <1>2

LEMMA TryRetry ==
    ASSUME NEW f \in [Tries -> TryType], NEW i \in Tries, NEW b \in Nat
    PROVE  [f EXCEPT ![i].base = b, ![i].tries = @ + 1] \in [Tries -> TryType]
<1> DEFINE g == [f EXCEPT ![i].base = b]
<1>1. g \in [Tries -> TryType]
  BY DEF TryType
<1>2. [g EXCEPT ![i].tries = @ + 1] \in [Tries -> TryType]
  <2> HIDE DEF g
  <2> QED
    BY <1>1 DEF TryType
<1> QED
  BY <1>2

LEMMA FaultType ==
    ASSUME TypeOK, Fault \/ UNCHANGED faults
    PROVE  faults' \in 0..MaxFaults
BY AppendAssumption DEF TypeOK, Fault

LEMMA FailedType ==
    ASSUME TypeOK, NEW n \in Nodes, Failed(n)
    PROVE  /\ job' \in [Nodes -> JobType] /\ gaveup' \in BOOLEAN
           /\ pending' \in [Nodes -> SUBSET Entries] /\ committing' \in [Nodes -> BOOLEAN]
<1>1. job[n].ids \subseteq Entries
  BY DEF TypeOK, JobType
<1>2. job' \in [Nodes -> JobType]
  BY NoJobType DEF Failed, TypeOK
<1>3. gaveup' \in BOOLEAN
  BY DEF Failed
<1>4. CASE job[n].mode = "replay"
  BY <1>2, <1>3, <1>4 DEF Failed, TypeOK
<1>5. CASE job[n].mode # "replay"
  <2>1. pending' \in [Nodes -> SUBSET Entries]
    BY <1>1, <1>5 DEF Failed, TypeOK
  <2>2. committing' \in [Nodes -> BOOLEAN]
    BY <1>5 DEF Failed, TypeOK
  <2> QED
    BY <1>2, <1>3, <2>1, <2>2
<1> QED
  BY <1>4, <1>5

LEMMA TypeStep == TypeOK /\ [Next]_vars => TypeOK'
<1> SUFFICES ASSUME TypeOK, [Next]_vars PROVE TypeOK'
  OBVIOUS
<1>0. (snaps \in Seq(SUBSET (Entries \cup {Key})))' /\ Len(snaps) \in Nat
  BY NextGrows DEF Rows
<1>1. ASSUME NEW n \in Nodes, ReplayStart(n)
      PROVE  TypeOK'
  <2>1. [NoJob EXCEPT !.pc = "load", !.mode = "replay", !.ids = wal[n]] \in JobType
    BY DEF NoJob, JobType, TypeOK
  <2> QED
    BY <1>0, <1>1, <2>1 DEF ReplayStart, TypeOK
<1>2. ASSUME NEW n \in Nodes, NEW e \in Entries, Journal(n, e)
      PROVE  TypeOK'
  <2>1. faults' \in 0..MaxFaults
    BY <1>2, FaultType DEF Journal
  <2>2. wal' \in [Nodes -> SUBSET Entries]
    <3>1. [wal EXCEPT ![n] = @ \cup {e}] \in [Nodes -> SUBSET Entries]
      BY DEF TypeOK
    <3> QED
      BY <1>2, <3>1 DEF Journal, TypeOK
  <2>3. phase' \in [Entries -> {"new", "journaled", "pushed", "acked", "refused", "cut"}]
    BY <1>2 DEF Journal, TypeOK
  <2> QED
    BY <1>0, <1>2, <2>1, <2>2, <2>3 DEF Journal, TypeOK
<1>3. ASSUME NEW e \in Entries, Push(e)
      PROVE  TypeOK'
  BY <1>0, <1>3 DEF Push, TypeOK
<1>4. ASSUME NEW e \in Entries, SpawnAndAck(e)
      PROVE  TypeOK'
  BY <1>0, <1>4 DEF SpawnAndAck, TypeOK
<1>5. ASSUME NEW n \in Nodes, Drain(n)
      PROVE  TypeOK'
  <2>1. [NoJob EXCEPT !.pc = "load", !.ids = pending[n]] \in JobType
    BY DEF NoJob, JobType, TypeOK
  <2>2. job' \in [Nodes -> JobType]
    BY <1>5, <2>1 DEF Drain, TypeOK
  <2>3. pending' \in [Nodes -> SUBSET Entries]
    BY <1>5 DEF Drain, TypeOK
  <2>4. committing' \in [Nodes -> BOOLEAN]
    BY <1>5 DEF Drain, TypeOK
  <2> QED
    BY <1>0, <1>5, <2>2, <2>3, <2>4 DEF Drain, TypeOK
<1>6. ASSUME NEW n \in Nodes, NEW pc \in {"clean", "attempt"}, NEW b \in Nat, NEW k \in Nat
      PROVE  /\ [job EXCEPT ![n].pc = pc, ![n].base = b, ![n].tries = k] \in [Nodes -> JobType]
             /\ [job EXCEPT ![n].pc = pc] \in [Nodes -> JobType]
  <2>1. [job EXCEPT ![n].pc = pc, ![n].base = b, ![n].tries = k]
          = [job EXCEPT ![n] = [job[n] EXCEPT !.pc = pc, !.base = b, !.tries = k]]
    BY DEF TypeOK
  <2>2. job[n] \in JobType
    BY DEF TypeOK
  <2>3. /\ [job[n] EXCEPT !.pc = pc, !.base = b, !.tries = k] \in JobType
        /\ [job[n] EXCEPT !.pc = pc] \in JobType
    BY <2>2 DEF JobType
  <2>4. [job EXCEPT ![n].pc = pc] = [job EXCEPT ![n] = [job[n] EXCEPT !.pc = pc]]
    BY DEF TypeOK
  <2> QED
    BY <2>1, <2>3, <2>4 DEF TypeOK
<1>7. ASSUME NEW n \in Nodes, Load(n)
      PROVE  TypeOK'
  <2>1. faults' \in 0..MaxFaults
    BY <1>7, FaultType DEF Load
  <2>2. CASE Failed(n)
    BY <1>0, <1>7, <2>1, <2>2, FailedType DEF Load, TypeOK
  <2>3. CASE ~Failed(n)
    <3>1. PICK pc \in {"clean", "attempt"} :
            job' = [job EXCEPT ![n].pc = pc, ![n].base = Len(snaps), ![n].tries = 1]
      BY <1>7, <2>3 DEF Load
    <3>2. job' \in [Nodes -> JobType]
      BY <1>0, <1>6, <3>1
    <3> QED
      BY <1>0, <1>7, <2>1, <2>3, <3>2 DEF Load, TypeOK
  <2> QED
    BY <2>2, <2>3
<1>8. ASSUME NEW n \in Nodes, Attempt(n)
      PROVE  TypeOK'
  <2>1. faults' \in 0..MaxFaults
    BY <1>8, FaultType DEF Attempt
  <2>2. CASE Failed(n)
    BY <1>0, <1>8, <2>1, <2>2, FailedType DEF Attempt, TypeOK
  <2>3. CASE ~Failed(n)
    <3>1. \/ job' = [job EXCEPT ![n].pc = "clean"]
          \/ job' = [job EXCEPT ![n].base = Len(snaps), ![n].tries = @ + 1]
      BY <1>8, <2>3 DEF Attempt
    <3>2. [job EXCEPT ![n].pc = "clean"] \in [Nodes -> JobType]
      BY <1>6
    <3>3. [job EXCEPT ![n].base = Len(snaps), ![n].tries = @ + 1] \in [Nodes -> JobType]
      BY <1>0, JobRetry DEF TypeOK
    <3>4. job' \in [Nodes -> JobType]
      BY <3>1, <3>2, <3>3
    <3> QED
      BY <1>0, <1>8, <2>1, <2>3, <3>4 DEF Attempt, TypeOK
  <2> QED
    BY <2>2, <2>3
<1>9. ASSUME NEW n \in Nodes, NEW e \in Entries, Remove(n, e)
      PROVE  TypeOK'
  <2>0. job[n] \in JobType
    BY DEF TypeOK
  <2>1. [job[n] EXCEPT !.ids = job[n].ids \ {e}] \in JobType
    BY <2>0 DEF JobType
  <2>2. job' \in [Nodes -> JobType]
    BY <1>9, <2>1, NoJobType DEF Remove, TypeOK
  <2>3. wal' \in [Nodes -> SUBSET Entries]
    BY <1>9 DEF Remove, TypeOK
  <2>4. replayed' \in [Nodes -> BOOLEAN]
    BY <1>9 DEF Remove, TypeOK
  <2>5. faults' \in 0..MaxFaults
    BY <1>9, FaultType DEF Remove
  <2> QED
    BY <1>0, <1>9, <2>2, <2>3, <2>4, <2>5 DEF Remove, TypeOK
<1>10. ASSUME NEW i \in Tries, NEW n \in Nodes, KeyedStart(i, n)
       PROVE  TypeOK'
  BY <1>0, <1>10 DEF KeyedStart, TypeOK, TryType, queueVars
<1>11. ASSUME NEW i \in Tries, KeyedAttempt(i)
       PROVE  TypeOK'
  <2>1. \A pc \in {"done", "failed"} : [try EXCEPT ![i].pc = pc] \in [Tries -> TryType]
    BY DEF TypeOK, TryType
  <2>2. [try EXCEPT ![i].base = Len(snaps), ![i].tries = @ + 1] \in [Tries -> TryType]
    BY <1>0, TryRetry DEF TypeOK
  <2>3. [cache EXCEPT ![try[i].node] = Len(snaps')] \in [Nodes -> Nat \cup {None}]
    BY NextGrows DEF TypeOK
  <2>4. faults' \in 0..MaxFaults
    BY <1>11, FaultType DEF KeyedAttempt
  <2>5. try' \in [Tries -> TryType]
    BY <1>11, <2>1, <2>2 DEF KeyedAttempt
  <2>6. cache' \in [Nodes -> Nat \cup {None}]
    BY <1>11, <2>3 DEF KeyedAttempt, TypeOK
  <2> QED
    BY <1>0, <1>11, <2>4, <2>5, <2>6 DEF KeyedAttempt, TypeOK, queueVars
<1>12. ASSUME NEW n \in Nodes, Crash(n)
       PROVE  TypeOK'
  <2>1. try' \in [Tries -> TryType]
    <3>1. \A i \in Tries : try[i] \in TryType /\ [try[i] EXCEPT !.pc = "failed"] \in TryType
      BY DEF TypeOK, TryType
    <3>2. try' = [i \in Tries |-> IF try[i].node = n /\ try[i].pc = "attempt"
                                  THEN [try[i] EXCEPT !.pc = "failed"] ELSE try[i]]
      BY <1>12 DEF Crash
    <3> QED
      BY <3>1, <3>2
  <2>2. crashes' \in 0..MaxCrashes
    BY <1>12, AppendAssumption DEF Crash, TypeOK
  <2> QED
    BY <1>0, <1>12, <2>1, <2>2, NoJobType DEF Crash, TypeOK
<1>13. CASE UNCHANGED vars
  BY <1>0, <1>13 DEF vars, queueVars, TypeOK
<1> QED
  BY <1>1, <1>2, <1>3, <1>4, <1>5, <1>7, <1>8, <1>9, <1>10, <1>11, <1>12, <1>13
     DEF Next, Committer, Handler

-----------------------------------------------------------------------------
(* What the steps of a job do. *)

(* A replay, and a committer, start with all there is, or find nothing. *)
LEMMA StartEffect ==
    ASSUME TypeOK, NEW n \in Nodes, ReplayStart(n)
    PROVE  /\ ~replayed[n] /\ job[n] = NoJob
           /\ \A m \in Nodes \ {n} : job'[m] = job[m] /\ replayed'[m] = replayed[m]
           /\ \/ wal[n] = {} /\ replayed'[n] /\ job'[n] = job[n]
              \/ /\ job'[n].pc = "load" /\ job'[n].mode = "replay" /\ job'[n].ids = wal[n]
                 /\ ~replayed'[n]
<1>1. CASE wal[n] = {}
  BY <1>1 DEF ReplayStart, TypeOK
<1>2. CASE wal[n] # {}
  <2>1. /\ job' = [job EXCEPT ![n] = [NoJob EXCEPT !.pc = "load", !.mode = "replay",
                                                  !.ids = wal[n]]]
        /\ ~replayed[n] /\ job[n] = NoJob /\ replayed' = replayed
    BY <1>2 DEF ReplayStart
  <2>2. job'[n] = [NoJob EXCEPT !.pc = "load", !.mode = "replay", !.ids = wal[n]]
        /\ \A m \in Nodes \ {n} : job'[m] = job[m]
    BY <2>1 DEF TypeOK
  <2>3. job'[n] = [pc |-> "load", mode |-> "replay", ids |-> wal[n], base |-> 0, tries |-> 0]
    BY <2>2 DEF NoJob
  <2> QED
    BY <2>1, <2>2, <2>3
<1> QED
  BY <1>1, <1>2

LEMMA DrainEffect ==
    ASSUME TypeOK, NEW n \in Nodes, Drain(n)
    PROVE  /\ committing[n] /\ job[n] = NoJob
           /\ \A m \in Nodes \ {n} : /\ job'[m] = job[m] /\ pending'[m] = pending[m]
                                     /\ committing'[m] = committing[m]
           /\ \/ pending[n] = {} /\ pending' = pending /\ job' = job
              \/ /\ job'[n].pc = "load" /\ job'[n].mode = "drain" /\ job'[n].ids = pending[n]
                 /\ pending'[n] = {} /\ committing'[n]
<1>1. CASE pending[n] = {}
  BY <1>1 DEF Drain, TypeOK
<1>2. CASE pending[n] # {}
  <2>1. /\ job' = [job EXCEPT ![n] = [NoJob EXCEPT !.pc = "load", !.ids = pending[n]]]
        /\ pending' = [pending EXCEPT ![n] = {}]
        /\ committing[n] /\ job[n] = NoJob /\ committing' = committing
    BY <1>2 DEF Drain
  <2>2. /\ job'[n] = [NoJob EXCEPT !.pc = "load", !.ids = pending[n]] /\ pending'[n] = {}
        /\ \A m \in Nodes \ {n} : job'[m] = job[m] /\ pending'[m] = pending[m]
    BY <2>1 DEF TypeOK
  <2>3. job'[n] = [pc |-> "load", mode |-> "drain", ids |-> pending[n], base |-> 0, tries |-> 0]
    BY <2>2 DEF NoJob
  <2>4. job'[n].pc = "load" /\ job'[n].mode = "drain" /\ job'[n].ids = pending[n]
    BY <2>3
  <2>5. committing'[n] /\ \A m \in Nodes : committing'[m] = committing[m]
    BY <2>1
  <2> QED
    BY <2>1, <2>2, <2>4, <2>5
<1> QED
  BY <1>1, <1>2

(* A look-up or an attempt ends the job with an error, or moves it on, to   *)
(* the removal of files only once a snapshot holds its entries.             *)
LEMMA CommitEffect ==
    ASSUME TypeOK, [Next]_vars, NEW n \in Nodes, Load(n) \/ Attempt(n)
    PROVE  /\ job[n].pc \in {"load", "attempt"}
           /\ UNCHANGED <<phase, home, wal, replayed, cache, try>>
           /\ \A m \in Nodes \ {n} : job'[m] = job[m]
           /\ \/ Failed(n)
              \/ /\ job'[n].pc \in {"attempt", "clean"}
                 /\ job'[n].mode = job[n].mode /\ job'[n].ids = job[n].ids
                 /\ job'[n].pc = "clean" => \A e \in job[n].ids : Committed(e)'
                 /\ UNCHANGED <<pending, committing, gaveup>>
<1>1. job \in [Nodes -> JobType] /\ job[n] \in JobType /\ snaps \in Seq(Rows)
      /\ Len(snaps) \in 0..Len(snaps) /\ job[n].ids \in Rows
  <2>1. Len(snaps) \in Nat
    BY NextGrows
  <2> QED
    BY <2>1 DEF TypeOK, Rows, JobType
<1>2. /\ job[n].pc \in {"load", "attempt"}
      /\ UNCHANGED <<phase, home, wal, replayed, cache, try>>
  BY DEF Load, Attempt
<1>3. ASSUME Failed(n)
      PROVE  \A m \in Nodes \ {n} : job'[m] = job[m]
  BY <1>1, <1>3 DEF Failed
<1>4. ASSUME Load(n), ~Failed(n)
      PROVE  /\ \A m \in Nodes \ {n} : job'[m] = job[m]
             /\ job'[n].pc \in {"attempt", "clean"}
             /\ job'[n].mode = job[n].mode /\ job'[n].ids = job[n].ids
             /\ job'[n].pc = "clean" => \A e \in job[n].ids : Committed(e)'
             /\ UNCHANGED <<pending, committing, gaveup>>
  <2>1. PICK pc \in {"clean", "attempt"} :
          /\ job' = [job EXCEPT ![n].pc = pc, ![n].base = Len(snaps), ![n].tries = 1]
          /\ pc = "clean" => Has(Len(snaps), job[n].ids)
          /\ UNCHANGED <<pending, committing, gaveup>>
    BY <1>4 DEF Load
  <2>2. pc = "clean" => \A e \in job[n].ids : Committed(e)'
    BY <1>1, <2>1, Found, NextGrows
  <2> QED
    BY <1>1, <2>1, <2>2 DEF JobType
<1>5. ASSUME Attempt(n), ~Failed(n)
      PROVE  /\ \A m \in Nodes \ {n} : job'[m] = job[m]
             /\ job'[n].pc \in {"attempt", "clean"}
             /\ job'[n].mode = job[n].mode /\ job'[n].ids = job[n].ids
             /\ job'[n].pc = "clean" => \A e \in job[n].ids : Committed(e)'
             /\ UNCHANGED <<pending, committing, gaveup>>
  <2>1. CASE /\ snaps' = Append(snaps, job[n].ids)
             /\ job' = [job EXCEPT ![n].pc = "clean"]
             /\ UNCHANGED <<pending, committing, gaveup>>
    <3>1. \A e \in job[n].ids : Committed(e)'
      BY <1>1, <2>1, Grows
    <3> QED
      BY <1>1, <2>1, <3>1 DEF JobType
  <2>2. CASE /\ job' = [job EXCEPT ![n].base = Len(snaps), ![n].tries = @ + 1]
             /\ UNCHANGED <<pending, committing, gaveup>>
    BY <1>1, <1>5, <2>2 DEF JobType, Attempt
  <2> QED
    BY <1>5, <2>1, <2>2 DEF Attempt
<1> QED
  BY <1>2, <1>3, <1>4, <1>5

(* A failed job is gone; a committer's entries are queued again. *)
LEMMA FailedEffect ==
    ASSUME TypeOK, NEW n \in Nodes, Failed(n)
    PROVE  /\ gaveup' /\ job'[n] = NoJob
           /\ job[n].mode = "replay" => UNCHANGED <<pending, committing>>
           /\ job[n].mode # "replay"
                => /\ pending'[n] = pending[n] \cup job[n].ids /\ ~committing'[n]
                   /\ \A m \in Nodes \ {n} : /\ pending'[m] = pending[m]
                                             /\ committing'[m] = committing[m]
BY DEF Failed, TypeOK

(* The removal of one file, or the failure to remove it. *)
LEMMA RemoveEffect ==
    ASSUME TypeOK, NEW n \in Nodes, NEW e \in Entries, Remove(n, e)
    PROVE  /\ job[n].pc = "clean" /\ e \in job[n].ids
           /\ \A m \in Nodes \ {n} : /\ job'[m] = job[m] /\ wal'[m] = wal[m]
                                     /\ replayed'[m] = replayed[m]
           /\ wal'[n] = wal[n] \ {e} \/ wal'[n] = wal[n]
           /\ \/ /\ job'[n].pc = "clean" /\ job'[n].mode = job[n].mode
                 /\ job'[n].ids = job[n].ids \ {e} /\ replayed'[n] = replayed[n]
              \/ /\ job'[n] = NoJob /\ job[n].ids = {e}
                 /\ replayed'[n] \/ (replayed'[n] = replayed[n] /\ job[n].mode = "drain")
              \/ /\ job'[n] = NoJob /\ job[n].mode = "replay"
                 /\ wal' = wal /\ replayed'[n] = replayed[n]
<1> DEFINE left == job[n].ids \ {e}
           next == IF left = {} THEN NoJob ELSE [job[n] EXCEPT !.ids = left]
<1>1. job \in [Nodes -> JobType] /\ job[n] \in JobType
  BY DEF TypeOK
<1>2. job[n].pc = "clean" /\ e \in job[n].ids
  BY DEF Remove
<1>3. ASSUME left # {}
      PROVE  next.pc = "clean" /\ next.mode = job[n].mode /\ next.ids = left /\ next # NoJob
  BY <1>1, <1>2, <1>3 DEF JobType, NoJob
<1>4. left = {} => next = NoJob /\ job[n].ids = {e}
  BY <1>2
<1> HIDE DEF next
<1>5. job[n].mode \in {"drain", "replay"}
  BY <1>1 DEF JobType
<1>6. CASE /\ wal' = [wal EXCEPT ![n] = @ \ {e}]
           /\ job' = [job EXCEPT ![n] = next]
           /\ replayed' = [replayed EXCEPT ![n] = @ \/ next = NoJob]
  <2>1. /\ job'[n] = next /\ wal'[n] = wal[n] \ {e} /\ replayed'[n] = (replayed[n] \/ next = NoJob)
        /\ \A m \in Nodes \ {n} : /\ job'[m] = job[m] /\ wal'[m] = wal[m]
                                  /\ replayed'[m] = replayed[m]
    BY <1>6 DEF TypeOK
  <2>2. replayed[n] \in BOOLEAN
    BY DEF TypeOK
  <2> QED
    BY <1>2, <1>3, <1>4, <2>1, <2>2
<1>7. CASE /\ job' = [job EXCEPT ![n] = IF @.mode = "replay" THEN NoJob ELSE next]
           /\ UNCHANGED <<wal, replayed>>
  <2>1. /\ job'[n] = IF job[n].mode = "replay" THEN NoJob ELSE next
        /\ \A m \in Nodes \ {n} : job'[m] = job[m]
    BY <1>1, <1>7
  <2> QED
    BY <1>2, <1>3, <1>4, <1>5, <1>7, <2>1
<1>8. \/ /\ wal' = [wal EXCEPT ![n] = @ \ {e}]
         /\ job' = [job EXCEPT ![n] = next]
         /\ replayed' = [replayed EXCEPT ![n] = @ \/ next = NoJob]
      \/ /\ job' = [job EXCEPT ![n] = IF @.mode = "replay" THEN NoJob ELSE next]
         /\ UNCHANGED <<wal, replayed>>
  BY DEF Remove, next
<1> QED
  BY <1>6, <1>7, <1>8

-----------------------------------------------------------------------------
(* Every step preserves the invariant, part by part. *)

LEMMA InitIInv == Init => IInv
<1> SUFFICES ASSUME Init PROVE IInv
  OBVIOUS
<1>1. Journaled /\ Jobs /\ Woken /\ Queued
  BY DEF Init, Journaled, Jobs, Woken, Queued, NoJob
<1>2. Keyed
  BY DEF Init, Keyed
<1> QED
  BY <1>1, <1>2, TypeInit DEF IInv

LEMMA JournaledStep ==
    ASSUME IInv, [Next]_vars
    PROVE  Journaled'
<1> USE DEF IInv
<1>0. \A r : Committed(r) => Committed(r)'
  BY NextGrows
<1>1. ASSUME NEW n \in Nodes, ReplayStart(n)
      PROVE  Journaled'
  <2>1. \A m \in Nodes : job'[m] = job[m] \/ job'[m].pc = "load"
    BY <1>1, StartEffect
  <2> QED
    BY <1>0, <1>1, <2>1 DEF ReplayStart, Journaled
<1>2. ASSUME NEW n \in Nodes, NEW e \in Entries, Journal(n, e)
      PROVE  Journaled'
  <2>1. /\ home'[e] = n
        /\ phase'[e] = "journaled" => e \in wal'[n]
        /\ phase'[e] \in {"journaled", "refused"}
    <3>1. CASE wal' = [wal EXCEPT ![n] = @ \cup {e}]
      BY <1>2, <3>1 DEF Journal, TypeOK
    <3>2. CASE wal' # [wal EXCEPT ![n] = @ \cup {e}]
      BY <1>2, <3>2 DEF Journal, TypeOK
    <3> QED
      BY <3>1, <3>2
  <2>2. \A f \in Entries \ {e} : phase'[f] = phase[f] /\ home'[f] = home[f]
    BY <1>2 DEF Journal, TypeOK
  <2>3. \A m \in Nodes : wal[m] \subseteq wal'[m]
    BY <1>2 DEF Journal, TypeOK
  <2> QED
    BY <1>0, <1>2, <2>1, <2>2, <2>3 DEF Journal, Journaled
<1>3. ASSUME NEW e \in Entries, Handler(e)
      PROVE  Journaled'
  <2>1. \A f \in Entries : phase'[f] \in {"journaled", "pushed", "acked"}
                             => phase[f] \in {"journaled", "pushed", "acked"}
    BY <1>3 DEF Handler, Push, SpawnAndAck, TypeOK
  <2> QED
    BY <1>0, <1>3, <2>1 DEF Handler, Push, SpawnAndAck, Journaled
<1>4. ASSUME NEW n \in Nodes, Drain(n)
      PROVE  Journaled'
  <2>1. \A m \in Nodes : job'[m] = job[m] \/ job'[m].pc = "load"
    BY <1>4, DrainEffect
  <2> QED
    BY <1>0, <1>4, <2>1 DEF Drain, Journaled
<1>5. ASSUME NEW n \in Nodes, Load(n) \/ Attempt(n)
      PROVE  Journaled'
  <2>1. job'[n].pc = "clean" => \A e \in job'[n].ids : Committed(e)'
    BY <1>5, CommitEffect, FailedEffect DEF NoJob
  <2> QED
    BY <1>0, <1>5, <2>1, CommitEffect DEF Journaled
<1>6. ASSUME NEW n \in Nodes, NEW e \in Entries, Remove(n, e)
      PROVE  Journaled'
  <2>1. Committed(e) /\ UNCHANGED <<phase, home>>
    BY <1>6, RemoveEffect DEF Remove, Journaled
  <2>2. \A m \in Nodes : wal[m] \ {e} \subseteq wal'[m]
    BY <1>6, RemoveEffect
  <2>3. job'[n].pc = "clean" => job'[n].ids \subseteq job[n].ids
    BY <1>6, RemoveEffect DEF NoJob
  <2>4. job[n].pc = "clean" /\ \A m \in Nodes \ {n} : job'[m] = job[m]
    BY <1>6, RemoveEffect
  <2> QED
    BY <1>0, <2>1, <2>2, <2>3, <2>4 DEF Journaled
<1>7. ASSUME NEW n \in Nodes, Crash(n)
      PROVE  Journaled'
  <2>1. \A f \in Entries : phase'[f] \in {"journaled", "pushed", "acked"}
                             => phase'[f] = phase[f]
    BY <1>7 DEF Crash, TypeOK
  <2>2. \A m \in Nodes : job'[m] = job[m] \/ job'[m].pc = "none"
    BY <1>7 DEF Crash, NoJob, TypeOK
  <2> QED
    BY <1>0, <1>7, <2>1, <2>2 DEF Crash, Journaled
<1>8. ASSUME UNCHANGED <<phase, home, wal, job>>
      PROVE  Journaled'
  BY <1>0, <1>8 DEF Journaled
<1> QED
  BY <1>1, <1>2, <1>3, <1>4, <1>5, <1>6, <1>7, <1>8
     DEF Next, Committer, KeyedStart, KeyedAttempt, queueVars, vars

LEMMA KeyedStep ==
    ASSUME IInv, [Next]_vars
    PROVE  Keyed'
<1> USE DEF IInv
<1>0. /\ \A r : Committed(r) => Committed(r)'
      /\ Len(snaps) \in Nat /\ Len(snaps') \in Nat /\ Len(snaps) <= Len(snaps')
      /\ snaps \in Seq(Rows)
  BY NextGrows DEF TypeOK, Rows
<1>1. ASSUME NEW i \in Tries, NEW n \in Nodes, KeyedStart(i, n)
      PROVE  Keyed'
  <2> DEFINE view == IF cache[n] = None THEN Len(snaps) ELSE cache[n]
  <2>1. view \in 0..Len(snaps)
    BY <1>0 DEF Keyed
  <2>2. cache' = [cache EXCEPT ![n] = view]
        /\ try' = [try EXCEPT ![i] = [pc |-> IF Has(view, {Key}) THEN "replayed" ELSE "attempt",
                                      node |-> n, base |-> Len(snaps), tries |-> 1]]
    BY <1>1 DEF KeyedStart
  <2> HIDE DEF view
  <2>3. Has(view, {Key}) => Committed(Key)
    BY <1>0, <2>1, Found
  <2>4. try'[i].pc = "replayed" => Committed(Key)'
    BY <1>0, <2>2, <2>3 DEF TypeOK
  <2>5. try'[i].pc # "done" /\ \A j \in Tries \ {i} : try'[j] = try[j]
    BY <2>2 DEF TypeOK
  <2>6. \A m \in Nodes : cache'[m] = None \/ cache'[m] \in 0..Len(snaps')
    BY <1>0, <2>1, <2>2 DEF Keyed, TypeOK
  <2> QED
    BY <1>0, <2>4, <2>5, <2>6 DEF Keyed
<1>2. ASSUME NEW i \in Tries, KeyedAttempt(i)
      PROVE  Keyed'
  <2>1. \A m \in Nodes : cache'[m] = cache[m] \/ cache'[m] = Len(snaps')
    BY <1>2 DEF KeyedAttempt, TypeOK
  <2>2. \A j \in Tries \ {i} : try'[j] = try[j]
    BY <1>2 DEF KeyedAttempt, TypeOK
  <2>3. CASE snaps' = Append(snaps, {Key}) /\ try' = [try EXCEPT ![i].pc = "done"]
    <3>1. Committed(Key)'
      BY <1>0, <2>3, Grows DEF Rows
    <3> QED
      BY <1>0, <2>1, <3>1 DEF Keyed
  <2>4. ASSUME try' \in {[try EXCEPT ![i].pc = "failed"],
                         [try EXCEPT ![i].base = Len(snaps), ![i].tries = @ + 1]}
        PROVE  Keyed'
    <3>1. try'[i].pc \notin {"done", "replayed"}
      BY <1>2, <2>4 DEF KeyedAttempt, TypeOK, TryType
    <3> QED
      BY <1>0, <2>1, <2>2, <3>1 DEF Keyed
  <2> QED
    BY <1>2, <2>3, <2>4 DEF KeyedAttempt
<1>3. ASSUME NEW n \in Nodes, Crash(n)
      PROVE  Keyed'
  <2>1. \A j \in Tries : try'[j].pc \in {"done", "replayed"} => try'[j] = try[j]
    BY <1>3 DEF Crash, TypeOK, TryType
  <2>2. \A m \in Nodes : cache'[m] = cache[m] \/ cache'[m] = None
    BY <1>3 DEF Crash, TypeOK
  <2> QED
    BY <1>0, <2>1, <2>2 DEF Keyed
<1>4. ASSUME UNCHANGED <<cache, try>>
      PROVE  Keyed'
  BY <1>0, <1>4 DEF Keyed
<1>5. ASSUME NEW n \in Nodes, ReplayStart(n) \/ Committer(n)
      PROVE  UNCHANGED <<cache, try>>
  BY <1>5 DEF ReplayStart, Committer, Drain, Load, Attempt, Remove
<1>6. ASSUME NEW e \in Entries, Handler(e) \/ \E n \in Nodes : Journal(n, e)
      PROVE  UNCHANGED <<cache, try>>
  BY <1>6 DEF Journal, Handler, Push, SpawnAndAck
<1> QED
  BY <1>1, <1>2, <1>3, <1>4, <1>5, <1>6 DEF Next, vars

(* The handlers of a process run once it has replayed. *)
LEMMA HandlerHome ==
    ASSUME IInv, NEW e \in Entries, phase[e] \in {"journaled", "pushed"}
    PROVE  home[e] \in Nodes /\ replayed[home[e]]
BY DEF IInv, Journaled, Jobs

LEMMA JobsStep ==
    ASSUME IInv, [Next]_vars
    PROVE  Jobs'
<1> USE DEF IInv
<1>0. \A r : Committed(r) => Committed(r)'
  BY NextGrows
<1>1. ASSUME NEW n \in Nodes, ReplayStart(n)
      PROVE  Jobs'
  <2>1. UNCHANGED <<wal, pending, committing, phase, home>>
    BY <1>1 DEF ReplayStart
  <2> QED
    BY <1>0, <1>1, <2>1, StartEffect DEF Jobs, NoJob
<1>2. ASSUME NEW n \in Nodes, NEW e \in Entries, Journal(n, e)
      PROVE  Jobs'
  <2>1. /\ replayed[n] /\ UNCHANGED <<pending, committing, job, replayed>>
        /\ \A m \in Nodes \ {n} : wal'[m] = wal[m]
        /\ home'[e] = n
        /\ \A f \in Entries \ {e} : phase'[f] = phase[f] /\ home'[f] = home[f]
    BY <1>2 DEF Journal, TypeOK
  <2> QED
    BY <1>0, <2>1 DEF Jobs
<1>3. ASSUME NEW e \in Entries, Handler(e)
      PROVE  Jobs'
  <2>1. home[e] \in Nodes /\ replayed[home[e]]
    BY <1>3, HandlerHome DEF Handler, Push, SpawnAndAck
  <2>2. /\ UNCHANGED <<wal, job, replayed, home>>
        /\ \A f \in Entries \ {e} : phase'[f] = phase[f]
    BY <1>3 DEF Handler, Push, SpawnAndAck, TypeOK
  <2>3. \A m \in Nodes : m # home[e] => pending'[m] = pending[m] /\ committing'[m] = committing[m]
    BY <1>3, <2>1 DEF Handler, Push, SpawnAndAck, TypeOK
  <2>4. committing[home[e]] => committing'[home[e]]
    BY <1>3, <2>1 DEF Handler, Push, SpawnAndAck, TypeOK
  <2> QED
    BY <1>0, <2>1, <2>2, <2>3, <2>4 DEF Jobs
<1>4. ASSUME NEW n \in Nodes, Drain(n)
      PROVE  Jobs'
  <2>1. UNCHANGED <<wal, replayed, phase, home>>
    BY <1>4 DEF Drain
  <2>2. committing[n] /\ replayed[n]
    BY <1>4, DrainEffect DEF Jobs
  <2> QED
    BY <1>0, <1>4, <2>1, <2>2, DrainEffect DEF Jobs, NoJob
<1>5. ASSUME NEW n \in Nodes, Load(n) \/ Attempt(n)
      PROVE  Jobs'
  <2>1. CASE Failed(n)
    <3>1. /\ job'[n] = NoJob
          /\ ~replayed[n] => pending'[n] = {} /\ ~committing'[n]
          /\ \A m \in Nodes \ {n} : pending'[m] = pending[m] /\ committing'[m] = committing[m]
      <4>1. CASE job[n].mode = "replay"
        BY <2>1, <4>1, FailedEffect DEF Jobs
      <4>2. CASE job[n].mode # "replay"
        <5>1. job[n].mode = "drain" /\ job[n].pc # "none"
          BY <1>5, <4>2, CommitEffect DEF TypeOK, JobType
        <5> QED
          BY <2>1, <4>2, <5>1, FailedEffect DEF Jobs
      <4> QED
        BY <4>1, <4>2
    <3> QED
      BY <1>0, <1>5, <3>1, CommitEffect DEF Jobs, NoJob
  <2>2. CASE ~Failed(n)
    BY <1>0, <1>5, <2>2, CommitEffect DEF Jobs
  <2> QED
    BY <2>1, <2>2
<1>6. ASSUME NEW n \in Nodes, NEW e \in Entries, Remove(n, e)
      PROVE  Jobs'
  <2>1. Committed(e) /\ UNCHANGED <<phase, home, pending, committing>>
    BY <1>6, RemoveEffect DEF Remove, Journaled
  <2>2. replayed[n] => replayed'[n]
    BY <1>6, RemoveEffect
  <2>3. job'[n].pc = "none" => job'[n] = NoJob
    BY <1>6, RemoveEffect
  <2>4. (job'[n].pc # "none" /\ job'[n].mode = "drain") => committing[n] /\ replayed[n]
    BY <1>6, RemoveEffect DEF Jobs, NoJob
  <2>5. job'[n].mode = "replay"
          => ~replayed'[n] /\ \A f \in wal'[n] : f \in job'[n].ids \/ Committed(f)
    BY <1>6, <2>1, RemoveEffect DEF Jobs, NoJob
  <2>6. \A m \in Nodes \ {n} : job'[m] = job[m] /\ wal'[m] = wal[m] /\ replayed'[m] = replayed[m]
    BY <1>6, RemoveEffect
  <2> QED
    BY <1>0, <2>1, <2>2, <2>3, <2>4, <2>5, <2>6 DEF Jobs
<1>7. ASSUME NEW n \in Nodes, Crash(n)
      PROVE  Jobs'
  <2>1. /\ job'[n] = NoJob /\ pending'[n] = {} /\ ~committing'[n]
        /\ UNCHANGED <<wal, home>>
        /\ \A m \in Nodes \ {n} : /\ job'[m] = job[m] /\ pending'[m] = pending[m]
                                  /\ committing'[m] = committing[m]
                                  /\ replayed'[m] = replayed[m]
    BY <1>7 DEF Crash, TypeOK
  <2>2. \A e \in Entries : /\ home[e] = n => phase'[e] \notin {"journaled", "pushed"}
                           /\ home[e] # n => phase'[e] = phase[e]
    BY <1>7 DEF Crash
  <2> QED
    BY <1>0, <2>1, <2>2 DEF Jobs, NoJob
<1>8. ASSUME UNCHANGED <<wal, pending, committing, job, replayed, phase, home>>
      PROVE  Jobs'
  BY <1>0, <1>8 DEF Jobs
<1> QED
  BY <1>1, <1>2, <1>3, <1>4, <1>5, <1>6, <1>7, <1>8
     DEF Next, Committer, KeyedStart, KeyedAttempt, queueVars, vars

LEMMA WokenStep ==
    ASSUME IInv, [Next]_vars
    PROVE  Woken'
<1> USE DEF IInv
<1>1. ASSUME UNCHANGED <<pending, committing, gaveup, phase, home>>
      PROVE  Woken'
  BY <1>1 DEF Woken
<1>2. ASSUME NEW n \in Nodes, NEW e \in Entries, Journal(n, e)
      PROVE  Woken'
  <2>1. /\ phase[e] = "new" /\ UNCHANGED <<pending, committing, gaveup>>
        /\ \A f \in Entries \ {e} : phase'[f] = phase[f] /\ home'[f] = home[f]
    BY <1>2 DEF Journal, TypeOK
  <2> QED
    BY <2>1 DEF Woken
<1>3. ASSUME NEW e \in Entries, Push(e)
      PROVE  Woken'
  <2>1. /\ home[e] \in Nodes /\ phase'[e] = "pushed" /\ UNCHANGED <<committing, gaveup, home>>
        /\ \A f \in Entries \ {e} : phase'[f] = phase[f]
        /\ \A m \in Nodes : m # home[e] => pending'[m] = pending[m]
        /\ phase[e] = "journaled"
    BY <1>3, HandlerHome DEF Push, TypeOK
  <2> QED
    BY <2>1 DEF Woken
<1>4. ASSUME NEW e \in Entries, SpawnAndAck(e)
      PROVE  Woken'
  <2>1. /\ home[e] \in Nodes /\ UNCHANGED <<pending, gaveup, home>>
        /\ \A f \in Entries \ {e} : phase'[f] = phase[f]
    BY <1>4, HandlerHome DEF SpawnAndAck, TypeOK
  <2>2. /\ pending[home[e]] # {} => committing'[home[e]]
        /\ \A m \in Nodes : m # home[e] => committing'[m] = committing[m]
    BY <1>4, <2>1 DEF SpawnAndAck, TypeOK
  <2> QED
    BY <2>1, <2>2 DEF Woken
<1>5. ASSUME NEW n \in Nodes, Drain(n)
      PROVE  Woken'
  <2>1. UNCHANGED <<gaveup, phase, home>>
    BY <1>5 DEF Drain
  <2>2. pending'[n] = {}
    BY <1>5, DrainEffect
  <2>3. \A m \in Nodes \ {n} : pending'[m] = pending[m] /\ committing'[m] = committing[m]
    BY <1>5, DrainEffect
  <2> QED
    BY <2>1, <2>2, <2>3 DEF Woken
<1>6. ASSUME NEW n \in Nodes, Load(n) \/ Attempt(n)
      PROVE  Woken'
  <2>1. CASE Failed(n)
    BY <2>1, FailedEffect DEF Woken
  <2>2. CASE ~Failed(n)
    BY <1>1, <1>6, <2>2, CommitEffect
  <2> QED
    BY <2>1, <2>2
<1>7. ASSUME NEW n \in Nodes, Crash(n)
      PROVE  Woken'
  <2>1. /\ pending'[n] = {} /\ UNCHANGED <<gaveup, home>>
        /\ \A m \in Nodes \ {n} : pending'[m] = pending[m] /\ committing'[m] = committing[m]
    BY <1>7 DEF Crash, TypeOK
  <2>2. \A e \in Entries : home[e] # n => phase'[e] = phase[e]
    BY <1>7 DEF Crash
  <2> QED
    BY <2>1, <2>2 DEF Woken
<1>8. ASSUME NEW n \in Nodes, ReplayStart(n) \/ \E e \in Entries : Remove(n, e)
      PROVE  Woken'
  BY <1>1, <1>8 DEF ReplayStart, Remove
<1> QED
  BY <1>1, <1>2, <1>3, <1>4, <1>5, <1>6, <1>7, <1>8
     DEF Next, Committer, Handler, KeyedStart, KeyedAttempt, queueVars, vars

LEMMA QueuedStep ==
    ASSUME IInv, [Next]_vars
    PROVE  Queued'
<1> USE DEF IInv
<1>0. \A r : Committed(r) => Committed(r)'
  BY NextGrows
<1>1. ASSUME NEW n \in Nodes, ReplayStart(n)
      PROVE  Queued'
  <2>1. UNCHANGED <<wal, pending, phase, home>>
    BY <1>1 DEF ReplayStart
  <2>2. ASSUME wal[n] = {}, NEW e \in Entries, home[e] = n, phase[e] \in {"pushed", "acked"}
        PROVE  Committed(e)
    BY <2>2 DEF Journaled
  <2> QED
    BY <1>0, <1>1, <2>1, <2>2, StartEffect DEF Queued
<1>2. ASSUME NEW n \in Nodes, NEW e \in Entries, Journal(n, e)
      PROVE  Queued'
  <2>1. /\ phase'[e] \in {"journaled", "refused"} /\ UNCHANGED <<pending, job, replayed>>
        /\ \A f \in Entries \ {e} : phase'[f] = phase[f] /\ home'[f] = home[f]
    BY <1>2 DEF Journal, TypeOK
  <2> QED
    BY <1>0, <2>1 DEF Queued
<1>3. ASSUME NEW e \in Entries, Push(e)
      PROVE  Queued'
  <2>1. home[e] \in Nodes
    BY <1>3, HandlerHome DEF Push
  <2>2. /\ e \in pending'[home[e]] /\ UNCHANGED <<job, replayed, home>>
        /\ \A f \in Entries \ {e} : phase'[f] = phase[f]
        /\ \A m \in Nodes : pending[m] \subseteq pending'[m]
    BY <1>3, <2>1 DEF Push, TypeOK
  <2> QED
    BY <1>0, <2>1, <2>2 DEF Queued
<1>4. ASSUME NEW e \in Entries, SpawnAndAck(e)
      PROVE  Queued'
  <2>1. /\ phase[e] = "pushed" /\ UNCHANGED <<pending, job, replayed, home>>
        /\ \A f \in Entries \ {e} : phase'[f] = phase[f]
    BY <1>4 DEF SpawnAndAck, TypeOK
  <2> QED
    BY <1>0, <2>1 DEF Queued
<1>5. ASSUME NEW n \in Nodes, Drain(n)
      PROVE  Queued'
  <2>1. UNCHANGED <<replayed, phase, home>>
    BY <1>5 DEF Drain
  <2> QED
    BY <1>0, <1>5, <2>1, DrainEffect DEF Queued, NoJob
<1>6. ASSUME NEW n \in Nodes, Load(n) \/ Attempt(n)
      PROVE  Queued'
  <2>1. CASE Failed(n)
    <3>1. CASE job[n].mode = "replay"
      <4>1. ~replayed[n] /\ UNCHANGED pending
        BY <2>1, <3>1, FailedEffect DEF Jobs
      <4> QED
        BY <1>0, <1>6, <4>1, CommitEffect DEF Queued
    <3>2. CASE job[n].mode # "replay"
      BY <1>0, <1>6, <2>1, <3>2, CommitEffect, FailedEffect DEF Queued
    <3> QED
      BY <3>1, <3>2
  <2>2. CASE ~Failed(n)
    <3>1. /\ UNCHANGED <<pending, phase, home, replayed>>
          /\ \A m \in Nodes : job'[m].ids = job[m].ids
      BY <1>6, <2>2, CommitEffect
    <3> QED
      BY <1>0, <3>1 DEF Queued
  <2> QED
    BY <2>1, <2>2
<1>7. ASSUME NEW n \in Nodes, NEW e \in Entries, Remove(n, e)
      PROVE  Queued'
  <2>1. /\ job[n].pc = "clean" /\ Committed(e) /\ UNCHANGED <<phase, home, pending>>
        /\ \A f \in job[n].ids : Committed(f)
    BY <1>7, RemoveEffect DEF Remove, Journaled
  <2>2. \A m \in Nodes \ {n} : job'[m] = job[m] /\ replayed'[m] = replayed[m]
    BY <1>7, RemoveEffect
  <2>3. ASSUME NEW f \in Entries, home[f] = n, phase[f] \in {"pushed", "acked"}, replayed'[n]
        PROVE  Committed(f) \/ f \in pending[n]
    <3>1. CASE replayed[n]
      BY <2>1, <2>3, <3>1 DEF Queued
    <3>2. CASE ~replayed[n]
      <4>1. job[n].mode = "replay"
        BY <2>1, <3>2 DEF Jobs, TypeOK, JobType
      <4>2. f \in wal[n] => Committed(f)
        BY <2>1, <4>1 DEF Jobs
      <4> QED
        BY <2>3, <4>2 DEF Journaled
    <3> QED
      BY <3>1, <3>2
  <2> QED
    BY <1>0, <2>1, <2>2, <2>3 DEF Queued
<1>8. ASSUME NEW n \in Nodes, Crash(n)
      PROVE  Queued'
  <2>1. /\ ~replayed'[n] /\ UNCHANGED home
        /\ \A m \in Nodes \ {n} : /\ job'[m] = job[m] /\ pending'[m] = pending[m]
                                  /\ replayed'[m] = replayed[m]
    BY <1>8 DEF Crash, TypeOK
  <2>2. \A e \in Entries : home[e] # n => phase'[e] = phase[e]
    BY <1>8 DEF Crash
  <2> QED
    BY <1>0, <2>1, <2>2 DEF Queued
<1>9. ASSUME UNCHANGED <<pending, job, replayed, phase, home>>
      PROVE  Queued'
  BY <1>0, <1>9 DEF Queued
<1> QED
  BY <1>1, <1>2, <1>3, <1>4, <1>5, <1>6, <1>7, <1>8, <1>9
     DEF Next, Committer, Handler, KeyedStart, KeyedAttempt, queueVars, vars

-----------------------------------------------------------------------------
(* The theorems. *)

(* The inductive invariant holds in every state of every behaviour of the   *)
(* table services.                                                          *)
THEOREM Invariance == Spec => []IInv
<1>1. IInv /\ [Next]_vars => IInv'
  BY TypeStep, JournaledStep, KeyedStep, JobsStep, WokenStep, QueuedStep DEF IInv
<1> QED
  BY <1>1, InitIInv, PTL DEF Spec

(* The table services keep their types: a job names appends of the table,   *)
(* and a cached view counts snapshots.                                      *)
THEOREM TypeCorrectness == Spec => []TypeOK
BY Invariance, PTL DEF IInv

(* An append that ack_append answered is in the table or in its process's   *)
(* WAL directory, and a keyed append that commit_batches_cached answered is *)
(* in the table, whatever crashed or failed.                                *)
THEOREM AcknowledgedIsKept == Spec => []AckedKept
<1>1. IInv => AckedKept
  BY DEF IInv, Journaled, Keyed, AckedKept
<1> QED
  BY <1>1, Invariance, PTL

(* spawn_commit_if_idle and the end of drain_and_commit_loop never miss     *)
(* each other: entries wait without a committer only while their handler is *)
(* on its way, or after a failed commit.                                    *)
THEOREM NoLostWakeUp == Spec => []Woken
BY Invariance, PTL DEF IInv

(* is_idle of a process that has replayed means that every append it        *)
(* acknowledged is in the table.                                            *)
THEOREM IdleOwesNothing == Spec => []IdleMeansCommitted
<1>1. IInv => IdleMeansCommitted
  <2> SUFFICES ASSUME IInv, NEW n \in Nodes, replayed[n], ~committing[n], pending[n] = {},
                      NEW e \in Entries, home[e] = n, phase[e] = "acked"
               PROVE  Committed(e)
    BY DEF IdleMeansCommitted
  <2>1. job[n] = NoJob
    BY DEF IInv, Jobs, TypeOK, JobType
  <2> QED
    BY <2>1 DEF IInv, Queued, NoJob
<1> QED
  BY <1>1, Invariance, PTL
=============================================================================

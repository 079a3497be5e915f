-------------------------- MODULE RestoreSystemProofs --------------------------
(***************************************************************************)
(* Theorems about RestoreSystem, for any sets of names, Jobs, seconds and  *)
(* storage types, any bounds, and with or without finalizers.              *)
(***************************************************************************)
EXTENDS RestoreSystem, TLAPS

-----------------------------------------------------------------------------
(* The inductive invariant.                                                *)

Busy(j) == worker[j].pc \in {"loaded", "located", "applied", "failing"}

\* The sources are what BackupLedger makes of them.
SourcesTyped ==
  /\ lastSourceUid \in 0..MaxSourceUid
  /\ source \in [Sources -> [uid : 0..MaxSourceUid, generation : 0..1]]
  /\ published \in [Sources -> Locations \cup {NoLocation}]

\* A holder whose resourceVersion is the current one holds the current object.
ManagerCopies ==
  \A r \in Restores :
    /\ "cache" \in fresh[r] => cached[r] = restore[r]
    /\ rec[r].pc # "idle" =>
         /\ Exists(rec[r].obj)
         /\ "reconciler" \in fresh[r] => rec[r].obj = restore[r]

\* So does a worker, for the object its Job names.
WorkerCopies ==
  \A j \in JobIds :
    Busy(j) =>
      /\ jobs[j].restore \in Restores
      /\ Exists(worker[j].obj)
      /\ j \in fresh[jobs[j].restore] => worker[j].obj = restore[jobs[j].restore]
      /\ worker[j].pc = "located" => worker[j].location # NoLocation

IInv == TypeOK /\ SourcesTyped /\ ManagerCopies /\ WorkerCopies

-----------------------------------------------------------------------------
(* Types of what the operations write.                                     *)

Records == [pc : ReconcileStates, obj : Objects \cup {Absent}]

Workers == [pc : WorkerStates, obj : Objects \cup {Absent},
            location : Locations \cup {NoLocation}]

LEMMA AbsentFacts ==
  /\ ~Exists(Absent)
  /\ Idle \in Records /\ Idle.pc = "idle"
  /\ \A pc \in WorkerStates : [NotStarted EXCEPT !.pc = pc] \in Workers
  BY DEF Absent, Exists, Records, Idle, ReconcileStates, Workers, NotStarted

LEMMA NewPhase == "" \in Phases /\ "" # "Running" /\ "" # "Completed"
  BY DEF Phases

LEMMA ExistingObjects ==
  ASSUME NEW o \in Objects \cup {Absent}, Exists(o)
  PROVE  o \in Objects
  BY AbsentFacts

LEMMA InitIInv == Init => IInv
<1> SUFFICES ASSUME Init PROVE IInv
  OBVIOUS
<1>1. TypeOK
  BY BoundsAssumption DEF Init, TypeOK, Ledger!Init, Holders, Idle, ReconcileStates,
     JobRecords, NotStarted, WorkerStates, NoSource
<1>2. SourcesTyped
  BY BoundsAssumption DEF Init, Ledger!Init, Ledger!Gone, SourcesTyped
<1>3. ManagerCopies
  BY DEF Init, ManagerCopies, Idle
<1>4. WorkerCopies
  BY DEF Init, WorkerCopies, Busy, NotStarted
<1> QED
  BY <1>1, <1>2, <1>3, <1>4 DEF IInv

LEMMA PutFacts ==
  ASSUME TypeOK, NEW r \in Restores, NEW o \in Objects \cup {Absent}, Put(r, o)
  PROVE  /\ restore' \in [Restores -> Objects \cup {Absent}]
         /\ fresh' \in [Restores -> SUBSET Holders]
         /\ restore'[r] = o /\ fresh'[r] = {}
         /\ \A q \in Restores \ {r} :
              restore'[q] = restore[q] /\ fresh'[q] = fresh[q]
  BY DEF TypeOK, Put

\* An accepted update changes the phase only, and leaves no stale copy that
\* looks current.
LEMMA UpdateFacts ==
  ASSUME TypeOK, NEW r \in Restores, NEW h, NEW phase \in Phases,
         UpdatePhase(h, r, phase)
  PROVE  /\ restore[r] \in Objects /\ h \in fresh[r]
         /\ restore' \in [Restores -> Objects \cup {Absent}]
         /\ fresh' \in [Restores -> SUBSET Holders]
         /\ \A q \in Restores :
              /\ fresh'[q] \subseteq fresh[q]
              /\ fresh'[q] # {} => restore'[q] = restore[q]
         /\ \A q \in Restores \ {r} : restore'[q] = restore[q]
         /\ restore'[r] = [restore[r] EXCEPT !.phase = phase]
<1>1. restore[r] \in Objects /\ h \in fresh[r]
  BY ExistingObjects DEF TypeOK, UpdatePhase, UpdateAccepted
<1>2. [restore[r] EXCEPT !.phase = phase] \in Objects
  BY <1>1 DEF Objects
<1>3. CASE Put(r, [restore[r] EXCEPT !.phase = phase])
  BY <1>1, <1>2, <1>3, PutFacts
<1>4. CASE phase = restore[r].phase /\ UNCHANGED <<restore, fresh>>
  <2>1. [restore[r] EXCEPT !.phase = phase] = restore[r]
    BY <1>1, <1>4 DEF Objects
  <2> QED
    BY <1>1, <1>4, <2>1 DEF TypeOK
<1> QED
  BY <1>3, <1>4 DEF UpdatePhase

-----------------------------------------------------------------------------
(* Users.                                                                  *)

LEMMA UserWrite ==
  ASSUME IInv, NEW r \in Restores, NEW o \in Objects \cup {Absent}, Put(r, o),
         lastUid' \in 0..MaxUid,
         UNCHANGED <<manager, jobs, worker, applied, sources>>
  PROVE  IInv'
<1>1. /\ restore' \in [Restores -> Objects \cup {Absent}]
      /\ fresh' \in [Restores -> SUBSET Holders]
      /\ restore'[r] = o /\ fresh'[r] = {}
      /\ \A q \in Restores \ {r} : restore'[q] = restore[q] /\ fresh'[q] = fresh[q]
  BY PutFacts DEF IInv
<1>2. TypeOK'
  BY <1>1 DEF IInv, TypeOK, manager, sources
<1>3. SourcesTyped'
  BY DEF IInv, SourcesTyped, sources
<1>4. ManagerCopies'
  BY <1>1 DEF IInv, ManagerCopies, manager
<1>5. WorkerCopies'
  BY <1>1 DEF IInv, WorkerCopies, Busy
<1> QED
  BY <1>2, <1>3, <1>4, <1>5 DEF IInv

LEMMA UserKeepsIInv ==
  ASSUME IInv, NEW r \in Restores, UserStep(r)
  PROVE  IInv'
<1>1. CASE CreateRestore(r)
  <2>1. PICK ref \in Refs :
          Put(r, [uid |-> lastUid + 1, generation |-> 1, ref |-> ref,
                  deleting |-> FALSE, phase |-> ""])
    BY <1>1 DEF CreateRestore
  <2> DEFINE o == [uid |-> lastUid + 1, generation |-> 1, ref |-> ref,
                   deleting |-> FALSE, phase |-> ""]
  <2>2. lastUid + 1 \in Uids /\ lastUid' \in 0..MaxUid
    <3>1. lastUid < MaxUid /\ lastUid' = lastUid + 1
      BY <1>1 DEF CreateRestore
    <3> QED
      BY <3>1, BoundsAssumption DEF IInv, TypeOK, Uids
  <2>3. Put(r, o) /\ UNCHANGED <<manager, jobs, worker, applied, sources>>
    BY <1>1, <2>1 DEF CreateRestore
  <2>4. \A phase \in Phases :
          [uid |-> lastUid + 1, generation |-> 1, ref |-> ref, deleting |-> FALSE,
           phase |-> phase] \in Objects
    BY <2>2, BoundsAssumption DEF Objects, Generations
  <2>5. o \in Objects
    BY <2>4, NewPhase
  <2> HIDE DEF o
  <2> QED
    BY <2>2, <2>3, <2>5, UserWrite
<1>2. CASE EditRestore(r)
  <2>1. PICK ref \in Refs :
          Put(r, [restore[r] EXCEPT !.generation = @ + 1, !.ref = ref])
    BY <1>2 DEF EditRestore
  <2> DEFINE o == [restore[r] EXCEPT !.generation = @ + 1, !.ref = ref]
  <2>2. restore[r] \in Objects
    BY <1>2, ExistingObjects DEF EditRestore, IInv, TypeOK
  <2>3. o \in Objects
    <3>1. restore[r].generation + 1 \in Generations
      BY <1>2, <2>2, BoundsAssumption DEF EditRestore, Objects, Generations
    <3> QED
      BY <2>2, <3>1 DEF Objects
  <2>4. /\ Put(r, o) /\ UNCHANGED <<manager, jobs, worker, applied, sources>>
        /\ lastUid' \in 0..MaxUid
    BY <1>2, <2>1 DEF EditRestore, IInv, TypeOK
  <2> HIDE DEF o
  <2> QED
    BY <2>3, <2>4, UserWrite
<1>3. CASE MarkDeleting(r)
  <2> DEFINE o == [restore[r] EXCEPT !.deleting = TRUE]
  <2>1. restore[r] \in Objects
    BY <1>3, ExistingObjects DEF MarkDeleting, IInv, TypeOK
  <2>2. o \in Objects
    BY <2>1 DEF Objects
  <2>3. /\ Put(r, o) /\ UNCHANGED <<manager, jobs, worker, applied, sources>>
        /\ lastUid' \in 0..MaxUid
    BY <1>3 DEF MarkDeleting, IInv, TypeOK
  <2> HIDE DEF o
  <2> QED
    BY <2>2, <2>3, UserWrite
<1>4. CASE DeleteRestore(r)
  BY <1>4, UserWrite DEF DeleteRestore, IInv, TypeOK
<1> QED
  BY <1>1, <1>2, <1>3, <1>4 DEF UserStep

-----------------------------------------------------------------------------
(* The manager.                                                            *)

\* An accepted status update keeps the invariant; the writer may stop.
LEMMA PhaseWrite ==
  ASSUME IInv, NEW r \in Restores, NEW h, NEW phase \in Phases,
         UpdatePhase(h, r, phase),
         UNCHANGED <<lastUid, cached, queue, waiting, cachedJobs, cachedSource,
                     jobs, applied, sources>>,
         rec' \in [Restores -> Records],
         \A q \in Restores : rec'[q].pc # "idle" => rec'[q] = rec[q],
         worker' \in [JobIds -> Workers],
         \A j \in JobIds : Busy(j)' => worker'[j] = worker[j]
  PROVE  IInv'
<1>1. /\ restore' \in [Restores -> Objects \cup {Absent}]
      /\ fresh' \in [Restores -> SUBSET Holders]
      /\ \A q \in Restores :
           /\ fresh'[q] \subseteq fresh[q]
           /\ fresh'[q] # {} => restore'[q] = restore[q]
  BY UpdateFacts DEF IInv
<1>2. TypeOK'
  BY <1>1 DEF IInv, TypeOK, sources, Records, Workers
<1>3. SourcesTyped'
  BY DEF IInv, SourcesTyped, sources
<1>4. ManagerCopies'
  BY <1>1 DEF IInv, ManagerCopies
<1>5. WorkerCopies'
  <2> SUFFICES ASSUME NEW j \in JobIds, Busy(j)'
               PROVE  /\ jobs'[j].restore \in Restores
                      /\ Exists(worker'[j].obj)
                      /\ j \in fresh'[jobs'[j].restore] =>
                           worker'[j].obj = restore'[jobs'[j].restore]
                      /\ worker'[j].pc = "located" =>
                           worker'[j].location # NoLocation
    BY DEF WorkerCopies
  <2>1. worker'[j] = worker[j] /\ Busy(j)
    BY DEF Busy
  <2> QED
    BY <1>1, <2>1 DEF IInv, WorkerCopies
<1> QED
  BY <1>2, <1>3, <1>4, <1>5 DEF IInv

LEMMA MarkPhaseKeepsIInv ==
  ASSUME IInv, NEW r \in Restores, MarkPhase(r)
  PROVE  IInv'
<1>1. PhaseToWrite(r) \in Phases
  BY DEF MarkPhase, Marking, PhaseToWrite, Phases
<1>2. UpdatePhase("reconciler", r, PhaseToWrite(r))
  BY DEF MarkPhase
<1>3. /\ UNCHANGED <<lastUid, cached, queue, waiting, cachedJobs, cachedSource,
                     jobs, applied, sources>>
      /\ UNCHANGED worker
  BY DEF MarkPhase
<1>4. /\ rec' \in [Restores -> Records]
      /\ \A q \in Restores : rec'[q].pc # "idle" => rec'[q] = rec[q]
  BY AbsentFacts DEF MarkPhase, IInv, TypeOK, Records
<1>5. /\ worker' \in [JobIds -> Workers]
      /\ \A j \in JobIds : Busy(j)' => worker'[j] = worker[j]
  BY <1>3 DEF IInv, TypeOK, Workers
<1> QED
  BY <1>1, <1>2, <1>3, <1>4, <1>5, PhaseWrite

LEMMA ReconcileKeepsIInv ==
  ASSUME IInv, NEW r \in Restores, Reconcile(r)
  PROVE  IInv'
<1>1. /\ UNCHANGED <<lastUid, restore, cached, cachedJobs, cachedSource, jobs,
                     worker, applied, sources>>
      /\ queue' \subseteq Restores /\ waiting' \subseteq Restores
      /\ rec[r].pc = "idle"
  BY DEF Reconcile, ReconcileNothing, ReconcileWait, ReconcileDecides, Dequeue,
     IInv, TypeOK
<1>2. SourcesTyped'
  BY <1>1 DEF IInv, SourcesTyped, sources
<1>3. CASE UNCHANGED <<rec, fresh>>
  <2>1. TypeOK'
    BY <1>1, <1>3 DEF IInv, TypeOK, sources
  <2>2. ManagerCopies'
    BY <1>1, <1>3 DEF IInv, ManagerCopies
  <2>3. WorkerCopies'
    BY <1>1, <1>3 DEF IInv, WorkerCopies, Busy
  <2> QED
    BY <1>2, <2>1, <2>2, <2>3 DEF IInv
<1>4. CASE ~UNCHANGED <<rec, fresh>>
  <2>1. PICK pc \in ReconcileStates :
          /\ rec' = [rec EXCEPT ![r] = [pc |-> pc, obj |-> cached[r]]]
          /\ fresh' = [fresh EXCEPT ![r] =
                         IF "cache" \in @ THEN @ \cup {"reconciler"}
                                          ELSE @ \ {"reconciler"}]
    BY <1>4 DEF Reconcile, ReconcileNothing, ReconcileWait, ReconcileDecides
  <2>2. Exists(cached[r])
    BY <1>4 DEF Reconcile, ReconcileNothing, ReconcileWait, ReconcileDecides
  <2>3. TypeOK'
    <3>1. rec' \in [Restores -> Records] /\ fresh' \in [Restores -> SUBSET Holders]
      BY <2>1 DEF IInv, TypeOK, Records, Holders
    <3> QED
      BY <1>1, <3>1 DEF IInv, TypeOK, sources, Records
  <2>4. \A q \in Restores :
          /\ "cache" \in fresh'[q] <=> "cache" \in fresh[q]
          /\ \A j \in JobIds : j \in fresh'[q] <=> j \in fresh[q]
    BY <2>1, NamesAssumption DEF IInv, TypeOK
  <2>5. ManagerCopies'
    BY <1>1, <2>1, <2>2, <2>4 DEF IInv, ManagerCopies, TypeOK
  <2>6. WorkerCopies'
    BY <1>1, <2>4 DEF IInv, WorkerCopies, Busy
  <2> QED
    BY <1>2, <2>3, <2>5, <2>6 DEF IInv
<1> QED
  BY <1>3, <1>4

\* A Job is added under a new name, and the Reconcile call goes on or ends.
LEMMA CreateKeepsIInv ==
  ASSUME IInv, NEW r \in Restores, CreateJob(r) \/ CreateJobReplyLost(r)
  PROVE  IInv'
<1>1. PICK j \in JobIds :
        /\ jobs[j] = NoJob
        /\ jobs' = [jobs EXCEPT ![j] = BuildRestoreJob(r, rec[r].obj)]
  BY DEF CreateJob, CreateJobReplyLost, JobIsCreated
<1>2. /\ UNCHANGED <<objects, cached, waiting, cachedJobs, cachedSource, worker,
                     applied, sources>>
      /\ rec[r].pc = "create"
      /\ \/ rec' = [rec EXCEPT ![r].pc = "markRunning"]
         \/ rec' = [rec EXCEPT ![r] = Idle]
      /\ queue' \subseteq Restores
  BY DEF CreateJob, CreateJobReplyLost, Requeue, IInv, TypeOK
<1>3. rec[r].obj \in Objects
  BY <1>2, ExistingObjects DEF IInv, TypeOK, ManagerCopies
<1>4. jobs' \in [JobIds -> JobRecords]
  <2>1. BuildRestoreJob(r, rec[r].obj) \in JobRecords
    BY <1>3 DEF BuildRestoreJob, JobRecords, JobStates, Objects
  <2> QED
    BY <1>1, <2>1 DEF IInv, TypeOK
<1>5. rec' \in [Restores -> Records]
  <2>1. rec \in [Restores -> Records] /\ "markRunning" \in ReconcileStates
    BY DEF IInv, TypeOK, Records, ReconcileStates
  <2>2. [rec[r] EXCEPT !.pc = "markRunning"] \in Records
    BY <2>1 DEF Records
  <2>3. \/ rec' = [rec EXCEPT ![r] = [rec[r] EXCEPT !.pc = "markRunning"]]
        \/ rec' = [rec EXCEPT ![r] = Idle]
    BY <1>2, <2>1
  <2> QED
    BY <2>1, <2>2, <2>3, AbsentFacts
<1>6. TypeOK'
  BY <1>2, <1>4, <1>5 DEF IInv, TypeOK, objects, sources, Records
<1>7. SourcesTyped'
  BY <1>2 DEF IInv, SourcesTyped, sources
<1>8. ManagerCopies'
  BY <1>2 DEF IInv, TypeOK, ManagerCopies, Idle, objects
<1>9. WorkerCopies'
  <2>1. ~Busy(j)
    BY <1>1, NamesAssumption DEF IInv, WorkerCopies, NoJob
  <2>2. \A i \in JobIds : Busy(i) => jobs'[i] = jobs[i]
    BY <1>1, <2>1 DEF IInv, TypeOK
  <2> QED
    BY <1>2, <2>2 DEF IInv, WorkerCopies, Busy, objects
<1> QED
  BY <1>6, <1>7, <1>8, <1>9 DEF IInv

\* A failed call only ends the Reconcile call and queues the object.
LEMMA RequeueKeepsIInv ==
  ASSUME IInv, NEW r \in Restores, Requeue(r),
         UNCHANGED <<objects, jobs, worker, applied, sources>>
  PROVE  IInv'
<1>1. TypeOK'
  <2>1. rec' \in [Restores -> Records] /\ queue' \subseteq Restores
    BY AbsentFacts DEF Requeue, IInv, TypeOK, Records
  <2> QED
    BY <2>1 DEF Requeue, IInv, TypeOK, objects, sources, Records
<1>2. SourcesTyped'
  BY DEF IInv, SourcesTyped, sources
<1>3. ManagerCopies'
  BY DEF Requeue, IInv, TypeOK, ManagerCopies, Idle, objects
<1>4. WorkerCopies'
  BY DEF IInv, WorkerCopies, Busy, objects
<1> QED
  BY <1>1, <1>2, <1>3, <1>4 DEF IInv

LEMMA SyncRestoreKeepsIInv ==
  ASSUME IInv, NEW r \in Restores, SyncRestore(r)
  PROVE  IInv'
<1>1. TypeOK'
  BY DEF SyncRestore, IInv, TypeOK, Holders, sources
<1>2. SourcesTyped'
  BY DEF SyncRestore, IInv, SourcesTyped, sources
<1>3. ManagerCopies'
  BY DEF SyncRestore, IInv, TypeOK, ManagerCopies
<1>4. WorkerCopies'
  BY NamesAssumption DEF SyncRestore, IInv, TypeOK, WorkerCopies, Busy
<1> QED
  BY <1>1, <1>2, <1>3, <1>4 DEF IInv

\* The timers and the resync change what is queued only.
LEMMA QueueKeepsIInv ==
  ASSUME IInv, NEW r \in Restores, Resync(r) \/ RequeueAfter(r)
  PROVE  IInv'
<1>1. /\ UNCHANGED <<objects, cached, rec, cachedJobs, cachedSource, jobs, worker,
                     applied, sources>>
      /\ queue' \subseteq Restores /\ waiting' \subseteq Restores
  BY DEF Resync, RequeueAfter, IInv, TypeOK
<1> QED
  BY <1>1 DEF IInv, TypeOK, SourcesTyped, ManagerCopies, WorkerCopies, Busy,
     objects, sources

\* What the cache of the sources can show.
LEMMA SourceObjectType ==
  ASSUME IInv, NEW n \in Sources
  PROVE  SourceObject(n) \in [uid : 0..MaxSourceUid,
                              location : Locations \cup {NoLocation}]
  BY DEF IInv, SourcesTyped, SourceObject

LEMMA SyncSourceKeepsIInv ==
  ASSUME IInv, NEW n \in Sources, SyncSource(n)
  PROVE  IInv'
<1>1. TypeOK'
  BY SourceObjectType DEF SyncSource, IInv, TypeOK, objects, sources
<1>2. SourcesTyped' /\ ManagerCopies' /\ WorkerCopies'
  BY DEF SyncSource, IInv, SourcesTyped, ManagerCopies, WorkerCopies, Busy,
     objects, sources
<1> QED
  BY <1>1, <1>2 DEF IInv

LEMMA RestartKeepsIInv ==
  ASSUME IInv, ManagerRestart
  PROVE  IInv'
<1>1. TypeOK'
  <2>1. /\ cached' \in [Restores -> Objects \cup {Absent}]
        /\ cachedJobs' \in [JobIds -> JobRecords]
        /\ queue' \subseteq Restores /\ waiting' \subseteq Restores
        /\ rec' \in [Restores -> Records]
    BY AbsentFacts DEF ManagerRestart, IInv, TypeOK, Records
  <2>2. fresh' \in [Restores -> SUBSET Holders]
    BY DEF ManagerRestart, IInv, TypeOK, Holders
  <2>3. cachedSource' \in [Sources -> [uid : 0..MaxSourceUid,
                                       location : Locations \cup {NoLocation}]]
    BY SourceObjectType DEF ManagerRestart
  <2> QED
    BY <2>1, <2>2, <2>3 DEF ManagerRestart, IInv, TypeOK, sources, Records
<1>2. SourcesTyped'
  BY DEF ManagerRestart, IInv, SourcesTyped, sources
<1>3. ManagerCopies'
  BY DEF ManagerRestart, ManagerCopies, Idle
<1>4. WorkerCopies'
  <2>1. \A r \in Restores, j \in JobIds : j \in fresh'[r] => j \in fresh[r]
    BY NamesAssumption DEF ManagerRestart
  <2> QED
    BY <2>1 DEF ManagerRestart, IInv, WorkerCopies, Busy
<1> QED
  BY <1>1, <1>2, <1>3, <1>4 DEF IInv

LEMMA ManagerKeepsIInv ==
  ASSUME IInv, NEW r \in Restores, SyncRestore(r) \/ Resync(r) \/ ReconcilerStep(r)
  PROVE  IInv'
<1>1. CASE CreateJobFails(r) \/ MarkPhaseFails(r)
  BY <1>1, RequeueKeepsIInv DEF CreateJobFails, MarkPhaseFails
<1> QED
  BY <1>1, ReconcileKeepsIInv, CreateKeepsIInv, MarkPhaseKeepsIInv,
     SyncRestoreKeepsIInv, QueueKeepsIInv
     DEF ReconcilerStep, RestoreReconcile, ClusterRestoreReconcile

-----------------------------------------------------------------------------
(* The sources.                                                            *)

LEMMA EverPublishedTyped ==
  ASSUME IInv, NEW n \in Sources, SourceStep(n), SourcesTyped'
  PROVE  everPublished' \subseteq Locations
<1>1. everPublished \subseteq Locations /\ published'[n] \in Locations \cup {NoLocation}
  BY DEF IInv, TypeOK, SourcesTyped
<1> QED
  BY <1>1 DEF SourceStep

LEMMA SourceKeepsTypes ==
  ASSUME IInv, NEW n \in Sources, SourceStep(n)
  PROVE  SourcesTyped' /\ stored' \subseteq Artifacts /\ everPublished' \subseteq Locations
<1>1. /\ SourcesTyped /\ stored \subseteq Artifacts /\ everPublished \subseteq Locations
      /\ lastSourceUid \in Nat /\ 0 \in 0..MaxSourceUid
  BY BoundsAssumption DEF IInv, TypeOK, SourcesTyped
<1>2. CASE lastSourceUid < MaxSourceUid /\ Ledger!Create(n)
  <2>1. lastSourceUid' \in 0..MaxSourceUid /\ UNCHANGED stored
    BY <1>1, <1>2, BoundsAssumption DEF Ledger!Create
  <2>2. /\ source' = [source EXCEPT ![n] = [uid |-> lastSourceUid', generation |-> 1]]
        /\ published' = [published EXCEPT ![n] = NoLocation]
    BY <1>2 DEF Ledger!Create
  <2>3. SourcesTyped'
    BY <1>1, <2>1, <2>2 DEF SourcesTyped
  <2> QED
    BY <1>1, <2>1, <2>3, EverPublishedTyped
<1>3. CASE Ledger!Delete(n)
  <2>1. Ledger!Gone \in [uid : 0..MaxSourceUid, generation : 0..1]
    BY <1>1 DEF Ledger!Gone
  <2>2. SourcesTyped' /\ UNCHANGED stored
    BY <1>1, <1>3, <2>1 DEF Ledger!Delete, SourcesTyped
  <2> QED
    BY <1>1, <2>2, EverPublishedTyped
<1>4. ASSUME NEW a \in Artifacts, Ledger!Store(a)
      PROVE  SourcesTyped' /\ stored' \subseteq Artifacts
  BY <1>1, <1>4 DEF Ledger!Store, SourcesTyped
<1>5. ASSUME NEW l \in Locations, published' = [published EXCEPT ![n] = l],
             UNCHANGED <<lastSourceUid, source, stored>>
      PROVE  SourcesTyped' /\ stored' \subseteq Artifacts
  BY <1>1, <1>5 DEF SourcesTyped
<1>6. ASSUME NEW a \in Artifacts, Ledger!Publish(n, a)
      PROVE  SourcesTyped' /\ stored' \subseteq Artifacts
  BY <1>5, <1>6 DEF Ledger!Publish, Artifacts
<1>7. ASSUME NEW l \in PodLocations, Ledger!PublishUnshared(n, l)
      PROVE  SourcesTyped' /\ stored' \subseteq Artifacts
  BY <1>5, <1>7 DEF Ledger!PublishUnshared, PodLocations
<1> QED
  BY <1>2, <1>3, <1>4, <1>6, <1>7, EverPublishedTyped DEF SourceStep

LEMMA SourceKeepsIInv ==
  ASSUME IInv, NEW n \in Sources, SourceStep(n)
  PROVE  IInv'
<1>1. UNCHANGED <<objects, manager, jobs, worker, applied>>
  BY DEF SourceStep
<1>2. /\ SourcesTyped' /\ stored' \subseteq Artifacts
      /\ everPublished' \subseteq Locations
  BY SourceKeepsTypes
<1>3. TypeOK'
  BY <1>1, <1>2 DEF IInv, TypeOK, objects, manager
<1>4. ManagerCopies' /\ WorkerCopies'
  BY <1>1 DEF IInv, ManagerCopies, WorkerCopies, Busy, objects, manager
<1> QED
  BY <1>2, <1>3, <1>4 DEF IInv

-----------------------------------------------------------------------------
(* The workers and the Jobs.                                               *)

LEMMA WorkerLoadKeepsIInv ==
  ASSUME IInv, NEW j \in JobIds, WorkerLoad(j)
  PROVE  IInv'
<1> DEFINE r == jobs[j].restore
<1>1. /\ UNCHANGED <<lastUid, restore, manager, jobs, applied, sources>>
      /\ jobs[j].state = "Active"
  BY DEF WorkerLoad
<1>2. r \in Restores
  BY <1>1 DEF IInv, TypeOK, JobRecords, NoJob
<1>3. SourcesTyped'
  BY <1>1 DEF IInv, SourcesTyped, sources
<1>4. CASE Exists(restore[r])
  <2>1. /\ worker' = [worker EXCEPT ![j] =
                        [NotStarted EXCEPT !.pc = "loaded", !.obj = restore[r]]]
        /\ fresh' = [fresh EXCEPT ![r] = @ \cup {j}]
    BY <1>4 DEF WorkerLoad
  <2>2. worker' \in [JobIds -> Workers] /\ fresh' \in [Restores -> SUBSET Holders]
    BY <1>2, <2>1 DEF IInv, TypeOK, Workers, WorkerStates, NotStarted, Holders
  <2>3. TypeOK'
    BY <1>1, <2>2 DEF IInv, TypeOK, manager, sources, Workers
  <2>4. ManagerCopies'
    BY <1>1, <2>1, NamesAssumption DEF IInv, TypeOK, ManagerCopies, manager
  <2>5. worker'[j].obj = restore[r] /\ worker'[j].pc = "loaded"
    BY <2>1 DEF IInv, TypeOK, NotStarted
  <2>6. WorkerCopies'
    <3> SUFFICES ASSUME NEW i \in JobIds, Busy(i)'
                 PROVE  /\ jobs[i].restore \in Restores
                        /\ Exists(worker'[i].obj)
                        /\ i \in fresh'[jobs[i].restore] =>
                             worker'[i].obj = restore[jobs[i].restore]
                        /\ worker'[i].pc = "located" =>
                             worker'[i].location # NoLocation
      BY <1>1 DEF WorkerCopies
    <3>1. CASE i = j
      BY <1>2, <1>4, <2>5, <3>1
    <3>2. CASE i # j
      <4>1. worker'[i] = worker[i] /\ Busy(i)
        BY <2>1, <3>2 DEF Busy, IInv, TypeOK
      <4>2. i \in fresh'[jobs[i].restore] => i \in fresh[jobs[i].restore]
        BY <1>2, <2>1, <3>2, <4>1 DEF IInv, TypeOK, WorkerCopies
      <4> QED
        BY <4>1, <4>2 DEF IInv, WorkerCopies
    <3> QED
      BY <3>1, <3>2
  <2> QED
    BY <1>3, <2>3, <2>4, <2>6 DEF IInv
<1>5. CASE ~Exists(restore[r])
  <2>1. /\ worker' = [worker EXCEPT ![j] = [NotStarted EXCEPT !.pc = "exit1"]]
        /\ UNCHANGED fresh
    BY <1>5 DEF WorkerLoad, ExitWith
  <2>2. worker' \in [JobIds -> Workers]
    BY <2>1, AbsentFacts DEF IInv, TypeOK, Workers, WorkerStates
  <2>3. TypeOK'
    BY <1>1, <2>1, <2>2 DEF IInv, TypeOK, manager, sources, Workers
  <2>4. ManagerCopies'
    BY <1>1, <2>1 DEF IInv, ManagerCopies, manager
  <2>5. WorkerCopies'
    BY <1>1, <2>1 DEF IInv, TypeOK, WorkerCopies, Busy, NotStarted
  <2> QED
    BY <1>3, <2>3, <2>4, <2>5 DEF IInv
<1> QED
  BY <1>4, <1>5

\* What a busy worker holds is typed.
LEMMA BusyWorker ==
  ASSUME IInv, NEW j \in JobIds, Busy(j)
  PROVE  /\ worker[j] \in Workers /\ worker[j].obj \in Objects
         /\ jobs[j].restore \in Restores
         /\ worker[j].pc = "located" => worker[j].location \in Locations
<1>1. worker[j] \in Workers /\ Exists(worker[j].obj)
  BY DEF IInv, TypeOK, WorkerCopies, Workers
<1>2. worker[j].obj \in Objects
  BY <1>1, ExistingObjects DEF Workers
<1> QED
  BY <1>1, <1>2 DEF IInv, WorkerCopies, Workers

\* A worker that goes on keeps the object it has loaded.
LEMMA WorkerGoesOn ==
  ASSUME IInv, NEW j \in JobIds, Busy(j), NEW w \in Workers,
         w.pc \in {"located", "applied", "failing"}, w.obj = worker[j].obj,
         w.pc = "located" => w.location # NoLocation,
         worker' = [worker EXCEPT ![j] = w],
         applied' \subseteq [job : JobIds, uid : Uids, ref : Refs, location : Locations],
         UNCHANGED <<objects, manager, jobs, sources>>
  PROVE  IInv'
<1>1. worker' \in [JobIds -> Workers]
  BY DEF IInv, TypeOK, Workers
<1>2. TypeOK'
  BY <1>1 DEF IInv, TypeOK, objects, manager, sources, Workers
<1>3. SourcesTyped' /\ ManagerCopies'
  BY DEF IInv, SourcesTyped, ManagerCopies, objects, manager, sources
<1>4. WorkerCopies'
  BY DEF IInv, TypeOK, WorkerCopies, Busy, objects
<1> QED
  BY <1>2, <1>3, <1>4 DEF IInv

LEMMA WorkerLocateKeepsIInv ==
  ASSUME IInv, NEW j \in JobIds, WorkerLocate(j)
  PROVE  IInv'
<1> DEFINE a == LoadBackupReference(worker[j].obj.ref).location
           w == [worker[j] EXCEPT !.pc = "located", !.location = a]
<1>1. Busy(j) /\ a # NoLocation
  BY DEF WorkerLocate, Busy
<1>2. worker[j].obj.ref \in Refs
  BY <1>1, BusyWorker DEF Objects
<1>3. a \in Locations \cup {NoLocation}
  BY <1>2, SourceObjectType DEF LoadBackupReference, NoSource, Refs
<1>4. worker' = [worker EXCEPT ![j] = w]
  <2>1. worker' = [worker EXCEPT ![j].pc = "located", ![j].location = a]
    BY DEF WorkerLocate
  <2> HIDE DEF a
  <2> QED
    BY <2>1 DEF IInv, TypeOK
<1> HIDE DEF a
<1>5. /\ w \in Workers /\ w.pc = "located" /\ w.obj = worker[j].obj
      /\ w.location = a
  BY <1>1, <1>3, BusyWorker DEF Workers, WorkerStates
<1>6. UNCHANGED <<objects, manager, jobs, applied, sources>>
  BY DEF WorkerLocate
<1>7. applied' \subseteq [job : JobIds, uid : Uids, ref : Refs, location : Locations]
  BY <1>6 DEF IInv, TypeOK
<1> HIDE DEF w
<1> QED
  BY <1>1, <1>4, <1>5, <1>6, <1>7, WorkerGoesOn

LEMMA WorkerApplyKeepsIInv ==
  ASSUME IInv, NEW j \in JobIds, WorkerApply(j)
  PROVE  IInv'
<1> DEFINE w == [worker[j] EXCEPT !.pc = "applied"]
<1>1. Busy(j) /\ worker[j].pc = "located"
  BY DEF WorkerApply, Busy
<1>2. worker' = [worker EXCEPT ![j] = w]
  BY DEF WorkerApply, IInv, TypeOK
<1>3. w \in Workers /\ w.pc = "applied" /\ w.obj = worker[j].obj
  BY <1>1, BusyWorker DEF Workers, WorkerStates
<1>4. applied' \subseteq [job : JobIds, uid : Uids, ref : Refs, location : Locations]
  BY <1>1, BusyWorker DEF WorkerApply, IInv, TypeOK, Objects
<1>5. UNCHANGED <<objects, manager, jobs, sources>>
  BY DEF WorkerApply
<1> HIDE DEF w
<1> QED
  BY <1>1, <1>2, <1>3, <1>4, <1>5, WorkerGoesOn

LEMMA WorkerFailKeepsIInv ==
  ASSUME IInv, NEW j \in JobIds, WorkerFail(j)
  PROVE  IInv'
<1> DEFINE w == [worker[j] EXCEPT !.pc = "failing"]
<1>1. Busy(j)
  BY DEF WorkerFail, Busy
<1>2. worker' = [worker EXCEPT ![j] = w]
  BY DEF WorkerFail, IInv, TypeOK
<1>3. w \in Workers /\ w.pc = "failing" /\ w.obj = worker[j].obj
  BY <1>1, BusyWorker DEF Workers, WorkerStates
<1>4. /\ applied' \subseteq [job : JobIds, uid : Uids, ref : Refs, location : Locations]
      /\ UNCHANGED <<objects, manager, jobs, sources>>
  BY DEF WorkerFail, IInv, TypeOK
<1> HIDE DEF w
<1> QED
  BY <1>1, <1>2, <1>3, <1>4, WorkerGoesOn

\* How a worker that ends is recorded.
LEMMA ExitFacts ==
  ASSUME IInv, NEW j \in JobIds, NEW pc \in {"exit0", "exit1"}, ExitWith(j, pc)
  PROVE  /\ worker' \in [JobIds -> Workers]
         /\ worker'[j].pc = pc
         /\ \A i \in JobIds \ {j} : worker'[i] = worker[i]
         /\ \A i \in JobIds : Busy(i)' => worker'[i] = worker[i]
<1>1. worker \in [JobIds -> Workers]
  BY DEF IInv, TypeOK, Workers
<1>2. [NotStarted EXCEPT !.pc = pc] \in Workers
  BY AbsentFacts DEF WorkerStates
<1>3. [NotStarted EXCEPT !.pc = pc].pc = pc
  BY DEF NotStarted
<1> QED
  BY <1>1, <1>2, <1>3 DEF ExitWith, Busy

LEMMA WorkerReportKeepsIInv ==
  ASSUME IInv, NEW j \in JobIds, WorkerReport(j)
  PROVE  IInv'
<1>1. Busy(j)
  BY DEF WorkerReport, Busy
<1>2. PICK r \in Restores : r = jobs[j].restore
  BY <1>1, BusyWorker
<1>3. ReportedPhase(j) \in Phases /\ UpdatePhase(j, r, ReportedPhase(j))
  BY <1>2 DEF WorkerReport, ReportedPhase, Phases
<1>4. /\ UNCHANGED <<lastUid, cached, queue, waiting, cachedJobs, cachedSource,
                     jobs, applied, sources>>
      /\ UNCHANGED rec
  BY DEF WorkerReport, manager
<1>5. /\ worker' \in [JobIds -> Workers]
      /\ \A i \in JobIds : Busy(i)' => worker'[i] = worker[i]
  BY ExitFacts DEF WorkerReport
<1>6. /\ rec' \in [Restores -> Records]
      /\ \A q \in Restores : rec'[q].pc # "idle" => rec'[q] = rec[q]
  BY <1>4 DEF IInv, TypeOK, Records
<1> QED
  BY <1>3, <1>4, <1>5, <1>6, PhaseWrite

\* A worker that ends without a report disturbs nothing.
LEMMA ExitKeepsIInv ==
  ASSUME IInv, NEW j \in JobIds, ExitWith(j, "exit1"),
         UNCHANGED <<objects, manager, jobs, applied, sources>>
  PROVE  IInv'
<1>1. /\ worker' \in [JobIds -> Workers]
      /\ \A i \in JobIds : Busy(i)' => worker'[i] = worker[i]
  BY ExitFacts
<1>2. TypeOK'
  BY <1>1 DEF IInv, TypeOK, objects, manager, sources, Workers
<1>3. SourcesTyped' /\ ManagerCopies'
  BY DEF IInv, SourcesTyped, ManagerCopies, objects, manager, sources
<1>4. WorkerCopies'
  BY <1>1 DEF IInv, WorkerCopies, Busy, objects
<1> QED
  BY <1>2, <1>3, <1>4 DEF IInv

\* The state of an existing Job changes; the restore it is for does not.
LEMMA JobStateKeepsIInv ==
  ASSUME IInv, NEW j \in JobIds, NEW st \in JobStates \ {"None"},
         jobs[j].state # "None", SetJob(j, st)
  PROVE  IInv'
<1>1. jobs[j] \in [state : JobStates \ {"None"}, restore : Restores, uid : Uids]
  BY DEF IInv, TypeOK, JobRecords, NoJob
<1>2. /\ jobs' \in [JobIds -> JobRecords]
      /\ \A i \in JobIds : jobs'[i].restore = jobs[i].restore
  BY <1>1 DEF SetJob, IInv, TypeOK, JobRecords
<1>3. UNCHANGED <<objects, manager, worker, applied, sources>>
  BY DEF SetJob
<1>4. TypeOK'
  BY <1>2, <1>3 DEF IInv, TypeOK, objects, manager, sources
<1>5. SourcesTyped' /\ ManagerCopies'
  BY <1>3 DEF IInv, SourcesTyped, ManagerCopies, objects, manager, sources
<1>6. WorkerCopies'
  BY <1>2, <1>3 DEF IInv, WorkerCopies, Busy, objects
<1> QED
  BY <1>4, <1>5, <1>6 DEF IInv

LEMMA SyncJobKeepsIInv ==
  ASSUME IInv, NEW j \in JobIds, SyncJob(j)
  PROVE  IInv'
<1>1. TypeOK'
  BY DEF SyncJob, IInv, TypeOK, objects, sources
<1>2. SourcesTyped' /\ ManagerCopies' /\ WorkerCopies'
  BY DEF SyncJob, IInv, SourcesTyped, ManagerCopies, WorkerCopies, Busy,
     objects, sources
<1> QED
  BY <1>1, <1>2 DEF IInv

LEMMA JobKeepsIInv ==
  ASSUME IInv, NEW j \in JobIds, JobStep(j)
  PROVE  IInv'
<1>1. CASE WorkerReportFails(j) \/ PodKilled(j)
  BY <1>1, ExitKeepsIInv DEF WorkerReportFails, PodKilled
<1>2. CASE JobDeadline(j) \/ JobFinished(j) \/ JobExpired(j)
  <2>1. PICK st \in {"Succeeded", "Failed", "Deleted"} : SetJob(j, st)
    BY <1>2 DEF JobDeadline, JobFinished, JobExpired
  <2>2. jobs[j].state # "None" /\ st \in JobStates \ {"None"}
    BY <1>2 DEF JobDeadline, JobFinished, JobExpired, JobStates
  <2> QED
    BY <2>1, <2>2, JobStateKeepsIInv
<1> QED
  BY <1>1, <1>2, SyncJobKeepsIInv, WorkerLoadKeepsIInv, WorkerLocateKeepsIInv,
     WorkerApplyKeepsIInv, WorkerFailKeepsIInv, WorkerReportKeepsIInv
     DEF JobStep, WorkerStep

-----------------------------------------------------------------------------
LEMMA StutterKeepsIInv ==
  ASSUME IInv, UNCHANGED vars
  PROVE  IInv'
  BY DEF vars, objects, manager, sources, IInv, TypeOK, SourcesTyped,
     ManagerCopies, WorkerCopies, Busy

LEMMA NextKeepsIInv == IInv /\ [Next]_vars => IInv'
  BY UserKeepsIInv, ManagerKeepsIInv, SourceKeepsIInv, SyncSourceKeepsIInv,
     JobKeepsIInv, RestartKeepsIInv, StutterKeepsIInv DEF Next

\* The inductive invariant holds in every reachable state.
LEMMA IInvHolds == Spec => []IInv
  BY InitIInv, NextKeepsIInv, PTL DEF Spec

\* In every reachable state every variable has its type and a phase is one the
\* API declares.
THEOREM TypeCorrect == Spec => []TypeOK
<1>1. IInv => TypeOK
  BY DEF IInv
<1> QED
  BY <1>1, IInvHolds, PTL

-----------------------------------------------------------------------------
(* Where a restore takes its artifact from.                                *)

\* The locations the sources show, and those the cache shows of them, have been
\* published by the source of that name.
SourcesSound ==
  \A n \in Sources :
    /\ published[n] # NoLocation =>
         published[n] \in everPublished /\ published[n].name = n
    /\ cachedSource[n].location # NoLocation =>
         /\ cachedSource[n].location \in everPublished
         /\ cachedSource[n].location.name = n

\* The location a worker has read is one of the source its restore named.
LocatedSound ==
  \A j \in JobIds :
    worker[j].pc \in {"located", "applied"} =>
      /\ worker[j].location.name = worker[j].obj.ref.source
      /\ Resolvable(worker[j].obj.ref)

AppliedInv ==
  SourcesSound /\ LocatedSound /\ AppliedFromSource /\ JobAwaitsArtifact

\* Only the sources' own steps touch them.
LEMMA SourceSteps ==
  ASSUME [Next]_vars
  PROVE  UNCHANGED sources \/ \E n \in Sources : SourceStep(n)
<1>1. ASSUME NEW r \in Restores,
             UserStep(r) \/ SyncRestore(r) \/ Resync(r) \/ ReconcilerStep(r)
      PROVE  UNCHANGED sources
  BY <1>1 DEF UserStep, CreateRestore, EditRestore, MarkDeleting, DeleteRestore,
     SyncRestore, Resync, ReconcilerStep, RestoreReconcile,
     ClusterRestoreReconcile, Reconcile, ReconcileNothing, ReconcileWait,
     ReconcileDecides, Dequeue, RequeueAfter, CreateJob, CreateJobReplyLost,
     CreateJobFails, MarkPhase, MarkPhaseFails
<1>2. ASSUME NEW j \in JobIds, JobStep(j) PROVE UNCHANGED sources
  BY <1>2 DEF JobStep, WorkerStep, SyncJob, WorkerLoad, WorkerLocate, WorkerApply,
     WorkerFail, WorkerReport, WorkerReportFails, PodKilled, JobDeadline,
     JobFinished, JobExpired, SetJob
<1>3. (\E n \in Sources : SyncSource(n)) \/ ManagerRestart \/ UNCHANGED vars
        => UNCHANGED sources
  BY DEF SyncSource, ManagerRestart, vars
<1> QED
  BY <1>1, <1>2, <1>3 DEF Next

\* What is stored, and what was published, only grows.
LEMMA StoredGrows ==
  ASSUME [Next]_vars
  PROVE  stored \subseteq stored' /\ everPublished \subseteq everPublished'
<1>1. ASSUME NEW n \in Sources, SourceStep(n)
      PROVE  stored \subseteq stored' /\ everPublished \subseteq everPublished'
  BY <1>1 DEF SourceStep, Ledger!Create, Ledger!Delete, Ledger!Store,
     Ledger!Publish, Ledger!PublishUnshared
<1> QED
  BY <1>1, SourceSteps DEF sources

\* What one step may do to the manager's cache of the sources.
LEMMA SourceCacheSteps ==
  ASSUME IInv, [Next]_vars, NEW n \in Sources
  PROVE  cachedSource'[n] \in {cachedSource[n], SourceObject(n)}
<1>1. cachedSource \in [Sources -> [uid : 0..MaxSourceUid,
                                    location : Locations \cup {NoLocation}]]
  BY DEF IInv, TypeOK
<1>2. ASSUME NEW r \in Restores,
             UserStep(r) \/ SyncRestore(r) \/ Resync(r) \/ ReconcilerStep(r)
      PROVE  UNCHANGED cachedSource
  BY <1>2 DEF UserStep, CreateRestore, EditRestore, MarkDeleting, DeleteRestore,
     SyncRestore, Resync, ReconcilerStep, RestoreReconcile,
     ClusterRestoreReconcile, Reconcile, ReconcileNothing, ReconcileWait,
     ReconcileDecides, Dequeue, RequeueAfter, CreateJob, CreateJobReplyLost,
     CreateJobFails, MarkPhase, MarkPhaseFails, Requeue, manager
<1>3. ASSUME NEW j \in JobIds, JobStep(j) PROVE UNCHANGED cachedSource
  BY <1>3 DEF JobStep, WorkerStep, SyncJob, WorkerLoad, WorkerLocate, WorkerApply,
     WorkerFail, WorkerReport, WorkerReportFails, PodKilled, JobDeadline,
     JobFinished, JobExpired, SetJob, manager
<1>4. ASSUME NEW m \in Sources, SourceStep(m) \/ SyncSource(m)
      PROVE  cachedSource'[n] \in {cachedSource[n], SourceObject(n)}
  BY <1>1, <1>4 DEF SourceStep, SyncSource, manager
<1>5. CASE ManagerRestart \/ UNCHANGED vars
  BY <1>5 DEF ManagerRestart, vars, manager
<1> QED
  BY <1>2, <1>3, <1>4, <1>5 DEF Next

LEMMA SourcesStaySound ==
  ASSUME IInv, SourcesSound, [Next]_vars
  PROVE  SourcesSound'
<1>1. \A n \in Sources : published'[n] # NoLocation =>
        published'[n] \in everPublished' /\ published'[n].name = n
  <2>1. CASE UNCHANGED sources
    BY <2>1 DEF sources, SourcesSound
  <2>2. ASSUME NEW m \in Sources, SourceStep(m)
        PROVE  \A n \in Sources :
                 \/ published'[n] = published[n]
                 \/ published'[n] = NoLocation
                 \/ published'[n] \in everPublished' /\ published'[n].name = n
    <3>1. published \in [Sources -> Locations \cup {NoLocation}]
      BY DEF IInv, SourcesTyped
    <3>2. everPublished' = everPublished \cup ({published'[m]} \ {NoLocation})
      BY <2>2 DEF SourceStep
    <3>3. ASSUME NEW l \in Locations, l.name = m,
                 published' = [published EXCEPT ![m] = l]
          PROVE  \A n \in Sources :
                   \/ published'[n] = published[n]
                   \/ published'[n] \in everPublished' /\ published'[n].name = n
      BY <3>1, <3>2, <3>3, NoLocationAssumption
    <3>4. ASSUME NEW a \in Artifacts, a.location.name = m, Ledger!Publish(m, a)
          PROVE  \E l \in Locations : /\ l.name = m
                                      /\ published' = [published EXCEPT ![m] = l]
      BY <3>4 DEF Ledger!Publish, Artifacts
    <3>5. ASSUME NEW l \in PodLocations, Ledger!PublishUnshared(m, l)
          PROVE  l \in Locations /\ published' = [published EXCEPT ![m] = l]
      BY <3>5 DEF Ledger!PublishUnshared, PodLocations
    <3>6. CASE Ledger!Create(m) \/ Ledger!Delete(m)
                 \/ \E a \in Artifacts : Ledger!Store(a)
      BY <3>1, <3>6 DEF Ledger!Create, Ledger!Delete, Ledger!Store
    <3> QED
      BY <2>2, <3>3, <3>4, <3>5, <3>6 DEF SourceStep
  <2> QED
    BY <2>1, <2>2, SourceSteps, StoredGrows DEF SourcesSound
<1>2. \A n \in Sources : cachedSource'[n].location # NoLocation =>
        /\ cachedSource'[n].location \in everPublished'
        /\ cachedSource'[n].location.name = n
  BY SourceCacheSteps, StoredGrows DEF SourcesSound, SourceObject
<1> QED
  BY <1>1, <1>2 DEF SourcesSound

\* What a worker may do in one step, apart from ending: nothing, load, read
\* the location of the source, apply, or fail.
WorkerMoves(j) ==
  \/ worker'[j] = worker[j]
  \/ worker'[j].pc \in {"loaded", "failing", "exit0", "exit1"}
  \/ WorkerLocate(j)
  \/ WorkerApply(j)

LEMMA WorkerSteps ==
  ASSUME IInv, [Next]_vars, NEW j \in JobIds
  PROVE  /\ WorkerMoves(j)
         /\ worker[j].pc = "exit0" => worker'[j] = worker[j]
<1>1. worker \in [JobIds -> Workers]
  BY DEF IInv, TypeOK, Workers
<1>2. ASSUME NEW r \in Restores,
             UserStep(r) \/ SyncRestore(r) \/ Resync(r) \/ ReconcilerStep(r)
      PROVE  UNCHANGED worker
  BY <1>2 DEF UserStep, CreateRestore, EditRestore, MarkDeleting, DeleteRestore,
     SyncRestore, Resync, ReconcilerStep, RestoreReconcile,
     ClusterRestoreReconcile, Reconcile, ReconcileNothing, ReconcileWait,
     ReconcileDecides, Dequeue, RequeueAfter, CreateJob, CreateJobReplyLost,
     CreateJobFails, MarkPhase, MarkPhaseFails
<1>3. ASSUME NEW i \in JobIds, JobStep(i)
      PROVE  WorkerMoves(j) /\ (worker[j].pc = "exit0" => worker'[j] = worker[j])
  <2>1. CASE SyncJob(i) \/ JobDeadline(i) \/ JobFinished(i) \/ JobExpired(i)
    BY <2>1 DEF SyncJob, JobDeadline, JobFinished, JobExpired, SetJob, WorkerMoves
  <2>2. CASE WorkerStep(i) \/ PodKilled(i)
    <3>1. /\ worker[i].pc # "exit0"
          /\ \A k \in JobIds \ {i} : worker'[k] = worker[k]
      BY <1>1, <2>2 DEF WorkerStep, WorkerLoad, WorkerLocate, WorkerApply,
         WorkerFail, WorkerReport, WorkerReportFails, PodKilled, ExitWith, Exited
    <3>2. \/ WorkerLocate(i) \/ WorkerApply(i)
          \/ worker'[i].pc \in {"loaded", "failing", "exit0", "exit1"}
      <4>1. ASSUME NEW pc \in {"exit0", "exit1"}, ExitWith(i, pc)
            PROVE  worker'[i].pc \in {"exit0", "exit1"}
        BY <4>1, ExitFacts
      <4>2. WorkerFail(i) => worker'[i].pc = "failing"
        BY <1>1 DEF WorkerFail, Workers
      <4>3. WorkerLoad(i) => worker'[i].pc \in {"loaded", "exit0", "exit1"}
        <5>1. WorkerLoad(i) =>
                \/ ExitWith(i, "exit1")
                \/ \E o : worker' = [worker EXCEPT ![i] =
                            [NotStarted EXCEPT !.pc = "loaded", !.obj = o]]
          BY DEF WorkerLoad
        <5>2. \A o : [NotStarted EXCEPT !.pc = "loaded", !.obj = o].pc = "loaded"
          BY DEF NotStarted
        <5> QED
          BY <1>1, <4>1, <5>1, <5>2
      <4> QED
        BY <2>2, <4>1, <4>2, <4>3 DEF WorkerStep, WorkerReport, WorkerReportFails,
           PodKilled
    <3> QED
      BY <3>1, <3>2 DEF WorkerMoves
  <2> QED
    BY <1>3, <2>1, <2>2 DEF JobStep
<1>4. (\E n \in Sources : SourceStep(n) \/ SyncSource(n)) \/ ManagerRestart
        \/ UNCHANGED vars => UNCHANGED worker
  BY DEF SourceStep, SyncSource, ManagerRestart, vars
<1> QED
  BY <1>2, <1>3, <1>4 DEF Next, WorkerMoves

\* What WorkerLocate and WorkerApply make of the worker.
LEMMA LocateFacts ==
  ASSUME IInv, NEW j \in JobIds, WorkerLocate(j)
  PROVE  LET a == LoadBackupReference(worker[j].obj.ref).location IN
           /\ a # NoLocation
           /\ worker[j].obj.ref \in Refs
           /\ worker'[j].pc = "located" /\ worker'[j].location = a
           /\ worker'[j].obj = worker[j].obj
<1> DEFINE a == LoadBackupReference(worker[j].obj.ref).location
<1>1. /\ Busy(j) /\ a # NoLocation
      /\ worker' = [worker EXCEPT ![j].pc = "located", ![j].location = a]
  BY DEF WorkerLocate, Busy
<1>2. worker[j] \in Workers /\ worker[j].obj.ref \in Refs
  BY <1>1, BusyWorker DEF Objects
<1> HIDE DEF a
<1>3. /\ worker'[j].pc = "located" /\ worker'[j].location = a
      /\ worker'[j].obj = worker[j].obj
  BY <1>1, <1>2 DEF IInv, TypeOK
<1> QED
  BY <1>1, <1>2, <1>3 DEF a

LEMMA ApplyFacts ==
  ASSUME IInv, NEW j \in JobIds, WorkerApply(j)
  PROVE  /\ worker[j].pc = "located" /\ worker'[j].pc = "applied"
         /\ worker'[j].location = worker[j].location
         /\ worker'[j].obj = worker[j].obj
         /\ applied' = applied \cup {[job |-> j, uid |-> worker[j].obj.uid,
                                      ref |-> worker[j].obj.ref,
                                      location |-> worker[j].location]}
         /\ \E a \in stored : a.location = worker[j].location
<1>1. worker \in [JobIds -> Workers]
  BY DEF IInv, TypeOK, Workers
<1> QED
  BY <1>1 DEF WorkerApply, Workers

LEMMA LocatedStaysSound ==
  ASSUME IInv, SourcesSound, LocatedSound, [Next]_vars
  PROVE  LocatedSound'
<1> SUFFICES ASSUME NEW j \in JobIds, worker'[j].pc \in {"located", "applied"}
             PROVE  /\ worker'[j].location.name = worker'[j].obj.ref.source
                    /\ Resolvable(worker'[j].obj.ref)
  BY DEF LocatedSound, Resolvable
<1>1. CASE worker'[j] = worker[j]
  BY <1>1 DEF LocatedSound
<1>2. CASE WorkerLocate(j)
  <2> DEFINE ref == worker[j].obj.ref
             a == LoadBackupReference(ref).location
  <2>1. /\ a # NoLocation /\ ref \in Refs
        /\ worker'[j].location = a /\ worker'[j].obj = worker[j].obj
    BY <1>2, LocateFacts
  <2>2. Resolvable(ref) /\ a = published[ref.source] /\ ref.source \in Sources
    BY <2>1 DEF LoadBackupReference, Resolvable, NoSource, SourceObject, Refs
  <2>3. a.name = ref.source
    BY <2>1, <2>2 DEF SourcesSound
  <2> QED
    BY <2>1, <2>2, <2>3
<1>3. CASE WorkerApply(j)
  BY <1>3, ApplyFacts DEF LocatedSound
<1> QED
  BY <1>1, <1>2, <1>3, WorkerSteps DEF WorkerMoves

\* Only WorkerApply adds to what is applied.
LEMMA AppliedSteps ==
  ASSUME [Next]_vars
  PROVE  UNCHANGED applied \/ \E j \in JobIds : WorkerApply(j)
<1>1. ASSUME NEW r \in Restores,
             UserStep(r) \/ SyncRestore(r) \/ Resync(r) \/ ReconcilerStep(r)
      PROVE  UNCHANGED applied
  BY <1>1 DEF UserStep, CreateRestore, EditRestore, MarkDeleting, DeleteRestore,
     SyncRestore, Resync, ReconcilerStep, RestoreReconcile,
     ClusterRestoreReconcile, Reconcile, ReconcileNothing, ReconcileWait,
     ReconcileDecides, Dequeue, RequeueAfter, CreateJob, CreateJobReplyLost,
     CreateJobFails, MarkPhase, MarkPhaseFails
<1>2. ASSUME NEW j \in JobIds, JobStep(j), ~WorkerApply(j)
      PROVE  UNCHANGED applied
  BY <1>2 DEF JobStep, WorkerStep, SyncJob, WorkerLoad, WorkerLocate,
     WorkerFail, WorkerReport, WorkerReportFails, PodKilled, JobDeadline,
     JobFinished, JobExpired, SetJob
<1>3. (\E n \in Sources : SourceStep(n) \/ SyncSource(n)) \/ ManagerRestart
        \/ UNCHANGED vars => UNCHANGED applied
  BY DEF SourceStep, SyncSource, ManagerRestart, vars
<1> QED
  BY <1>1, <1>2, <1>3 DEF Next

LEMMA AppliedStaysSound ==
  ASSUME IInv, LocatedSound, AppliedFromSource, [Next]_vars
  PROVE  AppliedFromSource'
<1> SUFFICES ASSUME NEW x \in applied'
             PROVE  /\ \E a \in stored' : a.location = x.location
                    /\ x.location.name = x.ref.source /\ Resolvable(x.ref)
  BY DEF AppliedFromSource, Resolvable
<1>1. CASE x \in applied
  BY <1>1, StoredGrows DEF AppliedFromSource
<1>2. CASE x \notin applied
  <2>1. PICK j \in JobIds : WorkerApply(j)
    BY <1>2, AppliedSteps
  <2>2. /\ worker[j].pc = "located"
        /\ x.location = worker[j].location /\ x.ref = worker[j].obj.ref
        /\ \E a \in stored : a.location = worker[j].location
    BY <1>2, <2>1, ApplyFacts
  <2> QED
    BY <2>2, StoredGrows DEF LocatedSound
<1> QED
  BY <1>1, <1>2

\* The manager's copies: a Reconcile call keeps the copy it has, ends, goes on
\* after it created a Job, or starts with what the cache shows.
Started(r) ==
  /\ rec'[r].obj = cached[r] /\ Exists(cached[r])
  /\ Decide(r, cached[r], rec'[r].pc)
  /\ UNCHANGED <<jobs, cachedJobs, worker, applied>>

Created(r) ==
  /\ rec[r].pc = "create" /\ rec'[r].pc = "markRunning"
  /\ rec'[r].obj = rec[r].obj

LEMMA ManagerSteps ==
  ASSUME IInv, [Next]_vars, NEW r \in Restores
  PROVE  rec'[r] \in {rec[r], Idle} \/ Started(r) \/ Created(r)
<1>1. rec \in [Restores -> Records]
  BY DEF IInv, TypeOK, Records
<1>2. ASSUME NEW q \in Restores,
             UserStep(q) \/ SyncRestore(q) \/ Resync(q) \/ RequeueAfter(q)
      PROVE  UNCHANGED rec
  BY <1>2 DEF UserStep, CreateRestore, EditRestore, MarkDeleting, DeleteRestore,
     SyncRestore, Resync, RequeueAfter, manager
<1>3. ASSUME NEW j \in JobIds, JobStep(j) PROVE UNCHANGED rec
  BY <1>3 DEF JobStep, WorkerStep, SyncJob, WorkerLoad, WorkerLocate, WorkerApply,
     WorkerFail, WorkerReport, WorkerReportFails, PodKilled, JobDeadline,
     JobFinished, JobExpired, SetJob, manager
<1>4. ASSUME NEW q \in Restores, Reconcile(q)
      PROVE  rec'[r] = rec[r] \/ Started(r)
  <2>1. UNCHANGED <<jobs, cachedJobs, worker, applied>>
    BY <1>4 DEF Reconcile, ReconcileNothing, ReconcileWait, ReconcileDecides, Dequeue
  <2>2. \/ UNCHANGED rec
        \/ \E pc \in ReconcileStates :
             /\ Exists(cached[q]) /\ Decide(q, cached[q], pc)
             /\ rec' = [rec EXCEPT ![q] = [pc |-> pc, obj |-> cached[q]]]
    BY <1>4 DEF Reconcile, ReconcileNothing, ReconcileWait, ReconcileDecides
  <2> QED
    BY <1>1, <2>1, <2>2 DEF Started
<1>5. ASSUME NEW q \in Restores, CreateJob(q)
      PROVE  rec'[r] = rec[r] \/ Created(r)
  BY <1>1, <1>5 DEF CreateJob, Created, Records
<1>6. ASSUME NEW q \in Restores,
             \/ CreateJobReplyLost(q) \/ CreateJobFails(q) \/ MarkPhase(q)
             \/ MarkPhaseFails(q)
      PROVE  rec'[r] \in {rec[r], Idle}
  BY <1>1, <1>6 DEF CreateJobReplyLost, CreateJobFails, MarkPhase,
     MarkPhaseFails, Requeue
<1>7. ASSUME NEW n \in Sources, SourceStep(n) \/ SyncSource(n)
      PROVE  UNCHANGED rec
  BY <1>7 DEF SourceStep, SyncSource, manager
<1>8. CASE ManagerRestart \/ UNCHANGED vars
  BY <1>8 DEF ManagerRestart, vars, manager
<1> QED
  BY <1>2, <1>3, <1>4, <1>5, <1>6, <1>7, <1>8
     DEF Next, ReconcilerStep, RestoreReconcile, ClusterRestoreReconcile

LEMMA JobStaysAwaited ==
  ASSUME IInv, SourcesSound, JobAwaitsArtifact, [Next]_vars
  PROVE  JobAwaitsArtifact'
<1> SUFFICES ASSUME NEW r \in Restores, rec'[r].pc = "create"
             PROVE  \E l \in everPublished' : l.name = rec'[r].obj.ref.source
  BY DEF JobAwaitsArtifact
<1>1. CASE rec'[r] \in {rec[r], Idle}
  <2>1. rec'[r] = rec[r]
    BY <1>1 DEF Idle
  <2> QED
    BY <2>1, StoredGrows DEF JobAwaitsArtifact
<1>2. CASE Started(r)
  <2> DEFINE ref == cached[r].ref
  <2>1. /\ rec'[r].obj = cached[r]
        /\ GetBackupForRestore(cached[r]).location # NoLocation
    BY <1>2 DEF Started, Decide, Verdict
  <2>2. ref.source \in Sources
    <3>1. cached[r] \in Objects
      BY <1>2, ExistingObjects DEF Started, IInv, TypeOK
    <3> QED
      BY <3>1 DEF Objects, Refs
  <2>3. GetBackupForRestore(cached[r]) = cachedSource[ref.source]
    BY <2>1 DEF GetBackupForRestore, NoSource
  <2>4. /\ cachedSource[ref.source].location \in everPublished
        /\ cachedSource[ref.source].location.name = ref.source
    BY <2>1, <2>2, <2>3 DEF SourcesSound
  <2> QED
    BY <2>1, <2>4, StoredGrows
<1>3. CASE Created(r)
  BY <1>3 DEF Created
<1> QED
  BY <1>1, <1>2, <1>3, ManagerSteps

LEMMA AppliedInvKept == IInv /\ AppliedInv /\ [Next]_vars => AppliedInv'
  BY SourcesStaySound, LocatedStaysSound, AppliedStaysSound, JobStaysAwaited
     DEF AppliedInv

LEMMA AppliedInvHolds == Spec => []AppliedInv
<1>1. Init => AppliedInv
  <2> SUFFICES ASSUME Init PROVE AppliedInv
    OBVIOUS
  <2>1. SourcesSound
    BY DEF Init, Ledger!Init, SourcesSound, NoSource
  <2>2. LocatedSound /\ AppliedFromSource /\ JobAwaitsArtifact
    BY DEF Init, LocatedSound, AppliedFromSource, JobAwaitsArtifact, NotStarted,
       Idle
  <2> QED
    BY <2>1, <2>2 DEF AppliedInv
<1> QED
  BY <1>1, AppliedInvKept, IInvHolds, PTL DEF Spec

\* What is applied for a restore is a stored artifact of the source its
\* sourceRef named when the worker loaded it, however references are edited
\* and sources run again, or deleted and made again.
THEOREM AppliesFromSource == Spec => []AppliedFromSource
<1>1. AppliedInv => AppliedFromSource
  BY DEF AppliedInv
<1> QED
  BY <1>1, AppliedInvHolds, PTL

\* No Job is about to be created for a restore whose source has never published
\* an artifact, however old the cache the controller looks at.
THEOREM JobWaitsForArtifact == Spec => []JobAwaitsArtifact
<1>1. AppliedInv => JobAwaitsArtifact
  BY DEF AppliedInv
<1> QED
  BY <1>1, AppliedInvHolds, PTL

-----------------------------------------------------------------------------
(* Completed.                                                              *)

\* Among the Jobs js is one of incarnation u of r whose worker, of ws, ended
\* with exit code 0.
HasFinishedWorker(js, ws, r, u) ==
  \E j \in JobIds : /\ ws[j].pc = "exit0"
                    /\ js[j].restore = r /\ js[j].uid = u

\* A Job that is seen to have succeeded, in the API server or in the cache,
\* has a worker that ended with exit code 0; what the cache shows of a Job may
\* be old but is of the same Job.
SuccessIsReal ==
  \A j \in JobIds :
    /\ jobs[j].state = "Succeeded" => worker[j].pc = "exit0"
    /\ cachedJobs[j] # NoJob =>
         /\ cachedJobs[j].restore = jobs[j].restore
         /\ cachedJobs[j].uid = jobs[j].uid
         /\ cachedJobs[j].state = "Succeeded" => worker[j].pc = "exit0"

\* A worker about to report success has applied something for its restore.
AppliedRecorded ==
  \A j \in JobIds :
    worker[j].pc = "applied" => \E x \in applied : x.uid = worker[j].obj.uid

CompletedInv ==
  /\ CompletedIsJustified /\ SuccessIsReal /\ AppliedRecorded
  /\ \A r \in Restores :
       rec[r].pc = "markCompleted" =>
         HasFinishedWorker(jobs, worker, r, rec[r].obj.uid)

\* What one step may do to a restore: a user's edit or nothing; a new
\* incarnation or none; a status update made from a copy that is current.
Edited(r) ==
  restore'[r].uid = restore[r].uid /\ restore'[r].phase = restore[r].phase

Marked(r) ==
  /\ Marking(r) /\ rec[r].obj = restore[r]
  /\ restore'[r].uid = restore[r].uid /\ restore'[r].phase = PhaseToWrite(r)

Reported(r, j) ==
  /\ worker[j].pc \in {"applied", "failing"} /\ worker[j].obj = restore[r]
  /\ restore'[r].uid = restore[r].uid /\ restore'[r].phase = ReportedPhase(j)

RestoreStep(r) ==
  \/ Edited(r)
  \/ restore'[r].phase = ""
  \/ Marked(r)
  \/ \E j \in JobIds : Reported(r, j)

LEMMA PhaseWritten ==
  ASSUME NEW o \in Objects, NEW phase
  PROVE  /\ [o EXCEPT !.phase = phase].phase = phase
         /\ [o EXCEPT !.phase = phase].uid = o.uid
  BY DEF Objects

LEMMA UserIsRestoreStep ==
  ASSUME IInv, NEW q \in Restores, UserStep(q), NEW r \in Restores
  PROVE  RestoreStep(r)
<1>1. ASSUME NEW o, Put(q, o)
      PROVE  /\ restore'[q] = o
             /\ \A p \in Restores \ {q} : restore'[p] = restore[p]
  BY <1>1 DEF Put, IInv, TypeOK
<1>2. PICK o : Put(q, o)
  BY DEF UserStep, CreateRestore, EditRestore, MarkDeleting, DeleteRestore
<1>3. CASE q # r
  BY <1>1, <1>2, <1>3 DEF RestoreStep, Edited
<1>4. CASE q = r
  <2>1. CASE CreateRestore(r)
    <3>1. PICK ref : Put(r, [uid |-> lastUid + 1, generation |-> 1, ref |-> ref,
                             deleting |-> FALSE, phase |-> ""])
      BY <2>1 DEF CreateRestore
    <3>2. restore'[r] = [uid |-> lastUid + 1, generation |-> 1, ref |-> ref,
                         deleting |-> FALSE, phase |-> ""]
      BY <1>1, <1>4, <3>1
    <3>3. \A phase : [uid |-> lastUid + 1, generation |-> 1, ref |-> ref,
                      deleting |-> FALSE, phase |-> phase].phase = phase
      OBVIOUS
    <3>4. restore'[r].phase = ""
      BY <3>2, <3>3, Zenon
    <3> QED
      BY <3>4, Zenon DEF RestoreStep
  <2>2. CASE EditRestore(r)
    <3>1. restore[r] \in Objects
      BY <2>2, ExistingObjects DEF EditRestore, IInv, TypeOK
    <3>2. PICK ref :
            restore'[r] = [restore[r] EXCEPT !.generation = @ + 1, !.ref = ref]
      BY <1>1, <1>4, <2>2 DEF EditRestore
    <3> QED
      BY <3>1, <3>2 DEF RestoreStep, Edited, Objects
  <2>3. CASE MarkDeleting(r)
    <3>1. restore[r] \in Objects
      BY <2>3, ExistingObjects DEF MarkDeleting, IInv, TypeOK
    <3>2. restore'[r] = [restore[r] EXCEPT !.deleting = TRUE]
      BY <1>1, <1>4, <2>3 DEF MarkDeleting
    <3> QED
      BY <3>1, <3>2 DEF RestoreStep, Edited, Objects
  <2>4. CASE DeleteRestore(r)
    <3>1. restore'[r] = Absent
      BY <1>1, <1>4, <2>4 DEF DeleteRestore
    <3>2. \A phase : [uid |-> 0, generation |-> 0, ref |-> NoRef,
                      deleting |-> FALSE, phase |-> phase].phase = phase
      OBVIOUS
    <3>3. restore'[r].phase = ""
      BY <3>1, <3>2, Zenon DEF Absent
    <3> QED
      BY <3>3, Zenon DEF RestoreStep
  <2> QED
    BY <1>4, <2>1, <2>2, <2>3, <2>4 DEF UserStep
<1> QED
  BY <1>3, <1>4

LEMMA MarkPhaseIsRestoreStep ==
  ASSUME IInv, NEW q \in Restores, MarkPhase(q), NEW r \in Restores
  PROVE  RestoreStep(r)
<1>1. /\ UpdatePhase("reconciler", q, PhaseToWrite(q)) /\ Marking(q)
      /\ PhaseToWrite(q) \in Phases
  BY DEF MarkPhase, Marking, PhaseToWrite, Phases
<1>2. rec[q].obj = restore[q]
  BY <1>1 DEF UpdatePhase, UpdateAccepted, IInv, ManagerCopies, Marking
<1>3. /\ restore[q] \in Objects
      /\ \A p \in Restores \ {q} : restore'[p] = restore[p]
      /\ restore'[q] = [restore[q] EXCEPT !.phase = PhaseToWrite(q)]
  BY <1>1, UpdateFacts DEF IInv
<1>4. restore'[q].phase = PhaseToWrite(q) /\ restore'[q].uid = restore[q].uid
  BY <1>3, PhaseWritten
<1> QED
  BY <1>1, <1>2, <1>3, <1>4 DEF RestoreStep, Marked, Edited

LEMMA ReportIsRestoreStep ==
  ASSUME IInv, NEW j \in JobIds, WorkerReport(j), NEW r \in Restores
  PROVE  RestoreStep(r)
<1>1. Busy(j) /\ worker[j].pc \in {"applied", "failing"}
  BY DEF WorkerReport, Busy
<1>2. PICK q \in Restores : q = jobs[j].restore
  BY <1>1, BusyWorker
<1>3. UpdatePhase(j, q, ReportedPhase(j)) /\ ReportedPhase(j) \in Phases
  BY <1>2 DEF WorkerReport, ReportedPhase, Phases
<1>4. worker[j].obj = restore[q]
  BY <1>1, <1>2, <1>3 DEF UpdatePhase, UpdateAccepted, IInv, WorkerCopies
<1>5. /\ restore[q] \in Objects
      /\ \A p \in Restores \ {q} : restore'[p] = restore[p]
      /\ restore'[q] = [restore[q] EXCEPT !.phase = ReportedPhase(j)]
  BY <1>3, UpdateFacts DEF IInv
<1>6. restore'[q].phase = ReportedPhase(j) /\ restore'[q].uid = restore[q].uid
  BY <1>5, PhaseWritten
<1> QED
  BY <1>1, <1>4, <1>5, <1>6 DEF RestoreStep, Reported, Edited

LEMMA RestoreSteps ==
  ASSUME IInv, [Next]_vars, NEW r \in Restores
  PROVE  RestoreStep(r)
<1>1. ASSUME UNCHANGED restore PROVE RestoreStep(r)
  BY <1>1 DEF RestoreStep, Edited
<1>2. ASSUME NEW q \in Restores,
             SyncRestore(q) \/ Resync(q) \/ ReconcilerStep(q)
      PROVE  RestoreStep(r)
  BY <1>1, <1>2, MarkPhaseIsRestoreStep DEF SyncRestore, Resync, ReconcilerStep,
     RestoreReconcile, ClusterRestoreReconcile, Reconcile, ReconcileNothing,
     ReconcileWait, ReconcileDecides, Dequeue, RequeueAfter, CreateJob,
     CreateJobReplyLost, CreateJobFails, MarkPhaseFails, objects
<1>3. ASSUME NEW j \in JobIds, JobStep(j) PROVE RestoreStep(r)
  BY <1>1, <1>3, ReportIsRestoreStep DEF JobStep, WorkerStep, SyncJob, WorkerLoad,
     WorkerLocate, WorkerApply, WorkerFail, WorkerReportFails, PodKilled,
     JobDeadline, JobFinished, JobExpired, SetJob, objects
<1>4. ASSUME NEW n \in Sources, SourceStep(n) \/ SyncSource(n)
      PROVE  RestoreStep(r)
  BY <1>1, <1>4 DEF SourceStep, SyncSource, objects
<1>5. CASE ManagerRestart \/ UNCHANGED vars
  BY <1>1, <1>5 DEF ManagerRestart, vars, objects
<1> QED
  BY <1>2, <1>3, <1>4, <1>5, UserIsRestoreStep DEF Next

\* A Job that exists keeps its owner, only a worker that ended well makes one
\* succeed, and the cache shows a Job as it is or as it was shown.
LEMMA JobSteps ==
  ASSUME IInv, [Next]_vars, NEW j \in JobIds
  PROVE  /\ \/ jobs'[j] = jobs[j]
            \/ jobs[j] = NoJob /\ jobs'[j].state = "Active"
            \/ /\ jobs[j] # NoJob
               /\ jobs'[j].restore = jobs[j].restore
               /\ jobs'[j].uid = jobs[j].uid
               /\ jobs'[j].state = "Succeeded" => worker[j].pc = "exit0"
         /\ cachedJobs'[j] \in {cachedJobs[j], jobs[j]}
<1>1. jobs \in [JobIds -> JobRecords] /\ cachedJobs \in [JobIds -> JobRecords]
  BY DEF IInv, TypeOK
<1>2. ASSUME NEW r \in Restores, UserStep(r) \/ SyncRestore(r) \/ Resync(r)
      PROVE  UNCHANGED <<jobs, cachedJobs>>
  BY <1>2 DEF UserStep, CreateRestore, EditRestore, MarkDeleting, DeleteRestore,
     SyncRestore, Resync, manager
<1>3. ASSUME NEW r \in Restores, ReconcilerStep(r),
             ~(CreateJob(r) \/ CreateJobReplyLost(r))
      PROVE  UNCHANGED <<jobs, cachedJobs>>
  BY <1>3 DEF ReconcilerStep, RestoreReconcile, ClusterRestoreReconcile,
     Reconcile, ReconcileNothing, ReconcileWait, ReconcileDecides, Dequeue,
     RequeueAfter, CreateJobFails, MarkPhase, MarkPhaseFails, Requeue
<1>4. ASSUME NEW r \in Restores, CreateJob(r) \/ CreateJobReplyLost(r)
      PROVE  /\ UNCHANGED cachedJobs
             /\ \/ jobs'[j] = jobs[j]
                \/ jobs[j] = NoJob /\ jobs'[j].state = "Active"
  <2>1. UNCHANGED cachedJobs /\ JobIsCreated(r)
    BY <1>4 DEF CreateJob, CreateJobReplyLost, Requeue
  <2>2. BuildRestoreJob(r, rec[r].obj).state = "Active"
    BY DEF BuildRestoreJob
  <2> QED
    BY <1>1, <2>1, <2>2 DEF JobIsCreated
<1>5. ASSUME NEW n \in Sources, SourceStep(n) \/ SyncSource(n)
      PROVE  UNCHANGED <<jobs, cachedJobs>>
  BY <1>5 DEF SourceStep, SyncSource, manager
<1>6. ASSUME NEW i \in JobIds, WorkerStep(i) \/ PodKilled(i)
      PROVE  UNCHANGED <<jobs, cachedJobs>>
  BY <1>6 DEF WorkerStep, WorkerLoad, WorkerLocate, WorkerApply, WorkerFail,
     WorkerReport, WorkerReportFails, PodKilled, manager
<1>7. ASSUME NEW i \in JobIds, SyncJob(i)
      PROVE  UNCHANGED jobs /\ cachedJobs'[j] \in {cachedJobs[j], jobs[j]}
  BY <1>1, <1>7 DEF SyncJob
<1>8. ASSUME NEW i \in JobIds, JobDeadline(i) \/ JobFinished(i) \/ JobExpired(i)
      PROVE  /\ UNCHANGED cachedJobs
             /\ \/ jobs'[j] = jobs[j]
                \/ /\ jobs[j] # NoJob
                   /\ jobs'[j].restore = jobs[j].restore
                   /\ jobs'[j].uid = jobs[j].uid
                   /\ jobs'[j].state = "Succeeded" => worker[j].pc = "exit0"
  <2>1. PICK st \in {"Succeeded", "Failed", "Deleted"} :
          SetJob(i, st) /\ (st = "Succeeded" => worker[i].pc = "exit0")
    BY <1>8 DEF JobDeadline, JobFinished, JobExpired
  <2>2. jobs[i].state # "None"
    BY <1>8 DEF JobDeadline, JobFinished, JobExpired
  <2>3. jobs[i] \in [state : JobStates \ {"None"}, restore : Restores, uid : Uids]
    BY <1>1, <2>2 DEF JobRecords, NoJob
  <2>4. jobs' = [jobs EXCEPT ![i].state = st] /\ UNCHANGED cachedJobs
    BY <2>1 DEF SetJob, manager
  <2>5. i # j => jobs'[j] = jobs[j]
    BY <1>1, <2>4
  <2>6. i = j => /\ jobs'[j].restore = jobs[j].restore
                 /\ jobs'[j].uid = jobs[j].uid
                 /\ jobs'[j].state = st /\ jobs[j] # NoJob
    BY <1>1, <2>2, <2>3, <2>4 DEF NoJob
  <2> QED
    BY <2>1, <2>4, <2>5, <2>6
<1>9. CASE ManagerRestart \/ UNCHANGED vars
  BY <1>1, <1>9 DEF ManagerRestart, vars, manager
<1> QED
  BY <1>2, <1>3, <1>4, <1>5, <1>6, <1>7, <1>8, <1>9 DEF Next, JobStep

LEMMA FinishedWorkersStay ==
  ASSUME IInv, [Next]_vars, NEW r \in Restores, NEW u,
         HasFinishedWorker(jobs, worker, r, u)
  PROVE  HasFinishedWorker(jobs', worker', r, u)
<1>1. PICK j \in JobIds : /\ worker[j].pc = "exit0"
                          /\ jobs[j].restore = r /\ jobs[j].uid = u
  BY DEF HasFinishedWorker
<1>2. jobs[j] # NoJob
  BY <1>1, NamesAssumption DEF NoJob
<1>3. /\ worker'[j].pc = "exit0"
      /\ jobs'[j].restore = r /\ jobs'[j].uid = u
  BY <1>1, <1>2, JobSteps, WorkerSteps
<1> QED
  BY <1>3 DEF HasFinishedWorker

LEMMA SuccessStaysReal ==
  ASSUME IInv, SuccessIsReal, [Next]_vars
  PROVE  SuccessIsReal'
<1> SUFFICES ASSUME NEW j \in JobIds
             PROVE  /\ jobs'[j].state = "Succeeded" => worker'[j].pc = "exit0"
                    /\ cachedJobs'[j] # NoJob =>
                         /\ cachedJobs'[j].restore = jobs'[j].restore
                         /\ cachedJobs'[j].uid = jobs'[j].uid
                         /\ cachedJobs'[j].state = "Succeeded" =>
                              worker'[j].pc = "exit0"
  BY DEF SuccessIsReal
<1>1. /\ jobs[j].state = "Succeeded" => worker[j].pc = "exit0"
      /\ cachedJobs[j] # NoJob =>
           /\ cachedJobs[j].restore = jobs[j].restore
           /\ cachedJobs[j].uid = jobs[j].uid
           /\ cachedJobs[j].state = "Succeeded" => worker[j].pc = "exit0"
  BY DEF SuccessIsReal
<1>2. /\ worker[j].pc = "exit0" => worker'[j].pc = "exit0"
      /\ cachedJobs'[j] \in {cachedJobs[j], jobs[j]}
  BY JobSteps, WorkerSteps
<1>3. /\ jobs'[j].state = "Succeeded" => worker[j].pc = "exit0"
      /\ jobs[j] # NoJob => /\ jobs'[j].restore = jobs[j].restore
                            /\ jobs'[j].uid = jobs[j].uid
  BY <1>1, JobSteps
<1>4. cachedJobs[j] # NoJob => jobs[j] # NoJob
  <2>1. cachedJobs[j] # NoJob => cachedJobs[j].restore \in Restores
    BY DEF IInv, TypeOK, JobRecords
  <2> QED
    BY <1>1, <2>1, NamesAssumption DEF NoJob
<1> QED
  BY <1>1, <1>2, <1>3, <1>4

LEMMA AppliedStaysRecorded ==
  ASSUME IInv, AppliedRecorded, [Next]_vars
  PROVE  /\ AppliedRecorded'
         /\ applied \subseteq applied'
<1>1. applied \subseteq applied'
  BY AppliedSteps, ApplyFacts
<1>2. ASSUME NEW j \in JobIds, worker'[j].pc = "applied"
      PROVE  \E x \in applied' : x.uid = worker'[j].obj.uid
  <2>1. CASE worker'[j] = worker[j]
    BY <1>1, <1>2, <2>1 DEF AppliedRecorded
  <2>2. CASE WorkerLocate(j)
    BY <1>2, <2>2, LocateFacts
  <2>3. CASE WorkerApply(j)
    <3> DEFINE x == [job |-> j, uid |-> worker[j].obj.uid,
                     ref |-> worker[j].obj.ref, location |-> worker[j].location]
    <3>1. x \in applied' /\ x.uid = worker[j].obj.uid
      BY <2>3, ApplyFacts
    <3> QED
      BY <2>3, <3>1, ApplyFacts
  <2> QED
    BY <1>2, <2>1, <2>2, <2>3, WorkerSteps DEF WorkerMoves
<1> QED
  BY <1>1, <1>2 DEF AppliedRecorded

\* A Reconcile call that finds a succeeded Job finds one whose worker ended
\* with exit code 0, however old the list of Jobs it reads.
LEMMA FoundSuccessIsReal ==
  ASSUME SuccessIsReal, NEW r \in Restores, NEW o,
         Decide(r, o, "markCompleted")
  PROVE  HasFinishedWorker(jobs, worker, r, o.uid)
<1>1. PICK j \in JobIds : /\ cachedJobs[j].restore = r
                          /\ cachedJobs[j].uid = o.uid
                          /\ cachedJobs[j].state \notin {"None", "Deleted"}
                          /\ "markCompleted" = Verdict(cachedJobs[j], o.phase)
  BY DEF Decide, FindJob
<1>2. cachedJobs[j].state = "Succeeded" /\ cachedJobs[j] # NoJob
  BY <1>1 DEF Verdict, NoJob
<1> QED
  BY <1>1, <1>2 DEF SuccessIsReal, HasFinishedWorker

LEMMA CompletedInvKept ==
  ASSUME IInv, CompletedInv, [Next]_vars
  PROVE  CompletedInv'
<1>1. AppliedRecorded' /\ applied \subseteq applied'
  BY AppliedStaysRecorded DEF CompletedInv
<1>2. ASSUME NEW r \in Restores, restore'[r].phase = "Completed",
             ~ \E x \in applied' : x.uid = restore'[r].uid
      PROVE  HasFinishedWorker(jobs', worker', r, restore'[r].uid)
  <2>1. CASE Edited(r)
    <3>1. HasFinishedWorker(jobs, worker, r, restore[r].uid)
      BY <1>1, <1>2, <2>1
         DEF Edited, CompletedInv, CompletedIsJustified, HasFinishedWorker
    <3> QED
      BY <2>1, <3>1, FinishedWorkersStay DEF Edited
  <2>2. CASE restore'[r].phase = ""
    BY <1>2, <2>2, NewPhase
  <2>3. CASE Marked(r)
    <3>1. rec[r].pc = "markCompleted"
      BY <1>2, <2>3 DEF Marked, Marking, PhaseToWrite
    <3>2. HasFinishedWorker(jobs, worker, r, restore[r].uid)
      BY <2>3, <3>1 DEF Marked, CompletedInv
    <3> QED
      BY <2>3, <3>2, FinishedWorkersStay DEF Marked
  <2>4. ASSUME NEW j \in JobIds, Reported(r, j) PROVE FALSE
    <3>1. worker[j].pc = "applied" /\ restore'[r].uid = worker[j].obj.uid
      BY <1>2, <2>4 DEF Reported, ReportedPhase
    <3> QED
      BY <1>1, <1>2, <3>1 DEF CompletedInv, AppliedRecorded
  <2> QED
    BY <2>1, <2>2, <2>3, <2>4, RestoreSteps DEF RestoreStep
<1>3. ASSUME NEW r \in Restores, rec'[r].pc = "markCompleted"
      PROVE  HasFinishedWorker(jobs', worker', r, rec'[r].obj.uid)
  <2>1. CASE rec'[r] \in {rec[r], Idle}
    <3>1. HasFinishedWorker(jobs, worker, r, rec'[r].obj.uid)
      BY <1>3, <2>1 DEF Idle, CompletedInv
    <3> QED
      BY <3>1, FinishedWorkersStay
  <2>2. CASE Started(r)
    <3>1. HasFinishedWorker(jobs, worker, r, cached[r].uid)
      BY <1>3, <2>2, FoundSuccessIsReal DEF Started, CompletedInv
    <3> QED
      BY <2>2, <3>1, FinishedWorkersStay DEF Started
  <2>3. CASE Created(r)
    BY <1>3, <2>3 DEF Created
  <2> QED
    BY <2>1, <2>2, <2>3, ManagerSteps
<1>4. CompletedIsJustified'
  BY <1>2 DEF CompletedIsJustified, HasFinishedWorker
<1> QED
  BY <1>1, <1>3, <1>4, SuccessStaysReal DEF CompletedInv

\* A restore is Completed only when something was applied for this very
\* incarnation or a worker of one of its own Jobs ended well.
THEOREM CompletedJustified == Spec => []CompletedIsJustified
<1>1. Init => CompletedInv
  <2> SUFFICES ASSUME Init PROVE CompletedInv
    OBVIOUS
  <2>1. CompletedIsJustified
    <3>1. Absent.phase # "Completed"
      BY DEF Absent
    <3> QED
      BY <3>1 DEF Init, CompletedIsJustified
  <2>2. SuccessIsReal
    BY DEF Init, SuccessIsReal, NoJob
  <2>3. AppliedRecorded
    BY DEF Init, AppliedRecorded, NotStarted
  <2> QED
    BY <2>1, <2>2, <2>3 DEF Init, CompletedInv, Idle
<1>2. IInv /\ CompletedInv /\ [Next]_vars => CompletedInv'
  BY CompletedInvKept
<1>3. CompletedInv => CompletedIsJustified
  BY DEF CompletedInv
<1> QED
  BY <1>1, <1>2, <1>3, IInvHolds, PTL DEF Spec

===============================================================================

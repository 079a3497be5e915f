----------------------------- MODULE Configuration ------------------------------
(***************************************************************************)
(* The objects that configure backups and restores, their two controllers  *)
(* in one manager, a backup and a restore that use them, and users.        *)
(***************************************************************************)
EXTENDS StorageLocations, RemoteClusters

CONSTANT Scenarios    \* initial states: [objects, ref, secret, answers]

SpecsFor(n) == IF n \in Locations THEN LocationSpecs ELSE RemoteSpecs

\* What there is in the beginning, users have created and nobody has validated.
ASSUME ScenariosAssumption ==
  \A s \in Scenarios :
    /\ DOMAIN s.objects \subseteq Locations \cup Remotes
    /\ s.objects = [n \in DOMAIN s.objects |-> s.objects[n]]
    /\ \A n \in DOMAIN s.objects :
         s.objects[n] = None \/ \E spec \in SpecsFor(n) : s.objects[n] = NewObject(spec)
    /\ s.secret \in Secrets /\ s.answers \in Answers

vars == <<configVars, backup, remoteVars>>

Init ==
  \E s \in Scenarios :
    /\ objects = s.objects /\ cache = s.objects
    /\ fresh = [n \in DOMAIN s.objects |-> {"cache"}]
    /\ queue = {n \in DOMAIN s.objects : s.objects[n] # None}
    /\ call = [c \in Controllers |-> None]
    /\ edits = 0 /\ failures = 0
    /\ backup = NewBackup(s.ref)
    /\ secret = s.secret /\ cachedSecret = s.secret
    /\ answers = s.answers
    /\ restore = NewRestore /\ answered = {}

UserStep(n) ==
  /\ \/ \E spec \in SpecsFor(n) : CreateObject(n, spec) \/ EditObject(n, spec)
     \/ DeleteObject(n)
  /\ UNCHANGED <<backup, remoteVars>>

SyncObject(n) == Sync(n) /\ UNCHANGED <<backup, remoteVars>>

ResyncAll(c) == Resync(c) /\ UNCHANGED <<backup, remoteVars>>

Restart ==
  /\ ManagerRestart
  /\ cachedSecret' = secret
  /\ UNCHANGED <<backup, secret, answers, restore, answered>>

Reconcile(n) ==
  /\ UNCHANGED backup
  /\ \/ n \in Locations /\ ReconcileLocation(n) /\ UNCHANGED remoteVars
     \/ n \in Remotes /\ ReconcileRemote(n)

Validate == (ReadSecret \/ Probe \/ ProbeFails) /\ UNCHANGED backup

Update(c) ==
  (UpdateStatus(c) \/ UpdateStatusFails(c)) /\ UNCHANGED <<backup, remoteVars>>

BackupStep == (ControllerResolves \/ WorkerResolves) /\ UNCHANGED remoteVars

RestoreStep ==
  ((\E n \in Remotes : GetRemote(n)) \/ GetRemoteSecret) /\ UNCHANGED backup

CacheSecret == SyncSecret /\ UNCHANGED backup

OutsideStep ==
  /\ (\E data \in Secrets : SecretChanges(data)) \/ (\E a \in Answers : AnswersChange(a))
  /\ \E n \in Remotes : n \in DOMAIN objects
  /\ UNCHANGED backup

Next ==
  \/ \E n \in Locations \cup Remotes : UserStep(n) \/ SyncObject(n) \/ Reconcile(n)
  \/ \E c \in Controllers : ResyncAll(c) \/ Update(c)
  \/ Restart \/ Validate \/ BackupStep \/ RestoreStep \/ CacheSecret \/ OutsideStep

\* Events reach the cache, calls go on, and a workqueue serves every name in it.
\* The resync is assumed for RemoteClusters only: locations settle without it.
Fairness ==
  /\ \A n \in Locations \cup Remotes : WF_vars(SyncObject(n)) /\ SF_vars(Reconcile(n))
  /\ \A c \in Controllers : WF_vars(Update(c))
  /\ WF_vars(Validate) /\ WF_vars(CacheSecret) /\ WF_vars(ResyncAll("remote"))

Spec == Init /\ [][Next]_vars /\ Fairness

-----------------------------------------------------------------------------
PhasesOf(n) ==
  IF n \in Locations THEN {"", "Available", "Unavailable"}
  ELSE {"", "no secret", "no credentials", "no client", "unreachable", "reachable"}

\* The type invariant: phases are those the API declares, copies in the caches and in calls
\* are of specs users wrote, and a copy that is current equals the object.
TypeOK ==
  /\ edits \in 0..MaxEdits /\ failures \in 0..MaxFailures
  /\ queue \subseteq DOMAIN objects /\ answers \in Answers
  /\ secret \in Secrets /\ cachedSecret \in Secrets
  /\ \A n \in DOMAIN objects :
       /\ Present(n) => /\ objects[n].spec \in SpecsFor(n)
                        /\ objects[n].status.phase \in PhasesOf(n)
                        /\ objects[n].status.observedGeneration <= objects[n].generation
       /\ "cache" \in fresh[n] => cache[n] = objects[n]
       /\ "call" \in fresh[n] =>
            call[ControllerOf(n)] = None \/ call[ControllerOf(n)].name # n
              \/ call[ControllerOf(n)].read = objects[n]
  /\ \A c \in Controllers :
       call[c] # None => ControllerOf(call[c].name) = c /\ call[c].read # None

================================================================================

----------------------------- MODULE ConfigObjects -----------------------------
(***************************************************************************)
(* BackupStorageLocations and RemoteClusters in the API server, and what   *)
(* their two controllers share: an informer cache, a workqueue, one        *)
(* Reconcile call at a time, and the update of the status it ends with.    *)
(*                                                                         *)
(* As in BackupObjects, fresh[n] is the set of holders whose copy of n has *)
(* the current resourceVersion.  Of a status the phase (for a RemoteCluster*)
(* what its message says) and observedGeneration are kept.  LastValidated  *)
(* has a resolution of a second: whether a status that is otherwise the    *)
(* same is a write, with an event, or nothing at all is left open.         *)
(***************************************************************************)
EXTENDS Naturals, FiniteSets, Sequences

CONSTANTS
  Locations,    \* names of BackupStorageLocations
  Remotes,      \* names of RemoteClusters
  None,         \* no object, no call, no secret
  MaxEdits,     \* bound: changes by users and by the world outside
  MaxFailures   \* bound: calls that fail by themselves, and restarts

ASSUME ConfigAssumption ==
  /\ Locations \cap Remotes = {}
  /\ MaxEdits \in Nat /\ MaxFailures \in Nat

VARIABLES
  objects,      \* the objects there are; its domain are the names in use
  fresh,        \* holders of a current copy
  cache,        \* the informer cache
  queue,        \* the workqueues of both controllers
  call,         \* the Reconcile call of each controller
  edits,        \* changes so far
  failures      \* failures so far

configVars == <<objects, fresh, cache, queue, call, edits, failures>>

-----------------------------------------------------------------------------
Controllers == {"location", "remote"}

ControllerOf(n) == IF n \in Locations THEN "location" ELSE "remote"

Present(n) == n \in DOMAIN objects /\ objects[n] # None

NewObject(spec) ==
  [spec |-> spec, generation |-> 1, status |-> [phase |-> "", observedGeneration |-> 0]]

\* The status is about the spec the object has.
Observed(o) == o.status.observedGeneration = o.generation

Changes == edits < MaxEdits /\ edits' = edits + 1

Fails == failures < MaxFailures /\ failures' = failures + 1

Put(n, o) ==
  /\ objects' = [objects EXCEPT ![n] = o]
  /\ fresh' = [fresh EXCEPT ![n] = {}]

-----------------------------------------------------------------------------
(* Users.                                                                  *)

CreateObject(n, spec) ==
  /\ n \in DOMAIN objects /\ ~Present(n)
  /\ Changes /\ Put(n, NewObject(spec))
  /\ UNCHANGED <<cache, queue, call, failures>>

EditObject(n, spec) ==
  /\ Present(n) /\ spec # objects[n].spec
  /\ Changes
  /\ Put(n, [objects[n] EXCEPT !.spec = spec, !.generation = @ + 1])
  /\ UNCHANGED <<cache, queue, call, failures>>

DeleteObject(n) ==
  /\ Present(n)
  /\ Changes /\ Put(n, None)
  /\ UNCHANGED <<cache, queue, call, failures>>

-----------------------------------------------------------------------------
(* controller-runtime.                                                     *)

\* An event brings the current copy of n to the cache, and n to the queue.
Sync(n) ==
  /\ n \in DOMAIN objects /\ "cache" \notin fresh[n]
  /\ cache' = [cache EXCEPT ![n] = objects[n]]
  /\ fresh' = [fresh EXCEPT ![n] = @ \cup {"cache"}]
  /\ queue' = queue \cup {n}
  /\ UNCHANGED <<objects, call, edits, failures>>

Resync(controller) ==
  /\ queue' = queue \cup {n \in DOMAIN cache :
                            cache[n] # None /\ ControllerOf(n) = controller}
  /\ UNCHANGED <<objects, fresh, cache, call, edits, failures>>

\* A new manager fills its caches and reconciles all that it finds.
ManagerRestart ==
  /\ Fails
  /\ cache' = objects
  /\ fresh' = [n \in DOMAIN objects |-> {"cache"}]
  /\ queue' = {n \in DOMAIN objects : Present(n)}
  /\ call' = [c \in Controllers |-> None]
  /\ UNCHANGED <<objects, edits>>

-----------------------------------------------------------------------------
(* Reconcile.                                                              *)

\* The controller takes n from its queue and reads it from the cache; when it
\* is not there the call is over, otherwise it goes on as the given record.
Begin(n, next) ==
  LET c == ControllerOf(n) IN
  /\ n \in queue /\ call[c] = None
  /\ queue' = queue \ {n}
  /\ call' = [call EXCEPT ![c] = IF cache[n] = None THEN None ELSE next]
  /\ fresh' = [fresh EXCEPT ![n] =
                 IF "cache" \in @ THEN @ \cup {"call"} ELSE @ \ {"call"}]
  /\ UNCHANGED <<objects, cache, edits, failures>>

NewCall(n) ==
  [name |-> n, read |-> cache[n], pc |-> "update", phase |-> "", secret |-> None,
   config |-> None]

Updating(c) == call[c] # None /\ call[c].pc = "update"

StatusToWrite(c) ==
  [phase |-> call[c].phase, observedGeneration |-> call[c].read.generation]

UpdateAccepted(c) == Present(call[c].name) /\ "call" \in fresh[call[c].name]

\* Mutant: the status is written without regard to what was read.
UpdateStatusUnconditional(c) ==
  /\ Updating(c) /\ Present(call[c].name)
  /\ Put(call[c].name, [objects[call[c].name] EXCEPT !.status = StatusToWrite(c)])
  /\ call' = [call EXCEPT ![c] = None]
  /\ UNCHANGED <<cache, queue, edits, failures>>

UpdateStatus(c) ==
  /\ Updating(c) /\ UpdateAccepted(c)
  /\ LET n == call[c].name IN
       \/ Put(n, [objects[n] EXCEPT !.status = StatusToWrite(c)])
       \/ objects[n].status = StatusToWrite(c) /\ UNCHANGED <<objects, fresh>>
  /\ call' = [call EXCEPT ![c] = None]
  /\ UNCHANGED <<cache, queue, edits, failures>>

\* The RemoteCluster controller returns the error only when it has good news.
ErrorReturned(c) == c = "location" \/ call[c].phase = "reachable"

\* Mutant: the error is never returned.
UpdateStatusFailsSilently(c) ==
  /\ Updating(c)
  /\ IF UpdateAccepted(c) THEN Fails ELSE UNCHANGED failures
  /\ call' = [call EXCEPT ![c] = None]
  /\ UNCHANGED <<objects, fresh, cache, queue, edits>>

\* NotFound, Conflict or any other error; one that is returned is retried.
UpdateStatusFails(c) ==
  /\ Updating(c)
  /\ IF UpdateAccepted(c) THEN Fails ELSE UNCHANGED failures
  /\ call' = [call EXCEPT ![c] = None]
  /\ queue' = IF ErrorReturned(c) THEN queue \cup {call[c].name} ELSE queue
  /\ UNCHANGED <<objects, fresh, cache, edits>>

================================================================================

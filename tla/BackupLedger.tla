----------------------------- MODULE BackupLedger -----------------------------
(***************************************************************************)
(* What the status of a Backup promises to whoever restores from it.       *)
(*                                                                         *)
(* A name has at most one incarnation at a time; each has its own uid, and *)
(* its spec goes through generations.  Artifacts are put under locations   *)
(* at any time.  The artifactLocation of an incarnation is empty at first. *)
(* It is set, or replaced, only by the location of an artifact that was    *)
(* put there already and was made from this incarnation and from the       *)
(* generation its spec has at that moment, or by a location that only the  *)
(* process which wrote there can read; nothing else changes it while the   *)
(* incarnation lives.  Jobs, caches, retries and restarts do not appear.   *)
(***************************************************************************)
EXTENDS Naturals

CONSTANTS
  Names,       \* names of backups
  Artifacts,   \* records with at least a location, a uid and a generation
  Unshared,    \* locations that only the process that writes them can read
  Nowhere      \* the empty artifactLocation

VARIABLES
  last,        \* the last uid given
  current,     \* [uid, generation] of a name's incarnation; uid 0: none
  published,   \* the artifactLocation of a name's incarnation
  stored       \* the artifacts that were put where everyone can read them

ledger == <<last, current, published, stored>>

Gone == [uid |-> 0, generation |-> 0]

Init ==
  /\ last = 0
  /\ current = [n \in Names |-> Gone]
  /\ published = [n \in Names |-> Nowhere]
  /\ stored = {}

Create(n) ==
  /\ current[n] = Gone
  /\ last' = last + 1
  /\ current' = [current EXCEPT ![n] = [uid |-> last', generation |-> 1]]
  /\ published' = [published EXCEPT ![n] = Nowhere]
  /\ UNCHANGED stored

Edit(n) ==
  /\ current[n] # Gone
  /\ current' = [current EXCEPT ![n].generation = @ + 1]
  /\ UNCHANGED <<last, published, stored>>

Delete(n) ==
  /\ current[n] # Gone
  /\ current' = [current EXCEPT ![n] = Gone]
  /\ published' = [published EXCEPT ![n] = Nowhere]
  /\ UNCHANGED <<last, stored>>

Store(a) ==
  /\ a.location \notin Unshared
  /\ stored' = stored \cup {a}
  /\ UNCHANGED <<last, current, published>>

Publish(n, a) ==
  /\ a \in stored
  /\ current[n].uid = a.uid /\ current[n].generation = a.generation
  /\ published' = [published EXCEPT ![n] = a.location]
  /\ UNCHANGED <<last, current, stored>>

PublishUnshared(n, l) ==
  /\ current[n] # Gone
  /\ published' = [published EXCEPT ![n] = l]
  /\ UNCHANGED <<last, current, stored>>

Next ==
  \/ \E n \in Names : Create(n) \/ Edit(n) \/ Delete(n)
  \/ \E a \in Artifacts : Store(a) \/ \E n \in Names : Publish(n, a)
  \/ \E l \in Unshared, n \in Names : PublishUnshared(n, l)

Spec == Init /\ [][Next]_ledger
=============================================================================

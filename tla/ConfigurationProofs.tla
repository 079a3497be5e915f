-------------------------- MODULE ConfigurationProofs --------------------------
(***************************************************************************)
(* Theorems about Configuration, for any storage locations, remote         *)
(* clusters, specs, secrets, answers and initial states, and any bounds.   *)
(***************************************************************************)
EXTENDS Configuration, FiniteSetTheorems, TLAPS

-----------------------------------------------------------------------------
(* The inductive invariant.                                                *)

Names == DOMAIN objects

Phases == {"", "Available", "Unavailable", "no secret", "no credentials", "no client",
           "unreachable", "reachable"}

Statuses == [phase : Phases, observedGeneration : Nat]

Stored == [spec : LocationSpecs \cup RemoteSpecs, generation : Nat, status : Statuses]

Configs ==
  {None} \cup {BuildRemoteConfig(spec, data) : spec \in RemoteSpecs,
                                               data \in Secrets \ {None}}

CallSteps == {"secret", "probe", "update"}

Calls == [name : Locations \cup Remotes, read : Stored, pc : CallSteps,
          phase : Phases, secret : Secrets \cup {None}, config : Configs]

Answereds == [spec : RemoteSpecs, secret : Secrets \cup {None}, config : Configs]

Restores == [pc : {"starting", "secret", "configured", "failed"},
             remote : Stored \cup {None}, secret : Secrets \cup {None},
             config : Configs]

Typed ==
  /\ edits \in 0..MaxEdits /\ failures \in 0..MaxFailures
  /\ Names \subseteq Locations \cup Remotes
  /\ objects \in [Names -> Stored \cup {None}]
  /\ cache \in [Names -> Stored \cup {None}]
  /\ fresh \in [Names -> SUBSET {"cache", "call"}]
  /\ queue \subseteq Names
  /\ call \in [Controllers -> Calls \cup {None}]
  /\ secret \in Secrets /\ cachedSecret \in Secrets /\ answers \in Answers
  /\ restore \in Restores /\ answered \subseteq Answereds

\* A configuration of this spec has been answered.
WasAnswered(spec) ==
  \E a \in answered : a.spec = spec /\ a.config = BuildRemoteConfig(spec, a.secret)

\* A status of the present generation is about the present spec.
ObjectIsTrue(n, o) ==
  /\ o.spec \in SpecsFor(n)
  /\ o.status.phase \in PhasesOf(n)
  /\ o.status.observedGeneration <= o.generation
  /\ Observed(o) /\ o.status.phase = "Available" => ValidatedPhase(o.spec) = "Available"
  /\ SaysReachable(o) => WasAnswered(o.spec)

\* A call carries the verdict on the spec it has read.
CallIsTrue(c) ==
  /\ call[c].name \in Names /\ ControllerOf(call[c].name) = c
  /\ call[c].read # None /\ call[c].read.spec \in SpecsFor(call[c].name)
  /\ call[c].phase \in PhasesOf(call[c].name)
  /\ call[c].phase = "Available" => ValidatedPhase(call[c].read.spec) = "Available"
  /\ call[c].phase = "reachable" => WasAnswered(call[c].read.spec)
  /\ call[c].pc = "probe" =>
       c = "remote" /\ call[c].config = BuildRemoteConfig(call[c].read.spec, call[c].secret)
  /\ "call" \in fresh[call[c].name] => call[c].read = objects[call[c].name]

CacheIsTrue ==
  \A n \in Names :
    /\ cache[n] # None => cache[n].spec \in SpecsFor(n)
    /\ "cache" \in fresh[n] => cache[n] = objects[n]

\* A worker's configuration is the one its RemoteCluster and secret stand for.
TargetIsTrue(r) ==
  /\ r.pc \in {"secret", "configured"} =>
       /\ r.remote # None /\ r.remote.spec \in RemoteSpecs
       /\ SaysReachable(r.remote) => WasAnswered(r.remote.spec)
  /\ r.pc = "configured" => r.config = BuildRemoteConfig(r.remote.spec, r.secret)

RestoreIsTrue == \A r \in {restore} : TargetIsTrue(r)

IInv ==
  /\ Typed
  /\ \A n \in Names : \A o \in {objects[n]} \ {None} : ObjectIsTrue(n, o)
  /\ \A c \in Controllers : call[c] # None => CallIsTrue(c)
  /\ CacheIsTrue /\ RestoreIsTrue

-----------------------------------------------------------------------------
(* What the functions of the controllers and of the worker return.         *)

\* The two builders of a remote cluster's configuration are one function.
LEMMA BuildersAgree ==
  \A spec, data : BuildRemoteConfigForRestore(spec, data) = BuildRemoteConfig(spec, data)
<1> SUFFICES ASSUME NEW spec, NEW data
             PROVE  BuildRemoteConfigForRestore(spec, data) = BuildRemoteConfig(spec, data)
  OBVIOUS
<1>1. CASE spec.method = "Kubeconfig"
  BY <1>1, Zenon DEF BuildRemoteConfig, BuildRemoteConfigForRestore
<1>2. CASE spec.method \in {"ServiceAccountToken", ""}
  BY <1>2, Zenon DEF BuildRemoteConfig, BuildRemoteConfigForRestore
<1>3. CASE spec.method \notin {"Kubeconfig", "ServiceAccountToken", ""}
  BY <1>3, Zenon DEF BuildRemoteConfig, BuildRemoteConfigForRestore
<1> QED
  BY <1>1, <1>2, <1>3, Zenon

\* What passes validation has all that a pod and a worker ask for.
LEMMA AvailableComplete ==
  ASSUME NEW spec, ValidatedPhase(spec) = "Available"
  PROVE  PodBuilds(spec) /\ HasConfig(spec)
<1>1. CASE spec.type = "s3" /\ "s3" \in spec.parts /\ spec.bucket # ""
  BY <1>1, Zenon DEF PodBuilds, HasConfig
<1>2. CASE spec.type = "nfs" /\ "nfs" \in spec.parts /\ spec.server # "" /\ spec.path # ""
  BY <1>2, Zenon DEF PodBuilds, HasConfig
<1> QED
  BY <1>1, <1>2, Zenon DEF ValidatedPhase

LEMMA ValidatedPhases ==
  \A spec : ValidatedPhase(spec) \in {"Available", "Unavailable"}
  BY Zenon DEF ValidatedPhase

LEMMA ConfigPhases ==
  ASSUME NEW spec, NEW data
  PROVE  ConfigPhase(spec, data) \in {"", "no secret", "no credentials", "no client"}
<1>1. CASE data = None
  BY <1>1, Zenon DEF ConfigPhase
<1>2. CASE data # None /\ BuildRemoteConfig(spec, data) = None
  BY <1>2, Zenon DEF ConfigPhase
<1>3. CASE data # None /\ BuildRemoteConfig(spec, data) # None
  BY <1>3, Zenon DEF ConfigPhase
<1> QED
  BY <1>1, <1>2, <1>3, Zenon

LEMMA PhaseFacts ==
  /\ \A n : "" \in PhasesOf(n) /\ PhasesOf(n) \subseteq Phases
  /\ \A n \in Locations : {"Available", "Unavailable"} \subseteq PhasesOf(n)
  /\ \A n \in Locations : "reachable" \notin PhasesOf(n)
  /\ \A n : n \notin Locations =>
       /\ {"unreachable", "reachable"} \subseteq PhasesOf(n)
       /\ \A spec, data : ConfigPhase(spec, data) \in PhasesOf(n)
       /\ "Available" \notin PhasesOf(n)
  /\ \A spec, data : ConfigPhase(spec, data) \notin {"reachable", "Available"}
  /\ "" # "Available" /\ "" # "reachable"
<1>1. \A n : PhasesOf(n) \subseteq Phases
  BY Zenon DEF PhasesOf, Phases
<1>2. \A spec, data : ConfigPhase(spec, data) \notin {"reachable", "Available"}
  BY ConfigPhases, Zenon
<1>3. \A n : "" \in PhasesOf(n)
  BY Zenon DEF PhasesOf
<1>4. \A n \in Locations : {"Available", "Unavailable"} \subseteq PhasesOf(n)
  BY Zenon DEF PhasesOf
<1>5. \A n \in Locations : "reachable" \notin PhasesOf(n)
  BY Zenon DEF PhasesOf
<1>6. \A n : n \notin Locations => {"unreachable", "reachable"} \subseteq PhasesOf(n)
  BY Zenon DEF PhasesOf
<1>7. \A n : n \notin Locations => "Available" \notin PhasesOf(n)
  BY Zenon DEF PhasesOf
<1>8. \A n : n \notin Locations => \A spec, data : ConfigPhase(spec, data) \in PhasesOf(n)
  BY ConfigPhases, Zenon DEF PhasesOf
<1> QED
  BY <1>1, <1>2, <1>3, <1>4, <1>5, <1>6, <1>7, <1>8, Zenon

-----------------------------------------------------------------------------
(* The beginning.                                                          *)

LEMMA NewObjectFacts ==
  ASSUME NEW n \in Locations \cup Remotes, NEW spec \in SpecsFor(n)
  PROVE  NewObject(spec) \in Stored /\ ObjectIsTrue(n, NewObject(spec))
<1> DEFINE status(phase) == [phase |-> phase, observedGeneration |-> 0]
           new(phase) == [spec |-> spec, generation |-> 1, status |-> status(phase)]
<1>1. NewObject(spec) = new("")
  BY Zenon DEF NewObject
<1>2. "" \in Phases /\ "" \in PhasesOf(n)
  BY PhaseFacts, Zenon
<1>3. ASSUME NEW phase \in Phases, phase \in PhasesOf(n)
      PROVE  new(phase) \in Stored /\ ObjectIsTrue(n, new(phase))
  <2>1. spec \in LocationSpecs \cup RemoteSpecs
    BY DEF SpecsFor
  <2>2. status(phase) \in Statuses
    BY DEF Statuses
  <2>3. new(phase) \in Stored
    BY <2>1, <2>2 DEF Stored
  <2>4. /\ new(phase).spec = spec /\ new(phase).status.phase = phase
        /\ new(phase).status.observedGeneration = 0 /\ new(phase).generation = 1
    OBVIOUS
  <2> HIDE DEF new
  <2>5. ~Observed(new(phase))
    BY <2>4 DEF Observed
  <2> QED
    BY <1>3, <2>3, <2>4, <2>5 DEF ObjectIsTrue, SaysReachable
<1> HIDE DEF new
<1> QED
  BY <1>1, <1>2, <1>3, PhaseFacts, Zenon

LEMMA InitIInv == Init => IInv
<1> SUFFICES ASSUME Init PROVE IInv
  OBVIOUS
<1>1. PICK s \in Scenarios :
        /\ objects = s.objects /\ cache = s.objects
        /\ fresh = [n \in DOMAIN s.objects |-> {"cache"}]
        /\ queue = {n \in DOMAIN s.objects : s.objects[n] # None}
        /\ secret = s.secret /\ cachedSecret = s.secret /\ answers = s.answers
  BY DEF Init
<1>2. /\ call = [c \in Controllers |-> None] /\ edits = 0 /\ failures = 0
      /\ restore = NewRestore /\ answered = {}
  BY DEF Init
<1>3. \A n \in Names : objects[n] = None \/ \E spec \in SpecsFor(n) : objects[n] = NewObject(spec)
  BY <1>1, ScenariosAssumption DEF Names
<1>4. Names \subseteq Locations \cup Remotes /\ objects = [n \in Names |-> objects[n]]
  BY <1>1, ScenariosAssumption DEF Names
<1>5. \A n \in Names : objects[n] # None => objects[n] \in Stored /\ ObjectIsTrue(n, objects[n])
  BY <1>3, <1>4, NewObjectFacts
<1>6. Typed
  <2>1. objects \in [Names -> Stored \cup {None}]
    BY <1>4, <1>5
  <2>2. restore \in Restores
    BY <1>2 DEF NewRestore, Restores, Configs
  <2>3. cache = objects /\ secret \in Secrets /\ cachedSecret \in Secrets /\ answers \in Answers
    BY <1>1, ScenariosAssumption
  <2>4. edits \in 0..MaxEdits /\ failures \in 0..MaxFailures
    BY <1>2, ConfigAssumption
  <2>5. fresh \in [Names -> SUBSET {"cache", "call"}] /\ queue \subseteq Names
    BY <1>1 DEF Names
  <2> QED
    BY <1>2, <1>4, <2>1, <2>2, <2>3, <2>4, <2>5 DEF Typed
<1>7. CacheIsTrue
  BY <1>1, <1>5 DEF CacheIsTrue, ObjectIsTrue
<1>8. RestoreIsTrue
  BY <1>2 DEF RestoreIsTrue, TargetIsTrue, NewRestore
<1> QED
  BY <1>2, <1>5, <1>6, <1>7, <1>8 DEF IInv

-----------------------------------------------------------------------------
(* Users.                                                                  *)

\* What has been answered stays answered.
LEMMA AnswersStay ==
  ASSUME answered \subseteq answered'
  PROVE  /\ \A spec : WasAnswered(spec) => WasAnswered(spec)'
         /\ \A n, o : ObjectIsTrue(n, o) => ObjectIsTrue(n, o)'
<1>1. \A spec : WasAnswered(spec) => WasAnswered(spec)'
  BY DEF WasAnswered
<1> QED
  BY <1>1 DEF ObjectIsTrue

LEMMA PutFacts ==
  ASSUME Typed, NEW n \in Names, NEW o \in Stored \cup {None}, Put(n, o)
  PROVE  /\ Names' = Names
         /\ objects' \in [Names -> Stored \cup {None}]
         /\ fresh' \in [Names -> SUBSET {"cache", "call"}]
         /\ objects'[n] = o /\ fresh'[n] = {}
         /\ \A m \in Names \ {n} : objects'[m] = objects[m] /\ fresh'[m] = fresh[m]
  BY DEF Typed, Put, Names

\* A write of a true object, which leaves only stale copies, keeps the invariant.
LEMMA UserWrite ==
  ASSUME IInv, NEW n \in Names, NEW o \in Stored \cup {None}, Put(n, o),
         o # None => ObjectIsTrue(n, o), edits' \in 0..MaxEdits,
         UNCHANGED <<cache, queue, call, failures, backup, remoteVars>>
  PROVE  IInv'
<1>0. Typed
  BY DEF IInv
<1>1. /\ Names' = Names
      /\ objects' \in [Names -> Stored \cup {None}]
      /\ fresh' \in [Names -> SUBSET {"cache", "call"}]
      /\ objects'[n] = o /\ fresh'[n] = {}
      /\ \A m \in Names \ {n} : objects'[m] = objects[m] /\ fresh'[m] = fresh[m]
  BY <1>0, PutFacts
<1>2. Typed'
  BY <1>0, <1>1 DEF Typed, remoteVars
<1>3. /\ \A spec : WasAnswered(spec) => WasAnswered(spec)'
      /\ \A m, x : ObjectIsTrue(m, x) => ObjectIsTrue(m, x)'
  BY AnswersStay DEF remoteVars
<1>4. \A m \in Names' : \A x \in {objects'[m]} \ {None} : ObjectIsTrue(m, x)'
  BY <1>1, <1>3 DEF IInv
<1>5. \A c \in Controllers : call'[c] # None => CallIsTrue(c)'
  BY <1>1, <1>3 DEF IInv, CallIsTrue
<1>6. CacheIsTrue'
  BY <1>1 DEF IInv, CacheIsTrue
<1>7. RestoreIsTrue'
  BY <1>3 DEF IInv, RestoreIsTrue, TargetIsTrue, remoteVars
<1> QED
  BY <1>2, <1>4, <1>5, <1>6, <1>7 DEF IInv

LEMMA UserKeepsIInv ==
  ASSUME IInv, NEW n \in Locations \cup Remotes, UserStep(n)
  PROVE  IInv'
<1>0. Typed /\ UNCHANGED <<backup, remoteVars>>
  BY DEF IInv, UserStep
<1>1. ASSUME Changes PROVE edits' \in 0..MaxEdits
  BY <1>0, <1>1, ConfigAssumption DEF Changes, Typed
<1>2. ASSUME NEW spec \in SpecsFor(n), CreateObject(n, spec) PROVE IInv'
  <2>1. n \in Names /\ Put(n, NewObject(spec)) /\ UNCHANGED <<cache, queue, call, failures>>
    BY <1>2 DEF CreateObject, Names
  <2>2. edits' \in 0..MaxEdits
    BY <1>1, <1>2 DEF CreateObject
  <2> QED
    BY <1>0, <2>1, <2>2, NewObjectFacts, UserWrite
<1>3. ASSUME NEW spec \in SpecsFor(n), EditObject(n, spec) PROVE IInv'
  <2> DEFINE o == [objects[n] EXCEPT !.spec = spec, !.generation = @ + 1]
  <2>1. n \in Names /\ objects[n] # None /\ Put(n, o)
        /\ UNCHANGED <<cache, queue, call, failures>>
    BY <1>3 DEF EditObject, Present, Names
  <2>2. edits' \in 0..MaxEdits
    BY <1>1, <1>3 DEF EditObject
  <2>3. objects[n] \in Stored /\ ObjectIsTrue(n, objects[n])
    BY <1>0, <2>1 DEF IInv, Typed
  <2>4. spec \in LocationSpecs \cup RemoteSpecs
    BY DEF SpecsFor
  <2>5. /\ o \in Stored /\ o.spec = spec /\ o.status = objects[n].status
        /\ o.generation = objects[n].generation + 1
    <3>1. ASSUME NEW x \in Stored, NEW g \in Nat
          PROVE  LET y == [x EXCEPT !.spec = spec, !.generation = g]
                 IN  y \in Stored /\ y.spec = spec /\ y.status = x.status /\ y.generation = g
      BY <2>4 DEF Stored
    <3>2. objects[n].generation + 1 \in Nat
      BY <2>3 DEF Stored
    <3> QED
      BY <2>3, <3>1, <3>2
  <2>6. ~Observed(o)
    BY <2>3, <2>5 DEF Observed, ObjectIsTrue, Stored, Statuses
  <2>7. o.status.observedGeneration <= o.generation
    BY <2>3, <2>5 DEF ObjectIsTrue, Stored, Statuses
  <2> HIDE DEF o
  <2>8. ObjectIsTrue(n, o)
    BY <2>3, <2>5, <2>6, <2>7 DEF ObjectIsTrue, SaysReachable
  <2> QED
    BY <1>0, <2>1, <2>2, <2>5, <2>8, UserWrite
<1>4. CASE DeleteObject(n)
  <2>1. n \in Names /\ Put(n, None) /\ UNCHANGED <<cache, queue, call, failures>>
    BY <1>4 DEF DeleteObject, Present, Names
  <2>2. edits' \in 0..MaxEdits
    BY <1>1, <1>4 DEF DeleteObject
  <2> QED
    BY <1>0, <2>1, <2>2, UserWrite
<1> QED
  BY <1>2, <1>3, <1>4 DEF UserStep

-----------------------------------------------------------------------------
(* controller-runtime.                                                     *)

LEMMA SyncKeepsIInv ==
  ASSUME IInv, NEW n \in Locations \cup Remotes, SyncObject(n)
  PROVE  IInv'
<1>0. Typed /\ n \in Names /\ UNCHANGED <<objects, call, edits, failures, remoteVars>>
  BY DEF IInv, SyncObject, Sync, Names
<1>1. /\ cache' = [cache EXCEPT ![n] = objects[n]]
      /\ fresh' = [fresh EXCEPT ![n] = @ \cup {"cache"}]
      /\ queue' = queue \cup {n}
  BY DEF SyncObject, Sync
<1>2. Names' = Names
  BY <1>0 DEF Names
<1>3. Typed'
  BY <1>0, <1>1, <1>2 DEF Typed, remoteVars
<1>4. /\ \A spec : WasAnswered(spec) => WasAnswered(spec)'
      /\ \A m, x : ObjectIsTrue(m, x) => ObjectIsTrue(m, x)'
  BY <1>0, AnswersStay DEF remoteVars
<1>5. \A m \in Names : "call" \in fresh'[m] <=> "call" \in fresh[m]
  BY <1>0, <1>1 DEF Typed
<1>6. \A m \in Names' : \A x \in {objects'[m]} \ {None} : ObjectIsTrue(m, x)'
  BY <1>0, <1>2, <1>4 DEF IInv
<1>7. \A c \in Controllers : call'[c] # None => CallIsTrue(c)'
  BY <1>0, <1>2, <1>4, <1>5 DEF IInv, CallIsTrue
<1>8. CacheIsTrue'
  BY <1>0, <1>1, <1>2 DEF IInv, CacheIsTrue, Typed, ObjectIsTrue
<1>9. RestoreIsTrue'
  BY <1>0, <1>4 DEF IInv, RestoreIsTrue, TargetIsTrue, remoteVars
<1> QED
  BY <1>3, <1>6, <1>7, <1>8, <1>9 DEF IInv

LEMMA RestartKeepsIInv ==
  ASSUME IInv, Restart
  PROVE  IInv'
<1>0. Typed /\ UNCHANGED <<objects, edits, secret, answers, restore, answered>>
  BY DEF IInv, Restart, ManagerRestart
<1>1. /\ cache' = objects /\ fresh' = [n \in Names |-> {"cache"}]
      /\ queue' = {n \in Names : Present(n)}
      /\ call' = [c \in Controllers |-> None]
      /\ failures' \in 0..MaxFailures /\ cachedSecret' = secret
  BY <1>0, ConfigAssumption DEF Restart, ManagerRestart, Names, Fails, Typed
<1>2. Names' = Names
  BY <1>0 DEF Names
<1>3. Typed'
  BY <1>0, <1>1, <1>2 DEF Typed
<1>4. /\ \A spec : WasAnswered(spec) => WasAnswered(spec)'
      /\ \A m, x : ObjectIsTrue(m, x) => ObjectIsTrue(m, x)'
  BY <1>0, AnswersStay
<1>6. \A m \in Names' : \A x \in {objects'[m]} \ {None} : ObjectIsTrue(m, x)'
  BY <1>0, <1>2, <1>4 DEF IInv
<1>7. \A c \in Controllers : call'[c] # None => CallIsTrue(c)'
  BY <1>1
<1>8. CacheIsTrue'
  BY <1>0, <1>1, <1>2 DEF IInv, CacheIsTrue, Typed, ObjectIsTrue
<1>9. RestoreIsTrue'
  BY <1>0, <1>4 DEF IInv, RestoreIsTrue, TargetIsTrue
<1> QED
  BY <1>3, <1>6, <1>7, <1>8, <1>9 DEF IInv

\* Steps that leave objects, their copies, calls, restores and answers alone.
LEMMA OutsideKeepsIInv ==
  ASSUME IInv, UNCHANGED <<objects, fresh, cache, call, restore, answered>>,
         queue' \subseteq Names, edits' \in 0..MaxEdits, failures' \in 0..MaxFailures,
         secret' \in Secrets, cachedSecret' \in Secrets, answers' \in Answers
  PROVE  IInv'
<1>1. Names' = Names
  BY DEF Names
<1>2. Typed'
  BY <1>1 DEF IInv, Typed
<1>3. /\ \A spec : WasAnswered(spec) => WasAnswered(spec)'
      /\ \A m, x : ObjectIsTrue(m, x) => ObjectIsTrue(m, x)'
  BY AnswersStay
<1>4. \A m \in Names' : \A x \in {objects'[m]} \ {None} : ObjectIsTrue(m, x)'
  BY <1>1, <1>3 DEF IInv
<1>5. \A c \in Controllers : call'[c] # None => CallIsTrue(c)'
  BY <1>1, <1>3 DEF IInv, CallIsTrue
<1>6. CacheIsTrue'
  BY <1>1 DEF IInv, CacheIsTrue
<1>7. RestoreIsTrue'
  BY <1>3 DEF IInv, RestoreIsTrue, TargetIsTrue
<1> QED
  BY <1>2, <1>4, <1>5, <1>6, <1>7 DEF IInv

-----------------------------------------------------------------------------
(* Reconcile.                                                              *)

\* A step of the call of one controller, which may add to what was answered.
LEMMA CallStep ==
  ASSUME IInv, NEW c \in Controllers, NEW next \in Calls \cup {None},
         call' = [call EXCEPT ![c] = next], next # None => CallIsTrue(c)',
         UNCHANGED <<objects, cache, edits, secret, cachedSecret, answers, restore>>,
         queue' \subseteq Names, failures' \in 0..MaxFailures,
         answered \subseteq answered', answered' \subseteq Answereds,
         fresh' \in [Names -> SUBSET {"cache", "call"}],
         \A m \in Names : "cache" \in fresh'[m] => "cache" \in fresh[m],
         \A m \in Names :
           ControllerOf(m) # c /\ "call" \in fresh'[m] => "call" \in fresh[m]
  PROVE  IInv'
<1>1. Names' = Names
  BY DEF Names
<1>2. Typed'
  BY <1>1 DEF IInv, Typed
<1>3. /\ \A spec : WasAnswered(spec) => WasAnswered(spec)'
      /\ \A m, x : ObjectIsTrue(m, x) => ObjectIsTrue(m, x)'
  BY AnswersStay
<1>4. \A m \in Names' : \A x \in {objects'[m]} \ {None} : ObjectIsTrue(m, x)'
  BY <1>1, <1>3 DEF IInv
<1>5. ASSUME NEW d \in Controllers, d # c, call'[d] # None
      PROVE  CallIsTrue(d)'
  <2>1. call'[d] = call[d] /\ CallIsTrue(d)
    BY <1>5 DEF IInv, Typed
  <2> QED
    BY <1>1, <1>3, <1>5, <2>1 DEF CallIsTrue
<1>6. call'[c] = next
  BY DEF IInv, Typed
<1>7. \A d \in Controllers : call'[d] # None => CallIsTrue(d)'
  BY <1>5, <1>6
<1>8. CacheIsTrue'
  BY <1>1 DEF IInv, CacheIsTrue
<1>9. RestoreIsTrue'
  BY <1>3 DEF IInv, RestoreIsTrue, TargetIsTrue
<1> QED
  BY <1>2, <1>4, <1>7, <1>8, <1>9 DEF IInv

LEMMA BeginKeepsIInv ==
  ASSUME IInv, NEW n, NEW next, Begin(n, next), UNCHANGED remoteVars,
         cache[n] # None =>
           /\ next \in Calls /\ next.name = n /\ next.read = cache[n] /\ next.pc # "probe"
           /\ next.phase \in PhasesOf(n) /\ next.phase # "reachable"
           /\ next.phase = "Available" => ValidatedPhase(next.read.spec) = "Available"
  PROVE  IInv'
<1> DEFINE c == ControllerOf(n)
<1>0. Typed /\ n \in Names /\ c \in Controllers
  BY DEF IInv, Typed, Begin, ControllerOf, Controllers
<1>1. /\ call' = [call EXCEPT ![c] = IF cache[n] = None THEN None ELSE next]
      /\ fresh' = [fresh EXCEPT ![n] =
                     IF "cache" \in @ THEN @ \cup {"call"} ELSE @ \ {"call"}]
      /\ UNCHANGED <<objects, cache, edits, failures>>
      /\ queue' \subseteq Names
  BY <1>0 DEF Begin, Typed
<1>2. /\ fresh' \in [Names -> SUBSET {"cache", "call"}]
      /\ \A m \in Names : "cache" \in fresh'[m] => "cache" \in fresh[m]
      /\ \A m \in Names \ {n} : fresh'[m] = fresh[m]
      /\ "call" \in fresh'[n] => "cache" \in fresh[n]
  BY <1>0, <1>1 DEF Typed
<1>3. CASE cache[n] = None
  <2>1. call' = [call EXCEPT ![c] = None]
    BY <1>1, <1>3
  <2> QED
    BY <1>0, <1>1, <1>2, <2>1, CallStep DEF Typed, remoteVars
<1>4. CASE cache[n] # None
  <2>1. call' = [call EXCEPT ![c] = next] /\ call'[c] = next
    BY <1>0, <1>1, <1>4 DEF Typed
  <2>2. "cache" \in fresh[n] => cache[n] = objects[n]
    BY <1>0 DEF IInv, CacheIsTrue
  <2>3. cache[n].spec \in SpecsFor(n)
    BY <1>0, <1>4 DEF IInv, CacheIsTrue
  <2>4. CallIsTrue(c)'
    BY <1>0, <1>1, <1>2, <1>4, <2>1, <2>2, <2>3 DEF CallIsTrue, Names
  <2> QED
    BY <1>0, <1>1, <1>2, <1>4, <2>1, <2>4, CallStep DEF Typed, remoteVars
<1> QED
  BY <1>3, <1>4

LEMMA ReconcileKeepsIInv ==
  ASSUME IInv, NEW n \in Locations \cup Remotes, Reconcile(n)
  PROVE  IInv'
<1> DEFINE first(pc, phase) ==
      [name |-> n, read |-> cache[n], pc |-> pc, phase |-> phase, secret |-> None,
       config |-> None]
<1>0. Typed /\ n \in queue /\ n \in Names
  BY DEF IInv, Typed, Reconcile, ReconcileLocation, ReconcileRemote, Begin
<1>1. ASSUME NEW pc \in {"secret", "update"}, NEW phase \in Phases
      PROVE  /\ cache[n] # None => first(pc, phase) \in Calls
             /\ first(pc, phase).name = n /\ first(pc, phase).read = cache[n]
             /\ first(pc, phase).pc = pc /\ first(pc, phase).phase = phase
  BY <1>0 DEF Typed, Calls, CallSteps, Configs
<1>2. NewCall(n) = first("update", "")
  BY Zenon DEF NewCall
<1>3. \A p, q : /\ [first("update", p) EXCEPT !.phase = q] = first("update", q)
               /\ [first("update", p) EXCEPT !.pc = "secret"] = first("secret", p)
  OBVIOUS
<1> HIDE DEF first
<1>4. CASE n \in Locations /\ ReconcileLocation(n) /\ UNCHANGED remoteVars
  <2> DEFINE phase == ValidatedPhase(cache[n].spec)
  <2>1. phase \in {"Available", "Unavailable"}
    BY ValidatedPhases
  <2>2. phase \in Phases /\ phase \in PhasesOf(n) /\ phase # "reachable"
    BY <1>4, <2>1, PhaseFacts
  <2>3. [NewCall(n) EXCEPT !.phase = phase] = first("update", phase)
    BY <1>2, <1>3, Zenon
  <2>4. Begin(n, first("update", phase))
    BY <1>4, <2>3 DEF ReconcileLocation
  <2> QED
    BY <1>1, <1>4, <2>2, <2>4, BeginKeepsIInv
<1>5. CASE ReconcileRemote(n)
  <2> DEFINE phase == ""
  <2>1. phase \in Phases /\ phase \in PhasesOf(n) /\ phase # "reachable" /\ phase # "Available"
    BY PhaseFacts, Zenon
  <2>2. [NewCall(n) EXCEPT !.pc = "secret"] = first("secret", phase)
    BY <1>2, <1>3, Zenon
  <2> HIDE DEF phase
  <2>3. Begin(n, first("secret", phase)) /\ UNCHANGED remoteVars
    BY <1>5, <2>2, Zenon DEF ReconcileRemote
  <2> QED
    BY <1>1, <2>1, <2>3, BeginKeepsIInv
<1> QED
  BY <1>4, <1>5 DEF Reconcile

-----------------------------------------------------------------------------
(* The validation of a RemoteCluster.                                      *)

LEMMA RemoteCallFacts ==
  ASSUME IInv, call["remote"] # None
  PROVE  /\ "remote" \in Controllers
         /\ call["remote"] \in Calls /\ CallIsTrue("remote")
         /\ call["remote"].name \notin Locations
         /\ call["remote"].read.spec \in RemoteSpecs
<1>1. "remote" \in Controllers
  BY DEF Controllers
<1>2. call["remote"] \in Calls /\ CallIsTrue("remote")
  BY <1>1 DEF IInv, Typed
<1>3. call["remote"].name \notin Locations
  BY <1>2 DEF CallIsTrue, ControllerOf
<1> QED
  BY <1>1, <1>2, <1>3 DEF CallIsTrue, SpecsFor

LEMMA RemoteStep ==
  ASSUME IInv, call["remote"] # None, NEW next \in Calls, ToCall(next), UNCHANGED backup,
         next.name = call["remote"].name, next.read = call["remote"].read,
         failures' \in 0..MaxFailures,
         answered \subseteq answered', answered' \subseteq Answereds,
         next.phase \in PhasesOf(next.name), next.phase # "Available",
         next.phase = "reachable" => WasAnswered(next.read.spec)',
         next.pc = "probe" => next.config = BuildRemoteConfig(next.read.spec, next.secret)
  PROVE  IInv'
<1>1. "remote" \in Controllers /\ CallIsTrue("remote")
  BY RemoteCallFacts
<1>2. /\ call' = [call EXCEPT !["remote"] = next]
      /\ UNCHANGED <<objects, fresh, cache, queue, edits, secret, cachedSecret, answers,
                     restore>>
  BY DEF ToCall
<1>3. call'["remote"] = next
  BY <1>1, <1>2 DEF IInv, Typed
<1>4. CallIsTrue("remote")'
  BY <1>1, <1>2, <1>3 DEF CallIsTrue, Names
<1> QED
  BY <1>1, <1>2, <1>4, CallStep DEF IInv, Typed

LEMMA FailsTyped ==
  ASSUME IInv, Fails \/ UNCHANGED failures
  PROVE  failures' \in 0..MaxFailures
  BY ConfigAssumption DEF Fails, IInv, Typed

LEMMA ReadSecretKeepsIInv ==
  ASSUME IInv, ReadSecret, UNCHANGED backup
  PROVE  IInv'
<1> DEFINE c == call["remote"]
           phase == ConfigPhase(c.read.spec, cachedSecret)
           config == BuildRemoteConfig(c.read.spec, cachedSecret)
           told == [c EXCEPT !.pc = "update", !.phase = phase]
           asking == [c EXCEPT !.pc = "probe", !.secret = cachedSecret, !.config = config]
<1>1. c # None /\ c.pc = "secret" /\ UNCHANGED <<failures, answered>>
  BY DEF ReadSecret
<1>2. c \in Calls /\ CallIsTrue("remote") /\ c.name \notin Locations /\ c.read.spec \in RemoteSpecs
  BY <1>1, RemoteCallFacts
<1>3. failures' \in 0..MaxFailures /\ answered' \subseteq Answereds
  BY <1>1 DEF IInv, Typed
<1>4. CASE phase # ""
  <2>1. phase \in PhasesOf(c.name) /\ phase \in Phases
        /\ phase # "reachable" /\ phase # "Available"
    BY <1>2, PhaseFacts
  <2>2. ToCall(told)
    BY <1>4, Zenon DEF ReadSecret
  <2> HIDE DEF phase
  <2>3. told \in Calls /\ told.pc = "update" /\ told.phase = phase
        /\ told.name = c.name /\ told.read = c.read
    BY <1>2, <2>1 DEF Calls, CallSteps
  <2> HIDE DEF c, told
  <2> QED
    BY <1>1, <1>3, <2>1, <2>2, <2>3, RemoteStep DEF c
<1>5. CASE phase = ""
  <2>1. ToCall(asking)
    BY <1>5, Zenon DEF ReadSecret
  <2>2. cachedSecret # None
    BY <1>5, Zenon DEF ConfigPhase
  <2>3. config \in Configs /\ cachedSecret \in Secrets
    BY <1>2, <2>2 DEF Configs, IInv, Typed
  <2> HIDE DEF phase, config
  <2>4. /\ asking \in Calls /\ asking.pc = "probe" /\ asking.phase = c.phase
        /\ asking.name = c.name /\ asking.read = c.read
        /\ asking.config = config /\ asking.secret = cachedSecret
    BY <1>2, <2>3 DEF Calls, CallSteps
  <2>5. /\ c.phase \in PhasesOf(c.name) /\ c.phase # "Available"
        /\ c.phase = "reachable" => WasAnswered(c.read.spec)
    BY <1>2, PhaseFacts DEF CallIsTrue
  <2>6. PICK next \in Calls : next = asking
    BY <2>4
  <2>7. WasAnswered(next.read.spec) => WasAnswered(next.read.spec)'
    BY <1>1, AnswersStay
  <2> HIDE DEF asking
  <2>8. next.config = BuildRemoteConfig(next.read.spec, next.secret)
    BY <2>4, <2>6 DEF config
  <2>9. /\ ToCall(next) /\ next.name = c.name /\ next.read = c.read
        /\ next.phase \in PhasesOf(next.name) /\ next.phase # "Available"
        /\ next.phase = "reachable" => WasAnswered(next.read.spec)
    BY <2>1, <2>4, <2>5, <2>6
  <2> QED
    BY <1>1, <1>3, <2>7, <2>8, <2>9, RemoteStep
<1> QED
  BY <1>4, <1>5

LEMMA ProbeKeepsIInv ==
  ASSUME IInv, Probe \/ ProbeFails, UNCHANGED backup
  PROVE  IInv'
<1> DEFINE c == call["remote"]
           told(phase) == [c EXCEPT !.pc = "update", !.phase = phase]
<1>1. c # None /\ c.pc = "probe"
  BY DEF Probe, ProbeFails
<1>2. c \in Calls /\ CallIsTrue("remote") /\ c.name \notin Locations /\ c.read.spec \in RemoteSpecs
  BY <1>1, RemoteCallFacts
<1>3. \A phase \in Phases :
        /\ told(phase) \in Calls /\ told(phase).pc = "update" /\ told(phase).phase = phase
        /\ told(phase).name = c.name /\ told(phase).read = c.read
  BY <1>2 DEF Calls, CallSteps
<1>4. {"unreachable", "reachable"} \subseteq PhasesOf(c.name) /\ PhasesOf(c.name) \subseteq Phases
  BY <1>2, PhaseFacts
<1>5. CASE ProbeFails
  <2>1. ToCall(told("unreachable")) /\ UNCHANGED answered
    BY <1>5 DEF ProbeFails
  <2>2. failures' \in 0..MaxFailures
    BY <1>5, FailsTyped DEF ProbeFails
  <2>3. answered' \subseteq Answereds
    BY <2>1 DEF IInv, Typed
  <2> HIDE DEF told
  <2> QED
    BY <1>1, <1>3, <1>4, <2>1, <2>2, <2>3, RemoteStep
<1>6. CASE Probe
  <2> DEFINE a == [spec |-> c.read.spec, secret |-> c.secret, config |-> c.config]
  <2>1. ToCall(told("reachable")) /\ answered' = answered \cup {a} /\ UNCHANGED failures
    BY <1>6 DEF Probe
  <2>2. failures' \in 0..MaxFailures
    BY <2>1, FailsTyped
  <2>3. a \in Answereds
    BY <1>2 DEF Answereds, Calls
  <2>4. answered' \subseteq Answereds
    BY <2>1, <2>3 DEF IInv, Typed
  <2>5. c.config = BuildRemoteConfig(c.read.spec, c.secret)
    BY <1>1, <1>2 DEF CallIsTrue
  <2>6. PICK next \in Calls : next = told("reachable")
    BY <1>3, <1>4
  <2>7. WasAnswered(next.read.spec)'
    <3>1. a \in answered' /\ a.spec = next.read.spec
      BY <1>3, <1>4, <2>1, <2>6
    <3>2. a.config = BuildRemoteConfig(next.read.spec, a.secret)
      BY <2>5, <3>1
    <3> QED
      BY <3>1, <3>2 DEF WasAnswered
  <2> HIDE DEF told
  <2> QED
    BY <1>1, <1>3, <1>4, <2>1, <2>2, <2>4, <2>6, <2>7, RemoteStep
<1> QED
  BY <1>5, <1>6

-----------------------------------------------------------------------------
(* The update of a status.                                                 *)

\* An update that is accepted is one of the object the call has read.
LEMMA UpdateAcceptedFacts ==
  ASSUME IInv, NEW c \in Controllers, Updating(c), UpdateAccepted(c)
  PROVE  /\ call[c].name \in Names
         /\ objects[call[c].name] = call[c].read /\ objects[call[c].name] # None
         /\ objects[call[c].name] \in Stored
         /\ ObjectIsTrue(call[c].name, objects[call[c].name])
<1>1. CallIsTrue(c) /\ "call" \in fresh[call[c].name]
  BY DEF IInv, Updating, UpdateAccepted
<1>2. call[c].name \in Names /\ objects[call[c].name] = call[c].read
  BY <1>1 DEF CallIsTrue
<1>3. objects[call[c].name] # None
  BY DEF UpdateAccepted, Present
<1> QED
  BY <1>2, <1>3 DEF IInv, Typed

\* The status that is written is true of that object.
LEMMA StatusIsTrue ==
  ASSUME IInv, NEW c \in Controllers, Updating(c), UpdateAccepted(c)
  PROVE  LET n == call[c].name
             o == [objects[n] EXCEPT !.status = StatusToWrite(c)]
         IN  o \in Stored /\ ObjectIsTrue(n, o)
<1> DEFINE n == call[c].name
           x == objects[n]
           o == [x EXCEPT !.status = StatusToWrite(c)]
<1>1. CallIsTrue(c) /\ call[c] \in Calls
  BY DEF IInv, Typed, Updating
<1>2. n \in Names /\ x = call[c].read /\ x \in Stored /\ ObjectIsTrue(n, x)
  BY UpdateAcceptedFacts
<1>3. /\ StatusToWrite(c).phase = call[c].phase
      /\ StatusToWrite(c).observedGeneration = x.generation
      /\ StatusToWrite(c) \in Statuses
  BY <1>1, <1>2 DEF StatusToWrite, Statuses, Calls, Stored
<1>4. /\ o \in Stored /\ o.spec = x.spec /\ o.generation = x.generation
      /\ o.status = StatusToWrite(c)
  BY <1>2, <1>3 DEF Stored
<1> HIDE DEF o
<1>5. o.status.observedGeneration <= o.generation
  BY <1>2, <1>3, <1>4 DEF Stored
<1>6. ObjectIsTrue(n, o)
  BY <1>1, <1>2, <1>3, <1>4, <1>5 DEF ObjectIsTrue, CallIsTrue, SaysReachable
<1> QED
  BY <1>4, <1>6 DEF o

LEMMA UpdateStatusKeepsIInv ==
  ASSUME IInv, NEW c \in Controllers, UpdateStatus(c), UNCHANGED <<backup, remoteVars>>
  PROVE  IInv'
<1> DEFINE n == call[c].name
           o == [objects[n] EXCEPT !.status = StatusToWrite(c)]
<1>0. Typed /\ n \in Names
  BY UpdateAcceptedFacts DEF IInv, UpdateStatus
<1>1. /\ call' = [call EXCEPT ![c] = None]
      /\ UNCHANGED <<cache, queue, edits, failures>>
  BY DEF UpdateStatus
<1>2. CASE Put(n, o)
  <2>1. o \in Stored /\ ObjectIsTrue(n, o)
    BY StatusIsTrue DEF UpdateStatus
  <2> HIDE DEF n, o
  <2>2. /\ Names' = Names
        /\ objects' \in [Names -> Stored \cup {None}]
        /\ fresh' \in [Names -> SUBSET {"cache", "call"}]
        /\ objects'[n] = o /\ fresh'[n] = {}
        /\ \A m \in Names \ {n} : objects'[m] = objects[m] /\ fresh'[m] = fresh[m]
    BY <1>0, <1>2, <2>1, PutFacts
  <2>3. Typed'
    BY <1>0, <1>1, <2>2 DEF Typed, remoteVars
  <2>4. /\ \A spec : WasAnswered(spec) => WasAnswered(spec)'
        /\ \A m, x : ObjectIsTrue(m, x) => ObjectIsTrue(m, x)'
    BY AnswersStay DEF remoteVars
  <2>5. \A m \in Names' : \A x \in {objects'[m]} \ {None} : ObjectIsTrue(m, x)'
    BY <2>1, <2>2, <2>4 DEF IInv
  <2>6. \A d \in Controllers : call'[d] # None => call'[d] = call[d]
    BY <1>0, <1>1 DEF Typed
  <2>7. \A d \in Controllers : call'[d] # None => CallIsTrue(d)'
    BY <2>2, <2>4, <2>6 DEF IInv, CallIsTrue
  <2>8. CacheIsTrue'
    BY <1>1, <2>2 DEF IInv, CacheIsTrue
  <2>9. RestoreIsTrue'
    BY <2>4 DEF IInv, RestoreIsTrue, TargetIsTrue, remoteVars
  <2> QED
    BY <2>3, <2>5, <2>7, <2>8, <2>9 DEF IInv
<1>3. CASE UNCHANGED <<objects, fresh>>
  BY <1>0, <1>1, <1>3, CallStep DEF Typed, remoteVars
<1> QED
  BY <1>2, <1>3 DEF UpdateStatus

LEMMA UpdateStatusFailsKeepsIInv ==
  ASSUME IInv, NEW c \in Controllers, UpdateStatusFails(c), UNCHANGED <<backup, remoteVars>>
  PROVE  IInv'
<1>1. Typed /\ CallIsTrue(c)
  BY DEF IInv, UpdateStatusFails, Updating
<1>2. /\ call' = [call EXCEPT ![c] = None]
      /\ UNCHANGED <<objects, fresh, cache, edits>>
      /\ queue' \subseteq Names
  BY <1>1 DEF UpdateStatusFails, Typed, CallIsTrue
<1>3. failures' \in 0..MaxFailures
  BY FailsTyped DEF UpdateStatusFails
<1> QED
  BY <1>1, <1>2, <1>3, CallStep DEF Typed, remoteVars

-----------------------------------------------------------------------------
(* The restore worker.                                                     *)

LEMMA RestoreWrite ==
  ASSUME IInv, NEW r \in Restores, restore' = r, TargetIsTrue(r),
         UNCHANGED <<configVars, secret, cachedSecret, answers, answered>>
  PROVE  IInv'
<1>0. Typed
  BY DEF IInv
<1>1. /\ \A spec : WasAnswered(spec) => WasAnswered(spec)'
      /\ \A m, x : ObjectIsTrue(m, x) => ObjectIsTrue(m, x)'
  BY AnswersStay
<1>2. RestoreIsTrue'
  BY <1>1 DEF RestoreIsTrue, TargetIsTrue
<1>3. Names' = Names
  BY DEF configVars, Names
<1>4. Typed'
  BY <1>0, <1>3 DEF Typed, configVars
<1>5. \A m \in Names' : \A x \in {objects'[m]} \ {None} : ObjectIsTrue(m, x)'
  BY <1>1, <1>3 DEF IInv, configVars
<1>6. \A c \in Controllers : call'[c] # None => CallIsTrue(c)'
  BY <1>1, <1>3 DEF IInv, CallIsTrue, configVars
<1>7. CacheIsTrue'
  BY <1>3 DEF IInv, CacheIsTrue, configVars
<1> QED
  BY <1>2, <1>4, <1>5, <1>6, <1>7 DEF IInv

LEMMA RestoreKeepsIInv ==
  ASSUME IInv, RestoreStep
  PROVE  IInv'
<1>0. /\ Typed /\ restore \in Restores /\ TargetIsTrue(restore)
      /\ UNCHANGED <<configVars, secret, cachedSecret, answers, answered>>
  BY DEF IInv, Typed, RestoreIsTrue, RestoreStep, GetRemote, GetRemoteSecret
<1>1. ASSUME restore' = [restore EXCEPT !.pc = "failed"] PROVE IInv'
  <2>1. restore' \in Restores /\ restore'.pc = "failed"
    BY <1>0, <1>1 DEF Restores
  <2> QED
    BY <1>0, <2>1, RestoreWrite DEF TargetIsTrue
<1>2. ASSUME NEW n \in Remotes, GetRemote(n), Present(n) PROVE IInv'
  <2>1. /\ n \in Names /\ objects[n] \in Stored /\ objects[n] # None
        /\ restore' = [restore EXCEPT !.pc = "secret", !.remote = objects[n]]
    BY <1>0, <1>2 DEF GetRemote, Present, Names, Typed
  <2>2. ObjectIsTrue(n, objects[n])
    BY <2>1 DEF IInv
  <2>3. PICK o \in Stored : o = objects[n]
    BY <2>1
  <2>4. [restore EXCEPT !.pc = "secret", !.remote = o] \in Restores
    BY <1>0 DEF Restores
  <2>5. PICK r \in Restores : r = [restore EXCEPT !.pc = "secret", !.remote = o]
    BY <2>4
  <2>6. r.pc = "secret" /\ r.remote = o
    BY <1>0, <2>5 DEF Restores
  <2>7. TargetIsTrue(r)
    <3>1. o.spec \in RemoteSpecs
      BY <2>2, <2>3, ConfigAssumption DEF ObjectIsTrue, SpecsFor
    <3> QED
      BY <2>1, <2>2, <2>3, <2>6, <3>1 DEF TargetIsTrue, ObjectIsTrue
  <2> QED
    BY <1>0, <2>1, <2>3, <2>5, <2>7, RestoreWrite
<1>3. ASSUME GetRemoteSecret PROVE IInv'
  <2> DEFINE config == IF secret = None THEN None
                       ELSE BuildRemoteConfigForRestore(restore.remote.spec, secret)
  <2>1. CASE config = None
    BY <1>1, <1>3, <2>1 DEF GetRemoteSecret
  <2>2. CASE config # None
    <3>1. /\ restore.pc = "secret"
          /\ restore' = [restore EXCEPT !.pc = "configured", !.secret = secret,
                            !.config = config]
      BY <1>3, <2>2 DEF GetRemoteSecret
    <3>2. /\ SaysReachable(restore.remote) => WasAnswered(restore.remote.spec)
          /\ restore.remote # None /\ restore.remote.spec \in RemoteSpecs
      BY <1>0, <3>1 DEF TargetIsTrue
    <3>3. secret \in Secrets /\ secret # None
      BY <1>0, <2>2 DEF Typed
    <3>4. config = BuildRemoteConfig(restore.remote.spec, secret)
      BY <3>3, BuildersAgree
    <3>5. config \in Configs
      BY <3>2, <3>3, <3>4 DEF Configs
    <3> HIDE DEF config
    <3>6. PICK r \in Restores :
            r = [restore EXCEPT !.pc = "configured", !.secret = secret, !.config = config]
      BY <1>0, <3>3, <3>5 DEF Restores
    <3>7. /\ r.pc = "configured" /\ r.remote = restore.remote
          /\ r.secret = secret /\ r.config = config
      BY <1>0, <3>6 DEF Restores
    <3>8. TargetIsTrue(r)
      BY <3>2, <3>4, <3>7 DEF TargetIsTrue
    <3> QED
      BY <1>0, <3>1, <3>6, <3>8, RestoreWrite
  <2> QED
    BY <2>1, <2>2
<1> QED
  BY <1>1, <1>2, <1>3 DEF RestoreStep, GetRemote

-----------------------------------------------------------------------------
(* All steps.                                                              *)

LEMMA NextIInv == IInv /\ [Next]_vars => IInv'
<1> SUFFICES ASSUME IInv, [Next]_vars PROVE IInv'
  OBVIOUS
<1>0. /\ queue \subseteq Names /\ edits \in 0..MaxEdits /\ failures \in 0..MaxFailures
      /\ secret \in Secrets /\ cachedSecret \in Secrets /\ answers \in Answers
  BY DEF IInv, Typed
<1>1. CASE UNCHANGED vars
  BY <1>0, <1>1, OutsideKeepsIInv DEF vars, configVars, remoteVars
<1>2. ASSUME NEW n \in Locations \cup Remotes, UserStep(n) \/ SyncObject(n) \/ Reconcile(n)
      PROVE  IInv'
  BY <1>2, UserKeepsIInv, SyncKeepsIInv, ReconcileKeepsIInv
<1>3. ASSUME NEW c \in Controllers, ResyncAll(c) PROVE IInv'
  <2>1. queue' \subseteq Names
    <3>1. DOMAIN cache = Names
      BY DEF IInv, Typed
    <3> QED
      BY <1>0, <1>3, <3>1 DEF ResyncAll, Resync
  <2> QED
    BY <1>0, <1>3, <2>1, OutsideKeepsIInv DEF ResyncAll, Resync, remoteVars
<1>4. ASSUME NEW c \in Controllers, Update(c) PROVE IInv'
  BY <1>4, UpdateStatusKeepsIInv, UpdateStatusFailsKeepsIInv DEF Update
<1>5. CASE Restart
  BY <1>5, RestartKeepsIInv
<1>6. CASE Validate
  BY <1>6, ReadSecretKeepsIInv, ProbeKeepsIInv DEF Validate
<1>7. CASE BackupStep
  BY <1>0, <1>7, OutsideKeepsIInv
     DEF BackupStep, ControllerResolves, WorkerResolves, configVars, remoteVars
<1>8. CASE RestoreStep
  BY <1>8, RestoreKeepsIInv
<1>9. CASE CacheSecret
  BY <1>0, <1>9, OutsideKeepsIInv DEF CacheSecret, SyncSecret, configVars
<1>10. CASE OutsideStep
  <2>1. edits' \in 0..MaxEdits
    BY <1>0, <1>10, ConfigAssumption DEF OutsideStep, SecretChanges, AnswersChange, Changes
  <2>2. CASE \E data \in Secrets : SecretChanges(data)
    BY <1>0, <2>1, <2>2, OutsideKeepsIInv DEF SecretChanges
  <2>3. CASE \E a \in Answers : AnswersChange(a)
    BY <1>0, <2>1, <2>3, OutsideKeepsIInv DEF AnswersChange
  <2> QED
    BY <1>10, <2>2, <2>3 DEF OutsideStep
<1> QED
  BY <1>1, <1>2, <1>3, <1>4, <1>5, <1>6, <1>7, <1>8, <1>9, <1>10 DEF Next

LEMMA Invariance == Spec => []IInv
<1> QED
  BY InitIInv, NextIInv, PTL DEF Spec

-----------------------------------------------------------------------------
(* The choice of a location.                                               *)

\* The locations in a list, given the specs of those there are.
There(specs) == {n \in DOMAIN specs : specs[n] # None}

\* An order of the locations has every one of them, once.
LEMMA OrderFacts ==
  ASSUME NEW order \in SetToSeqs(Locations)
  PROVE  /\ \A n \in Locations : \E i \in DOMAIN order : order[i] = n
         /\ \A i, j \in DOMAIN order : i # j => order[i] # order[j]
         /\ DOMAIN order \subseteq Nat
         /\ \A i \in DOMAIN order : order[i] \in Locations
<1> DEFINE k == Cardinality(Locations)
<1>1. IsFiniteSet(Locations)
  BY LocationsAssumption
<1>2. k \in Nat
  BY <1>1, FS_CardinalityType
<1>3. order \in [1..k -> Locations] /\ \A i, j \in 1..k : i # j => order[i] # order[j]
  BY DEF SetToSeqs
<1>4. order \in Injection(1..k, Locations)
  BY <1>3 DEF Injection, IsInjective
<1>5. Cardinality(1..k) = k
  BY <1>2, FS_Interval
<1>6. order \in Surjection(1..k, Locations)
  BY <1>1, <1>4, <1>5, FS_Injection
<1>7. \A n \in Locations : \E i \in 1..k : order[i] = n
  BY <1>6 DEF Surjection
<1> HIDE DEF k
<1> QED
  BY <1>2, <1>3, <1>7

\* What the objects of a list have to be.
Listable(stored) ==
  \A n \in DOMAIN stored \cap Locations :
    stored[n] # None => stored[n].spec \in LocationSpecs

LEMMA SpecsInFacts ==
  ASSUME NEW stored, Listable(stored)
  PROVE  /\ There(SpecsIn(stored)) = Listed(stored)
         /\ Listed(stored) \subseteq Locations
         /\ \A n \in Listed(stored) : n \in Defaults(SpecsIn(stored)) <=> stored[n].spec.default
         /\ Defaults(SpecsIn(stored)) \subseteq Listed(stored)
<1>1. DOMAIN SpecsIn(stored) = DOMAIN stored \cap Locations
  BY DEF SpecsIn
<1>2. \A n \in DOMAIN stored \cap Locations :
        SpecsIn(stored)[n] = IF stored[n] = None THEN None ELSE stored[n].spec
  BY DEF SpecsIn
<1>3. \A n \in DOMAIN stored \cap Locations :
        stored[n] # None => SpecsIn(stored)[n] # None /\ SpecsIn(stored)[n] = stored[n].spec
  BY <1>2, LocationsAssumption DEF Listable
<1>4. There(SpecsIn(stored)) = Listed(stored) /\ Listed(stored) \subseteq Locations
  BY <1>1, <1>2, <1>3 DEF There, Listed
<1>5. \A n \in Listed(stored) : n \in Defaults(SpecsIn(stored)) <=> stored[n].spec.default
  BY <1>1, <1>3 DEF Listed, Defaults
<1>6. Defaults(SpecsIn(stored)) \subseteq Listed(stored)
  BY <1>4 DEF Defaults, There
<1> QED
  BY <1>4, <1>5, <1>6

\* A choice from one candidate is that one, in whatever order the list is.
LEMMA OneCandidate ==
  ASSUME NEW stored, Listable(stored), NEW order \in SetToSeqs(Locations), NEW ref, NEW m,
         Candidates(SpecsIn(stored), ref) = {m}
  PROVE  StorageLocation(stored, order, ref) = m
<1> DEFINE specs == SpecsIn(stored)
           items == Listed(stored)
           defaults == DefaultsIn(stored, order)
           n == StorageLocation(stored, order, ref)
<1>1. /\ There(specs) = items /\ items \subseteq Locations
      /\ \A x \in items : x \in Defaults(specs) <=> stored[x].spec.default
      /\ Defaults(specs) \subseteq items
  BY SpecsInFacts
<1>2. Candidates(specs, ref) = IF ref # AnyLocation THEN {ref} \cap items
                               ELSE IF Defaults(specs) # {} THEN Defaults(specs) ELSE items
  BY <1>1 DEF Candidates, There
<1>3. defaults = {i \in DOMAIN order : order[i] \in Defaults(specs)}
  BY <1>1 DEF DefaultsIn
<1>4. CASE ref # AnyLocation
  <2>1. ref \in items /\ ref = m
    BY <1>2, <1>4
  <2> QED
    BY <1>4, <2>1 DEF StorageLocation
<1>5. CASE ref = AnyLocation /\ Defaults(specs) # {}
  <2>1. Defaults(specs) = {m}
    BY <1>2, <1>5
  <2>2. PICK i \in DOMAIN order : order[i] = m
    BY <1>1, <2>1, OrderFacts
  <2>3. defaults = {i} /\ i \in Nat
    BY <1>3, <2>1, <2>2, OrderFacts
  <2>4. Min(defaults) = i /\ defaults # {}
    BY <2>3 DEF Min
  <2>5. n = order[Min(defaults)]
    BY <1>5, <2>4 DEF StorageLocation
  <2> QED
    BY <2>2, <2>4, <2>5
<1>6. CASE ref = AnyLocation /\ Defaults(specs) = {}
  <2>1. defaults = {} /\ items = {m}
    BY <1>2, <1>3, <1>6
  <2>2. Cardinality(items) = 1
    BY <2>1, FS_Singleton
  <2>3. n = CHOOSE x \in items : TRUE
    BY <1>6, <2>1, <2>2 DEF StorageLocation
  <2> QED
    BY <2>1, <2>3
<1> QED
  BY <1>4, <1>5, <1>6

\* With one default at most, what is chosen was the only candidate.
LEMMA ChosenAlone ==
  ASSUME NEW stored, Listable(stored), NEW order \in SetToSeqs(Locations), NEW ref,
         ref # AnyLocation \/ Cardinality(Defaults(SpecsIn(stored))) <= 1,
         StorageLocation(stored, order, ref) # NoLocation
  PROVE  Candidates(SpecsIn(stored), ref) = {StorageLocation(stored, order, ref)}
<1> DEFINE specs == SpecsIn(stored)
           items == Listed(stored)
<1>1. SUFFICES \E m : Candidates(specs, ref) = {m}
  BY OneCandidate
<1>2. /\ There(specs) = items /\ items \subseteq Locations
      /\ \A x \in items : x \in Defaults(specs) <=> stored[x].spec.default
      /\ Defaults(specs) \subseteq items
  BY SpecsInFacts
<1>3. Candidates(specs, ref) = IF ref # AnyLocation THEN {ref} \cap items
                               ELSE IF Defaults(specs) # {} THEN Defaults(specs) ELSE items
  BY <1>2 DEF Candidates, There
<1>4. IsFiniteSet(items) /\ IsFiniteSet(Defaults(specs))
  BY <1>2, LocationsAssumption, FS_Subset
<1>5. CASE ref # AnyLocation
  <2>1. ref \in items
    BY <1>5 DEF StorageLocation
  <2> QED
    BY <1>3, <1>5, <2>1
<1>6. CASE ref = AnyLocation /\ Defaults(specs) # {}
  <2>1. Cardinality(Defaults(specs)) = 1
    BY <1>4, <1>6, FS_CardinalityType, FS_EmptySet
  <2> QED
    BY <1>3, <1>4, <1>6, <2>1, FS_Singleton
<1>7. CASE ref = AnyLocation /\ Defaults(specs) = {}
  <2>1. DefaultsIn(stored, order) = {}
    BY <1>2, <1>7 DEF DefaultsIn
  <2>2. Cardinality(items) = 1
    BY <1>7, <2>1 DEF StorageLocation
  <2> QED
    BY <1>3, <1>4, <1>7, <2>2, FS_Singleton
<1> QED
  BY <1>5, <1>6, <1>7

\* A pod that is waiting was built for the candidate the controller saw.
BackupIsTrue(b) ==
  /\ \E ref, pc, podFor, seen, chosen :
       b = [ref |-> ref, pc |-> pc, podFor |-> podFor, seen |-> seen, chosen |-> chosen]
  /\ b.pc = "built" =>
       /\ b.podFor # NoLocation
       /\ b.ref # AnyLocation \/ Cardinality(Defaults(b.seen)) <= 1 =>
            Candidates(b.seen, b.ref) = {b.podFor}

BackupGood == \A b \in {backup} : BackupIsTrue(b)

LEMMA ListsAreListable == IInv => Listable(objects) /\ Listable(cache)
<1> SUFFICES ASSUME IInv PROVE Listable(objects) /\ Listable(cache)
  OBVIOUS
<1>1. DOMAIN cache = Names
  BY DEF IInv, Typed
<1>2. Listable(objects)
  BY DEF IInv, Listable, ObjectIsTrue, SpecsFor, Names
<1>3. Listable(cache)
  BY <1>1 DEF IInv, Listable, CacheIsTrue, SpecsFor
<1> QED
  BY <1>2, <1>3

LEMMA NextBackupGood == IInv /\ BackupGood /\ [Next]_vars => BackupGood'
<1> SUFFICES ASSUME IInv, BackupGood, [Next]_vars PROVE BackupGood'
  OBVIOUS
<1>0. PICK b : b = backup /\ BackupIsTrue(b)
  BY DEF BackupGood
<1>1. CASE ControllerResolves
  <2>1. PICK order \in SetToSeqs(Locations) :
          LET n == StorageLocation(cache, order, backup.ref)
          IN  /\ n # NoLocation
              /\ backup' = [backup EXCEPT !.pc = "built", !.podFor = n, !.seen = SpecsIn(cache)]
    BY <1>1 DEF ControllerResolves
  <2>2. PICK n, seen, c : /\ n = StorageLocation(cache, order, b.ref) /\ seen = SpecsIn(cache)
                          /\ c = [b EXCEPT !.pc = "built", !.podFor = n, !.seen = seen]
    OBVIOUS
  <2>3. backup' = c /\ n # NoLocation
    BY <1>0, <2>1, <2>2
  <2>4. /\ \E ref, pc, podFor, s, chosen :
             c = [ref |-> ref, pc |-> pc, podFor |-> podFor, seen |-> s, chosen |-> chosen]
        /\ c.ref = b.ref /\ c.podFor = n /\ c.seen = seen
    BY <1>0, <2>2 DEF BackupIsTrue
  <2>5. Listable(cache)
    BY ListsAreListable
  <2>6. c.ref # AnyLocation \/ Cardinality(Defaults(c.seen)) <= 1 =>
          Candidates(c.seen, c.ref) = {c.podFor}
    BY <2>2, <2>3, <2>4, <2>5, ChosenAlone
  <2>7. BackupIsTrue(c)
    BY <2>3, <2>4, <2>6 DEF BackupIsTrue
  <2> QED
    BY <2>3, <2>7 DEF BackupGood
<1>2. CASE WorkerResolves
  <2>0. PICK n : n = StorageLocation(objects, ByName, backup.ref)
    OBVIOUS
  <2>1. PICK pc \in {"stored", "failed"} :
          backup' = [backup EXCEPT !.pc = pc, !.chosen = n, !.seen = <<>>]
    BY <1>2, <2>0 DEF WorkerResolves
  <2>2. PICK c : c = [b EXCEPT !.pc = pc, !.chosen = n, !.seen = <<>>]
    OBVIOUS
  <2>3. /\ \E ref, k, podFor, s, chosen :
             c = [ref |-> ref, pc |-> k, podFor |-> podFor, seen |-> s, chosen |-> chosen]
        /\ c.pc = pc
    BY <1>0, <2>2 DEF BackupIsTrue
  <2>4. BackupIsTrue(c)
    BY <2>1, <2>3 DEF BackupIsTrue
  <2> QED
    BY <1>0, <2>1, <2>2, <2>4 DEF BackupGood
<1>3. CASE UNCHANGED backup
  BY <1>3 DEF BackupGood
<1> QED
  BY <1>1, <1>2, <1>3
     DEF Next, vars, UserStep, SyncObject, Reconcile, ResyncAll, Update, Restart, Validate,
         BackupStep, RestoreStep, CacheSecret, OutsideStep

-----------------------------------------------------------------------------
(* The theorems.                                                           *)

\* Phases are those the API declares, observed generations are never ahead, and
\* a copy with the current resourceVersion is the current object, in the cache
\* and in a Reconcile call (backupstoragelocation_controller.go, remotecluster_controller.go).
THEOREM TypeCorrect == Spec => []TypeOK
<1>1. IInv => TypeOK
  <2> SUFFICES ASSUME IInv PROVE TypeOK
    OBVIOUS
  <2>1. ASSUME NEW n \in DOMAIN objects
        PROVE  /\ Present(n) => /\ objects[n].spec \in SpecsFor(n)
                                /\ objects[n].status.phase \in PhasesOf(n)
                                /\ objects[n].status.observedGeneration <= objects[n].generation
               /\ "cache" \in fresh[n] => cache[n] = objects[n]
               /\ "call" \in fresh[n] =>
                    call[ControllerOf(n)] = None \/ call[ControllerOf(n)].name # n
                      \/ call[ControllerOf(n)].read = objects[n]
    <3>1. n \in Names /\ ControllerOf(n) \in Controllers
      BY DEF Names, ControllerOf, Controllers
    <3>2. Present(n) => ObjectIsTrue(n, objects[n])
      BY <3>1 DEF IInv, Present
    <3>3. call[ControllerOf(n)] # None => CallIsTrue(ControllerOf(n))
      BY <3>1 DEF IInv
    <3> QED
      BY <3>1, <3>2, <3>3 DEF IInv, ObjectIsTrue, CallIsTrue, CacheIsTrue
  <2>2. \A c \in Controllers :
          call[c] # None => ControllerOf(call[c].name) = c /\ call[c].read # None
    BY DEF IInv, CallIsTrue
  <2> QED
    BY <2>1, <2>2 DEF IInv, Typed, TypeOK, Names
<1> QED
  BY <1>1, Invariance, PTL

\* A location whose status says Available for its present generation has in its spec
\* all that the controller asks of it to build a pod and the worker to store,
\* whichever edits, deletions and re-creations its validation crossed
\* (backupstoragelocation_controller.go:34-57, job_builder.go:115,
\* worker_storage.go:90, 213).
THEOREM AvailableMeansComplete == Spec => []AvailableIsComplete
<1>1. IInv => AvailableIsComplete
  <2> SUFFICES ASSUME IInv, NEW n \in Locations, Present(n), Observed(objects[n]),
                      objects[n].status.phase = "Available"
               PROVE  PodBuilds(objects[n].spec) /\ HasConfig(objects[n].spec)
    BY DEF AvailableIsComplete
  <2>1. ObjectIsTrue(n, objects[n])
    BY DEF IInv, Present, Names
  <2> QED
    BY <2>1, AvailableComplete DEF ObjectIsTrue
<1> QED
  BY <1>1, Invariance, PTL

\* A restore that targets a RemoteCluster that says reachable of its present
\* generation uses, with the secret of that time, the configuration that was answered
\* (remotecluster_controller.go:81, worker_restore.go:339-381).
THEOREM RestoreTargetWasAnswered == Spec => []RestoreTargetAnswered
<1>1. IInv => RestoreTargetAnswered
  <2> SUFFICES ASSUME IInv, restore.pc = "configured", SaysReachable(restore.remote)
               PROVE  \E a \in answered :
                        /\ a.spec = restore.remote.spec
                        /\ a.secret = restore.secret => a.config = restore.config
    BY DEF RestoreTargetAnswered
  <2>1. TargetIsTrue(restore)
    BY DEF IInv, RestoreIsTrue
  <2> QED
    BY <2>1 DEF TargetIsTrue, WasAnswered
<1> QED
  BY <1>1, Invariance, PTL

\* The worker, which resolves the storage location again from a list of its own, comes
\* to the location its pod was built for, whatever was edited in between, as long as
\* the choice is made from the same candidates and there is one default at most
\* (backup_controller.go:46, worker_backup.go:57, storage.go:13-42).
THEOREM WorkerAgreesWithItsPod == Spec => PodMatchesLocation
<1> DEFINE Step ==
      (/\ backup.pc = "built" /\ backup'.pc # "built"
       /\ Candidates(backup.seen, backup.ref) = Candidates(SpecsIn(objects), backup.ref)
       /\ backup.ref # AnyLocation \/ Cardinality(Defaults(backup.seen)) <= 1)
        => backup'.chosen = backup.podFor
<1>1. Init => BackupGood
  <2> SUFFICES ASSUME Init PROVE BackupGood
    OBVIOUS
  <2>1. PICK ref : backup = NewBackup(ref)
    BY DEF Init
  <2> QED
    BY <2>1 DEF BackupGood, BackupIsTrue, NewBackup
<1>2. IInv /\ BackupGood /\ [Next]_vars => [Step]_backup
  <2> SUFFICES ASSUME IInv, BackupGood, [Next]_vars,
                      backup.pc = "built", backup'.pc # "built",
                      Candidates(backup.seen, backup.ref)
                        = Candidates(SpecsIn(objects), backup.ref),
                      backup.ref # AnyLocation \/ Cardinality(Defaults(backup.seen)) <= 1
               PROVE  backup'.chosen = backup.podFor
    OBVIOUS
  <2>1. WorkerResolves
    BY DEF Next, vars, UserStep, SyncObject, Reconcile, ResyncAll, Update, Restart, Validate,
           BackupStep, RestoreStep, CacheSecret, OutsideStep, ControllerResolves
  <2>2. PICK b : b = backup /\ BackupIsTrue(b)
    BY DEF BackupGood
  <2>3. PICK n : n = StorageLocation(objects, ByName, b.ref)
    OBVIOUS
  <2>4. PICK pc : backup' = [b EXCEPT !.pc = pc, !.chosen = n, !.seen = <<>>]
    BY <2>1, <2>2, <2>3 DEF WorkerResolves
  <2>5. backup'.chosen = n
    BY <2>2, <2>4 DEF BackupIsTrue
  <2>6. Candidates(SpecsIn(objects), b.ref) = {b.podFor}
    BY <2>2 DEF BackupIsTrue
  <2>7. n = b.podFor
    <3>1. ByName \in SetToSeqs(Locations)
      BY LocationsAssumption
    <3> QED
      BY <2>3, <2>6, <3>1, ListsAreListable, OneCandidate
  <2> QED
    BY <2>2, <2>5, <2>7
<1>3. IInv /\ BackupGood /\ [Next]_vars => (IInv /\ BackupGood)'
  BY NextIInv, NextBackupGood
<1> QED
  BY <1>1, <1>2, <1>3, InitIInv, PTL DEF Spec, PodMatchesLocation

================================================================================

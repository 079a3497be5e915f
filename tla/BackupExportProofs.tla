-------------------------- MODULE BackupExportProofs ---------------------------
(***************************************************************************)
(* Theorems about BackupExport, for any API, objects, workers and backups, *)
(* any number of changes, failures and timestamps.                         *)
(***************************************************************************)
EXTENDS BackupExport, ResourceKindsProofs

-----------------------------------------------------------------------------
(* The inductive invariant.                                                *)

CallRecords == [type : Types, namespace : STRING \cup {NoNamespace}]

NameParts == STRING \cup {"-"}

SnapshotRecords ==
  [namespace : STRING, name : Seq(NameParts), backup : Seq(STRING), claim : Seq(STRING),
   made : Nat]

WorkerRecords ==
  [pc : WorkerStates, intime : BOOLEAN, calls : Seq(CallRecords),
   documents : Seq(Objects), namespaces : Seq(STRING), claims : Seq(Objects),
   stamp : DOMAIN Stamps, taken : Seq(SnapshotRecords)]

Typed ==
  /\ clock \in DOMAIN Stamps /\ cluster \subseteq Objects /\ task \in Assignments
  /\ changes \in 0..MaxChanges /\ failures \in 0..MaxFailures
  /\ snapshots \subseteq SnapshotRecords
  /\ worker \in [Workers -> WorkerRecords]
  /\ ever \in [Workers -> SUBSET Objects] /\ always \in [Workers -> SUBSET Objects]
  /\ missed = [w \in Workers |-> missed[w]] /\ late \in [Workers -> BOOLEAN]

\* What a worker has before it, in each of its states.
Control(r) ==
  /\ r.calls # <<>> => r.pc = "listing"
  /\ r.claims # <<>> => r.pc \in {"snapshotting", "existing"}
  /\ r.pc = "existing" => r.claims # <<>>
  /\ r.pc \in {"snapshotting", "existing"} => r.namespaces # <<>>
  /\ r.pc \in {"waiting", "namespaces", "discovery"} => r.documents = <<>>
  /\ r.pc = "completed" => r.intime

\* Namespaces, calls and documents are in the scope of the backup.
Scoped(spec, r, e) ==
  /\ \A ns \in ToSet(r.namespaces) : ns # NoNamespace /\ NamespaceInScope(spec, ns)
  /\ \A c \in ToSet(r.calls) : Selects(spec, c.type) /\ NamespaceInScope(spec, c.namespace)
  /\ \A o \in ToSet(r.documents) : o \in e /\ InScope(spec, o)

Finds(c, o) == c.type.kind = o.kind /\ c.namespace = o.namespace

\* The states in which the calls are known.
SearchedStates ==
  {"listing", "sorted", "claims", "snapshotting", "existing", "packed", "stored", "completed"}

\* An object that is always there is exported, or there is a call that will find it.
Sought(r, o, m) ==
  /\ r.pc = "discovery" /\ o.namespace # NoNamespace => o.namespace \in ToSet(r.namespaces)
  /\ r.pc \in SearchedStates =>
       \/ [kind |-> o.kind, namespace |-> o.namespace] \in m
       \/ o \in ToSet(r.documents)
       \/ \E c \in ToSet(r.calls) : Finds(c, o)

\* Nothing is exported twice, and nothing in the scope is left out.
Covered(spec, r, a, m) ==
  /\ Distinct(r.documents) /\ Distinct(r.calls)
  /\ \A c \in ToSet(r.calls), o \in ToSet(r.documents) : ~Finds(c, o)
  /\ spec.export => \A o \in a : InScope(spec, o) => Sought(r, o, m)

Good(spec, r, e, a, m) ==
  /\ Control(r) /\ Scoped(spec, r, e) /\ Covered(spec, r, a, m)
  /\ a \subseteq e

WorkerGood(w) ==
  /\ \A spec \in {task[w]}, r \in {worker[w]}, e \in {ever[w]}, a \in {always[w]},
        m \in {missed[w]} : Good(spec, r, e, a, m)
  /\ worker[w].stamp <= clock
  /\ late[w] => ~worker[w].intime
  /\ Exporting(w) => always[w] \subseteq cluster /\ cluster \subseteq ever[w]

IdleWorker(w) ==
  worker[w] = NewWorker /\ always[w] = {} /\ ever[w] = {} /\ late[w] = FALSE

ClusterGood ==
  /\ \A s \in snapshots : s.made <= clock /\ s.made >= 1 /\ Len(s.name) <= MaxNameLength
  /\ \A o \in cluster : NamespaceOf(o) \subseteq NamespacesIn(cluster)

IInv ==
  /\ Typed /\ ClusterGood
  /\ \A w \in DOMAIN task : WorkerGood(w)
  /\ \A w \in Workers \ DOMAIN task : IdleWorker(w)

-----------------------------------------------------------------------------
(* Sets and sequences.                                                     *)

LEMMA TailFacts ==
  ASSUME NEW D, NEW s \in Seq(D), s # <<>>
  PROVE  /\ Head(s) \in D /\ Tail(s) \in Seq(D)
         /\ Head(s) \in ToSet(s) /\ ToSet(Tail(s)) \subseteq ToSet(s)
         /\ \A x \in ToSet(s) : x = Head(s) \/ x \in ToSet(Tail(s))
         /\ Distinct(s) => Distinct(Tail(s)) /\ Head(s) \notin ToSet(Tail(s))
<1>1. Len(s) \in Nat \ {0} /\ Head(s) = s[1] /\ s[1] \in D
  OBVIOUS
<1>2. /\ Tail(s) \in Seq(D) /\ Len(Tail(s)) = Len(s) - 1
      /\ \A k \in 1..(Len(s) - 1) : Tail(s)[k] = s[k + 1]
  OBVIOUS
<1>3. Head(s) \in ToSet(s)
  BY <1>1, ToSetFacts
<1>4. ToSet(Tail(s)) \subseteq ToSet(s)
  <2> SUFFICES ASSUME NEW x \in ToSet(Tail(s)) PROVE x \in ToSet(s)
    OBVIOUS
  <2>1. PICK k \in 1..(Len(s) - 1) : Tail(s)[k] = x
    BY <1>2, ToSetFacts
  <2>2. k + 1 \in 1..Len(s) /\ s[k + 1] = x
    BY <1>1, <1>2, <2>1
  <2> QED
    BY <2>2, ToSetFacts
<1>5. ASSUME NEW x \in ToSet(s), x # Head(s) PROVE x \in ToSet(Tail(s))
  <2>1. PICK k \in 1..Len(s) : s[k] = x
    BY ToSetFacts
  <2>2. k - 1 \in 1..(Len(s) - 1) /\ Tail(s)[k - 1] = x
    BY <1>1, <1>2, <1>5, <2>1
  <2> QED
    BY <1>2, <2>2, ToSetFacts
<1>6. ASSUME Distinct(s) PROVE Distinct(Tail(s)) /\ Head(s) \notin ToSet(Tail(s))
  <2>1. \A k \in 1..(Len(s) - 1) : k + 1 \in 1..Len(s) /\ k + 1 # 1
    BY <1>1
  <2>2. Distinct(Tail(s))
    BY <1>2, <1>6, <2>1 DEF Distinct
  <2>3. \A k \in 1..(Len(s) - 1) : Tail(s)[k] # Head(s)
    BY <1>1, <1>2, <1>6, <2>1 DEF Distinct
  <2> QED
    BY <1>2, <2>2, <2>3, ToSetFacts
<1> QED
  BY <1>1, <1>2, <1>3, <1>4, <1>5, <1>6

LEMMA EmptyFacts ==
  /\ ToSet(<<>>) = {} /\ Distinct(<<>>)
  /\ \A D : <<>> \in Seq(D)
  BY DEF ToSet, Distinct

LEMMA SetToSeqIn ==
  ASSUME NEW D, NEW S \in SUBSET D, IsFiniteSet(S)
  PROVE  /\ SetToSeq(S) \in Seq(D) /\ ToSet(SetToSeq(S)) = S
         /\ Distinct(SetToSeq(S))
  BY SetToSeqFacts

LEMMA NamespacesInFacts ==
  ASSUME NEW objects \in SUBSET Objects
  PROVE  /\ IsFiniteSet(NamespacesIn(objects))
         /\ NamespacesIn(objects) \subseteq STRING \ {NoNamespace}
<1> DEFINE S == {x \in objects : x.kind = "Namespace"}
           f == [o \in S |-> o.name[1]]
<1>1. IsFiniteSet(S)
  BY ObjectsAssumption, FS_Subset
<1>2. f \in Surjection(S, NamespacesIn(objects))
  BY DEF Surjection, NamespacesIn
<1>3. IsFiniteSet(NamespacesIn(objects))
  BY <1>1, <1>2, FS_Surjection
<1>4. \A o \in S : o.name[1] \in STRING /\ o.name[1] # NoNamespace
  <2> SUFFICES ASSUME NEW o \in S PROVE o.name[1] \in STRING /\ o.name[1] # NoNamespace
    OBVIOUS
  <2>1. /\ o \in Objects /\ o.kind = "Namespace" /\ o.name \in Seq(STRING) /\ o.name # <<>>
        /\ o.name[1] # NoNamespace
    BY ObjectsAssumption
  <2>2. \A s \in Seq(STRING) : s # <<>> => s[1] \in STRING
    OBVIOUS
  <2> QED
    BY <2>1, <2>2
<1> QED
  BY <1>3, <1>4 DEF NamespacesIn

-----------------------------------------------------------------------------
(* The filters.                                                            *)

\* A kind is in the scope if the type of that kind passes the worker's filter.
LEMMA SelectsIsScope ==
  ASSUME NEW spec, NEW t \in Types
  PROVE  Selects(spec, t) <=> KindInScope(spec, t.kind)
<1>1. \A u \in Types : u.kind = t.kind => u = t
  BY DiscoveryAssumption DEF Types, ToSet
<1>2. \A e : Names(e, t) <=> e \in ResourceIdentifiers(t)
  BY DEF Names, ResourceIdentifiers
<1>3. (ResourceIdentifiers(t) \cap spec.includedResources # {})
        <=> \E e \in spec.includedResources : Names(e, t)
  BY <1>2
<1>4. (ResourceIdentifiers(t) \cap (spec.excludedResources \cup DefaultExcludedResources) = {})
        <=> \A e \in spec.excludedResources \cup DefaultExcludedResources : ~Names(e, t)
  BY <1>2
<1> HIDE DEF Types
<1>5. Selects(spec, t) =>  KindInScope(spec, t.kind)
  BY <1>3, <1>4 DEF Selects, KindInScope
<1>6. KindInScope(spec, t.kind) => Selects(spec, t)
  BY <1>1, <1>3, <1>4 DEF Selects, KindInScope
<1> QED
  BY <1>5, <1>6

\* The namespaces a worker resolves are those of the scope that are there.
LEMMA ResolvedFacts ==
  ASSUME NEW a \in Assignments, NEW w \in DOMAIN a, NEW objects \in SUBSET Objects
  PROVE  LET found == ResolvedNamespaces(a[w], NamespacesIn(objects)) IN
         /\ IsFiniteSet(found) /\ found \subseteq STRING
         /\ \A ns \in found : ns # NoNamespace /\ NamespaceInScope(a[w], ns)
         /\ \A ns \in NamespacesIn(objects) : NamespaceInScope(a[w], ns) => ns \in found
<1> DEFINE spec == a[w]
           found == ResolvedNamespaces(spec, NamespacesIn(objects))
<1>1. /\ spec.kind \in {"Backup", "ClusterBackup"}
      /\ spec.kind = "Backup" => spec.namespace \in STRING \ {NoNamespace}
      /\ IsFiniteSet(spec.included) /\ spec.included \subseteq STRING \ {NoNamespace}
  BY AssignmentsAssumption
<1>2. /\ IsFiniteSet(NamespacesIn(objects))
      /\ NamespacesIn(objects) \subseteq STRING \ {NoNamespace}
  BY NamespacesInFacts
<1> HIDE DEF spec
<1>3. CASE spec.kind = "Backup"
  <2>1. found = {spec.namespace}
    BY <1>3 DEF ResolvedNamespaces
  <2>2. IsFiniteSet(found)
    BY <2>1, FS_Singleton
  <2> QED
    BY <1>1, <1>2, <1>3, <2>1, <2>2 DEF NamespaceInScope, spec
<1>4. CASE spec.kind # "Backup" /\ spec.included # {}
  <2>1. found = spec.included \ spec.excluded
    BY <1>4 DEF ResolvedNamespaces
  <2>2. IsFiniteSet(found)
    BY <1>1, <2>1, FS_Subset
  <2> QED
    BY <1>1, <1>2, <1>4, <2>1, <2>2 DEF NamespaceInScope, spec
<1>5. CASE spec.kind # "Backup" /\ spec.included = {}
  <2>1. found = NamespacesIn(objects) \ spec.excluded
    BY <1>5 DEF ResolvedNamespaces
  <2>2. IsFiniteSet(found)
    BY <1>2, <2>1, FS_Subset
  <2> QED
    BY <1>1, <1>2, <1>5, <2>1, <2>2 DEF NamespaceInScope, spec
<1> QED
  BY <1>3, <1>4, <1>5

\* A List call of the scope finds the objects of the scope that are its.
LEMMA KeptFacts ==
  ASSUME NEW a \in Assignments, NEW w \in DOMAIN a, NEW objects \in SUBSET Objects,
         NEW c \in CallRecords, Selects(a[w], c.type), NamespaceInScope(a[w], c.namespace)
  PROVE  /\ IsFiniteSet(Kept(a[w], c, objects)) /\ Kept(a[w], c, objects) \subseteq objects
         /\ \A o \in Kept(a[w], c, objects) :
              Finds(c, o) /\ InScope(a[w], o)
         /\ \A o \in objects : InScope(a[w], o) /\ Finds(c, o) => o \in Kept(a[w], c, objects)
<1> DEFINE spec == a[w]
           kept == Kept(spec, c, objects)
<1>1. kept \subseteq objects
  BY DEF Kept
<1>2. IsFiniteSet(kept)
  BY <1>1, ObjectsAssumption, FS_Subset
<1>3. KindInScope(spec, c.type.kind)
  BY SelectsIsScope DEF CallRecords
<1>4. ASSUME NEW o \in kept PROVE Finds(c, o)
  BY DEF Kept, Finds
<1>5. ASSUME NEW o \in kept PROVE InScope(spec, o)
  <2>1. /\ o.kind = c.type.kind /\ o.namespace = c.namespace /\ spec.labels \subseteq o.labels
        /\ MatchAnnotations(o.annotations, spec.annotations)
    BY DEF Kept
  <2>2. \A k \in DOMAIN spec.annotations : AnnotationSelected(o, k, spec.annotations[k])
    BY <2>1 DEF MatchAnnotations, AnnotationSelected
  <2> QED
    BY <1>3, <2>1, <2>2 DEF InScope
<1>6. ASSUME NEW o \in objects, InScope(spec, o), Finds(c, o) PROVE o \in kept
  BY <1>6 DEF InScope, Finds, Kept, MatchAnnotations, AnnotationSelected
<1> QED
  BY <1>1, <1>2, <1>4, <1>5, <1>6

\* The List calls are those of the types that pass the filter, in the namespaces
\* or, for types without, when the backup includes them; each is made once.
LEMMA CallsForFacts ==
  ASSUME NEW spec, NEW types \in Seq(Types), Distinct(types),
         NEW namespaces \in SUBSET STRING, IsFiniteSet(namespaces)
  PROVE  LET calls == CallsFor(spec, types, namespaces) IN
         /\ calls \in Seq(CallRecords) /\ Distinct(calls)
         /\ \A c \in ToSet(calls) :
              /\ c.type \in ToSet(types) /\ Selects(spec, c.type)
              /\ IF c.type.namespaced THEN c.namespace \in namespaces
                 ELSE IncludesCluster(spec) /\ c.namespace = NoNamespace
         /\ \A t \in ToSet(types) : Selects(spec, t) =>
              /\ t.namespaced => \A ns \in namespaces : Call(t, ns) \in ToSet(calls)
              /\ ~t.namespaced /\ IncludesCluster(spec) => Call(t, NoNamespace) \in ToSet(calls)
<1> DEFINE n == Len(types)
           made(t) == IF ~Selects(spec, t) THEN <<>>
                      ELSE IF t.namespaced THEN SetToSeq({Call(t, ns) : ns \in namespaces})
                      ELSE IF IncludesCluster(spec) THEN <<Call(t, NoNamespace)>> ELSE <<>>
           wanted(t) == {c \in CallRecords :
                           /\ c.type = t /\ Selects(spec, t)
                           /\ IF t.namespaced THEN c.namespace \in namespaces
                              ELSE IncludesCluster(spec) /\ c.namespace = NoNamespace}
           seqs == [i \in 1..n |-> made(types[i])]
           calls == FlattenSeq(seqs)
<1>1. n \in Nat /\ \A i \in 1..n : types[i] \in Types /\ types[i] \in ToSet(types)
  BY ToSetFacts
<1>2. ASSUME NEW t \in Types
      PROVE  made(t) \in Seq(CallRecords) /\ Distinct(made(t)) /\ ToSet(made(t)) = wanted(t)
  <2>1. \A ns \in STRING \cup {NoNamespace} :
          Call(t, ns) \in CallRecords /\ Call(t, ns).type = t /\ Call(t, ns).namespace = ns
    BY DEF Call, CallRecords
  <2>2. \A c \in CallRecords : c.type = t => c = Call(t, c.namespace)
    BY DEF Call, CallRecords
  <2> HIDE DEF CallRecords, Types
  <2>3. CASE ~Selects(spec, t)
    BY <2>3, EmptyFacts
  <2>4. CASE Selects(spec, t) /\ t.namespaced
    <3> DEFINE S == {Call(t, ns) : ns \in namespaces}
               f == [ns \in namespaces |-> Call(t, ns)]
    <3>1. f \in Surjection(namespaces, S)
      BY DEF Surjection
    <3>2. IsFiniteSet(S)
      BY <3>1, FS_Surjection
    <3>3. S \subseteq CallRecords /\ S = wanted(t)
      <4>1. S \subseteq wanted(t)
        BY <2>1, <2>4
      <4>2. \A c \in wanted(t) : c = Call(t, c.namespace) /\ c.namespace \in namespaces
        BY <2>2, <2>4
      <4>3. wanted(t) \subseteq S
        BY <4>2
      <4> QED
        BY <4>1, <4>3
    <3> HIDE DEF S
    <3>4. SetToSeq(S) \in Seq(S) /\ ToSet(SetToSeq(S)) = S /\ Distinct(SetToSeq(S))
      BY <3>2, SetToSeqFacts
    <3>5. SetToSeq(S) \in Seq(CallRecords)
      BY <3>3, <3>4
    <3>6. made(t) = SetToSeq(S)
      BY <2>4 DEF S
    <3> QED
      BY <3>3, <3>4, <3>5, <3>6
  <2>5. CASE Selects(spec, t) /\ ~t.namespaced /\ IncludesCluster(spec)
    <3> DEFINE c == Call(t, NoNamespace)
    <3>1. made(t) = <<c>> /\ c \in CallRecords
      BY <2>1, <2>5
    <3>2. wanted(t) = {c}
      BY <2>1, <2>2, <2>5
    <3> HIDE DEF c
    <3>3. <<c>> \in Seq(CallRecords) /\ ToSet(<<c>>) = {c} /\ Distinct(<<c>>)
      BY <3>1 DEF ToSet, Distinct
    <3> QED
      BY <3>1, <3>2, <3>3
  <2>6. CASE Selects(spec, t) /\ ~t.namespaced /\ ~IncludesCluster(spec)
    BY <2>6, EmptyFacts
  <2> QED
    BY <2>3, <2>4, <2>5, <2>6
<1> HIDE DEF made
<1>3. /\ seqs \in [1..n -> Seq(CallRecords)]
      /\ \A i \in 1..n : Distinct(seqs[i]) /\ ToSet(seqs[i]) = wanted(types[i])
  BY <1>1, <1>2
<1> HIDE DEF seqs
<1>4. \A i, j \in 1..n : i # j => ToSet(seqs[i]) \cap ToSet(seqs[j]) = {}
  <2>1. \A i, j \in 1..n : i # j => types[i] # types[j]
    BY DEF Distinct
  <2> QED
    BY <1>3, <2>1
<1>5. calls \in Seq(CallRecords) /\ Flattened(calls, seqs, n) /\ Distinct(calls)
  BY <1>1, <1>3, <1>4, FlattenFacts, FlattenDistinct
<1>6. calls = CallsFor(spec, types, namespaces)
  BY DEF CallsFor, seqs, made
<1> HIDE DEF calls
<1>7. \A c : c \in ToSet(calls) <=> \E i \in 1..n : c \in wanted(types[i])
  BY <1>3, <1>5 DEF Flattened
<1>8. \A t \in ToSet(types) : \E i \in 1..n : types[i] = t
  BY ToSetFacts
<1>9. \A t \in Types : \A ns \in STRING \cup {NoNamespace} :
        Call(t, ns) \in CallRecords /\ Call(t, ns).type = t /\ Call(t, ns).namespace = ns
  BY DEF Call, CallRecords
<1> QED
  BY <1>1, <1>5, <1>6, <1>7, <1>8, <1>9

-----------------------------------------------------------------------------
(* The beginning, and what a step of one worker has to show.               *)

LEMMA TaskFacts ==
  ASSUME Typed
  PROVE  task \in Assignments /\ DOMAIN task \subseteq Workers
  BY AssignmentsAssumption DEF Typed

LEMMA NewWorkerFacts ==
  /\ NewWorker \in WorkerRecords
  /\ \A spec, m : Good(spec, NewWorker, {}, {}, m)
<1>1. 1 \in DOMAIN Stamps
  BY StampsAssumption
<1>2. NewWorker \in WorkerRecords
  BY <1>1, EmptyFacts DEF NewWorker, WorkerRecords, WorkerStates
<1>3. /\ NewWorker.pc = "waiting" /\ NewWorker.calls = <<>> /\ NewWorker.documents = <<>>
      /\ NewWorker.namespaces = <<>> /\ NewWorker.claims = <<>>
  BY DEF NewWorker
<1> HIDE DEF NewWorker
<1>4. \A spec, m : Good(spec, NewWorker, {}, {}, m)
  BY <1>3, EmptyFacts DEF Good, Control, Scoped, Covered
<1> QED
  BY <1>2, <1>4

LEMMA InitIInv == Init => IInv
<1> SUFFICES ASSUME Init PROVE IInv
  OBVIOUS
<1>1. /\ clock = 1 /\ cluster = Initial /\ snapshots = {} /\ task \in Assignments
      /\ worker = [w \in Workers |-> NewWorker]
      /\ changes = 0 /\ failures = 0
      /\ ever = [w \in Workers |-> {}] /\ always = ever /\ missed = ever
      /\ late = [w \in Workers |-> FALSE]
  BY DEF Init
<1>2. Typed
  BY <1>1, ObjectsAssumption, StampsAssumption, BoundsAssumption, NewWorkerFacts DEF Typed
<1>3. ClusterGood
  BY <1>1, ObjectsAssumption DEF ClusterGood
<1>4. NewWorker.stamp = 1 /\ NewWorker.pc = "waiting"
  BY DEF NewWorker
<1>5. ASSUME NEW w \in DOMAIN task PROVE WorkerGood(w)
  <2>1. /\ worker[w] = NewWorker /\ ever[w] = {} /\ always[w] = {} /\ late[w] = FALSE
    BY <1>1, <1>2, TaskFacts
  <2>2. Good(task[w], NewWorker, {}, {}, missed[w])
    BY NewWorkerFacts
  <2>3. worker[w].stamp <= clock /\ ~Exporting(w)
    BY <1>1, <1>4, <2>1 DEF Exporting
  <2> QED
    BY <2>1, <2>2, <2>3 DEF WorkerGood
<1>6. \A w \in Workers : IdleWorker(w)
  BY <1>1 DEF IdleWorker
<1> QED
  BY <1>2, <1>3, <1>5, <1>6 DEF IInv

LEMMA WorkerWrite ==
  ASSUME IInv, NEW w \in DOMAIN task, NEW r \in WorkerRecords,
         NEW e \in SUBSET Objects, NEW a \in SUBSET Objects, NEW m, NEW l \in BOOLEAN,
         worker' = [worker EXCEPT ![w] = r],
         ever' = [ever EXCEPT ![w] = e], always' = [always EXCEPT ![w] = a],
         missed' = [missed EXCEPT ![w] = m], late' = [late EXCEPT ![w] = l],
         UNCHANGED <<clock, cluster, task, changes>>, failures' \in 0..MaxFailures,
         snapshots' \subseteq SnapshotRecords,
         \A s \in snapshots' : s.made <= clock /\ s.made >= 1 /\ Len(s.name) <= MaxNameLength,
         Good(task[w], r, e, a, m), r.stamp <= clock, l => ~r.intime,
         r.pc \notin {"waiting", "completed", "ended"} =>
           a \subseteq cluster /\ cluster \subseteq e
  PROVE  IInv'
<1>0. Typed /\ w \in Workers /\ DOMAIN task \subseteq Workers
  BY TaskFacts DEF IInv
<1>1. Typed'
  BY <1>0 DEF Typed
<1>2. ClusterGood'
  BY DEF IInv, ClusterGood, NamespacesIn
<1>3. /\ worker'[w] = r /\ ever'[w] = e /\ always'[w] = a /\ missed'[w] = m /\ late'[w] = l
  BY <1>0 DEF Typed
<1>4. WorkerGood(w)'
  BY <1>3 DEF WorkerGood, Exporting
<1>5. ASSUME NEW v \in Workers, v # w
      PROVE  /\ worker'[v] = worker[v] /\ ever'[v] = ever[v] /\ always'[v] = always[v]
             /\ missed'[v] = missed[v] /\ late'[v] = late[v]
  BY <1>0, <1>5 DEF Typed
<1>6. \A v \in DOMAIN task : v # w => WorkerGood(v)'
  BY <1>0, <1>5 DEF IInv, WorkerGood, Exporting
<1>7. \A v \in Workers \ DOMAIN task : IdleWorker(v)'
  BY <1>5 DEF IInv, IdleWorker
<1> QED
  BY <1>1, <1>2, <1>4, <1>6, <1>7 DEF IInv

\* A step that leaves what was there and what was missed as they are, and comes
\* from a state in which the worker exports.
LEMMA PlainWrite ==
  ASSUME IInv, NEW w \in DOMAIN task, Exporting(w), NEW r \in WorkerRecords,
         worker' = [worker EXCEPT ![w] = r],
         UNCHANGED <<clock, cluster, task, changes, history>>, failures' \in 0..MaxFailures,
         snapshots' \subseteq SnapshotRecords,
         \A s \in snapshots' : s.made <= clock /\ s.made >= 1 /\ Len(s.name) <= MaxNameLength,
         Good(task[w], worker[w], ever[w], always[w], missed[w])
           => Good(task[w], r, ever[w], always[w], missed[w]),
         r.stamp <= clock, r.intime => worker[w].intime
  PROVE  IInv'
<1>0. Typed /\ w \in Workers
  BY TaskFacts DEF IInv
<1>1. WorkerGood(w)
  BY DEF IInv
<1>2. ever' = [ever EXCEPT ![w] = ever[w]] /\ ever[w] \in SUBSET Objects
  BY <1>0 DEF history, Typed
<1>3. always' = [always EXCEPT ![w] = always[w]] /\ always[w] \in SUBSET Objects
  BY <1>0 DEF history, Typed
<1>4. missed' = [missed EXCEPT ![w] = missed[w]]
  BY <1>0 DEF history, Typed
<1>5. late' = [late EXCEPT ![w] = late[w]] /\ late[w] \in BOOLEAN
  BY <1>0 DEF history, Typed
<1>6. /\ Good(task[w], r, ever[w], always[w], missed[w])
      /\ late[w] => ~r.intime
      /\ always[w] \subseteq cluster /\ cluster \subseteq ever[w]
  BY <1>1 DEF WorkerGood
<1>7. PICK e \in SUBSET Objects, a \in SUBSET Objects, m \in {missed[w]}, l \in BOOLEAN :
        e = ever[w] /\ a = always[w] /\ m = missed[w] /\ l = late[w]
  BY <1>2, <1>3, <1>5
<1> HIDE DEF Good, Exporting
<1>8. /\ ever' = [ever EXCEPT ![w] = e] /\ always' = [always EXCEPT ![w] = a]
      /\ missed' = [missed EXCEPT ![w] = m] /\ late' = [late EXCEPT ![w] = l]
  BY <1>2, <1>3, <1>4, <1>5, <1>7
<1>9. /\ Good(task[w], r, e, a, m) /\ (l => ~r.intime)
      /\ a \subseteq cluster /\ cluster \subseteq e
  BY <1>6, <1>7
<1>10. r.pc \notin {"waiting", "completed", "ended"} =>
         a \subseteq cluster /\ cluster \subseteq e
  BY <1>9
<1>11. UNCHANGED <<clock, cluster, task, changes>>
  OBVIOUS
<1>12. Good(task[w], r, e, a, m) /\ (l => ~r.intime)
  BY <1>9
<1> QED
  BY <1>8, <1>10, <1>11, <1>12, WorkerWrite, ZenonT(30)

LEMMA WorkerFacts ==
  ASSUME IInv, NEW w \in DOMAIN task
  PROVE  /\ w \in Workers /\ worker[w] \in WorkerRecords
         /\ ever[w] \in SUBSET Objects /\ always[w] \in SUBSET Objects /\ late[w] \in BOOLEAN
         /\ Good(task[w], worker[w], ever[w], always[w], missed[w])
         /\ worker[w].stamp <= clock
         /\ late[w] => ~worker[w].intime
         /\ Exporting(w) => always[w] \subseteq cluster /\ cluster \subseteq ever[w]
<1>1. Typed /\ WorkerGood(w) /\ w \in Workers
  BY TaskFacts DEF IInv
<1>2. /\ worker[w] \in WorkerRecords
      /\ ever[w] \in SUBSET Objects /\ always[w] \in SUBSET Objects /\ late[w] \in BOOLEAN
  BY <1>1 DEF Typed
<1> HIDE DEF Good, Exporting
<1> QED
  BY <1>1, <1>2 DEF WorkerGood

\* A call that is answered counts for nothing, one that fails may count for one.
LEMMA FailedCall ==
  ASSUME Typed, NEW w, Answered(w) \/ CallFails(w)
  PROVE  failures' \in 0..MaxFailures
  BY BoundsAssumption DEF Typed, Answered, CallFails

\* What is there, and what was exported of it, does not change when a worker
\* goes on without another export.
LEMMA SameDocuments ==
  ASSUME NEW spec, NEW r \in WorkerRecords, NEW n \in WorkerRecords, NEW e, NEW a,
         NEW m, NEW l, m \subseteq l, Good(spec, r, e, a, m),
         n.documents = r.documents, n.calls = r.calls,
         ToSet(n.namespaces) \subseteq ToSet(r.namespaces)
           \/ \A ns \in ToSet(n.namespaces) : ns # NoNamespace /\ NamespaceInScope(spec, ns),
         n.pc # "discovery", n.pc \in SearchedStates => r.pc \in SearchedStates \/ ~spec.export,
         Control(n)
  PROVE  Good(spec, n, e, a, l)
<1>1. Scoped(spec, n, e)
  BY DEF Good, Scoped
<1>2. ASSUME spec.export, NEW o, Sought(r, o, m)
      PROVE  Sought(n, o, l)
  BY <1>2 DEF Sought
<1>3. Covered(spec, n, a, l)
  BY <1>2 DEF Good, Covered
<1> QED
  BY <1>1, <1>3 DEF Good

\* A step of a worker that leaves what it exported; a call may be passed over.
LEMMA SameDocumentsWrite ==
  ASSUME IInv, NEW w \in DOMAIN task, Exporting(w), NEW n \in WorkerRecords,
         worker' = [worker EXCEPT ![w] = n],
         n.documents = worker[w].documents, n.calls = worker[w].calls,
         ToSet(n.namespaces) \subseteq ToSet(worker[w].namespaces)
           \/ \A ns \in ToSet(n.namespaces) : ns # NoNamespace /\ NamespaceInScope(task[w], ns),
         n.pc # "discovery", n.pc \in SearchedStates => worker[w].pc \in SearchedStates,
         Control(n), n.stamp <= clock, n.intime => worker[w].intime,
         UNCHANGED <<clock, cluster, task, changes>>, failures' \in 0..MaxFailures,
         snapshots' \subseteq SnapshotRecords,
         \A s \in snapshots' : s.made <= clock /\ s.made >= 1 /\ Len(s.name) <= MaxNameLength,
         \/ UNCHANGED history
         \/ \E calls : PassedOver(w, calls)
         \/ UNCHANGED <<ever, always, late>>
              /\ \E calls : missed' = [missed EXCEPT ![w] = @ \cup calls]
  PROVE  IInv'
<1>0. /\ w \in Workers /\ worker[w] \in WorkerRecords
      /\ ever[w] \in SUBSET Objects /\ always[w] \in SUBSET Objects /\ late[w] \in BOOLEAN
      /\ Good(task[w], worker[w], ever[w], always[w], missed[w])
      /\ late[w] => ~worker[w].intime
      /\ always[w] \subseteq cluster /\ cluster \subseteq ever[w]
  BY WorkerFacts
<1> HIDE DEF Good, Exporting, Control
<1>1. CASE UNCHANGED history
  <2>1. Good(task[w], n, ever[w], always[w], missed[w])
    BY <1>0, SameDocuments
  <2> QED
    BY <1>1, <2>1, PlainWrite, ZenonT(30)
<1>2. ASSUME NEW calls, PassedOver(w, calls) \/
               (/\ UNCHANGED <<ever, always, late>>
                /\ missed' = [missed EXCEPT ![w] = @ \cup calls])
      PROVE  IInv'
  <2>1. PICK e \in SUBSET Objects, a \in SUBSET Objects, m \in {missed[w] \cup calls},
             l \in BOOLEAN :
          /\ e = ever[w] /\ a = always[w] /\ m = missed[w] \cup calls
          /\ l => ~worker[w].intime
          /\ l = late[w] \/ l = (late[w] \/ ~worker[w].intime)
          /\ late' = [late EXCEPT ![w] = l]
    <3>1. CASE PassedOver(w, calls)
      <4>1. (late[w] \/ ~worker[w].intime) \in BOOLEAN
        OBVIOUS
      <4> QED
        BY <1>0, <3>1, <4>1 DEF PassedOver
    <3>2. CASE UNCHANGED late
      BY <1>0, <3>2 DEF IInv, Typed
    <3> QED
      BY <1>2, <3>1, <3>2
  <2>2. missed' = [missed EXCEPT ![w] = m]
    BY <1>2, <2>1 DEF PassedOver
  <2>3. ever' = [ever EXCEPT ![w] = e] /\ always' = [always EXCEPT ![w] = a]
    BY <1>0, <1>2, <2>1 DEF PassedOver, IInv, Typed
  <2>4. Good(task[w], n, ever[w], always[w], missed[w] \cup calls)
    BY <1>0, SameDocuments
  <2>5. Good(task[w], n, e, a, m)
    BY <2>1, <2>4
  <2>6. l => ~n.intime
    BY <2>1
  <2>7. n.pc \notin {"waiting", "completed", "ended"} =>
          a \subseteq cluster /\ cluster \subseteq e
    BY <1>0, <2>1
  <2>8. UNCHANGED <<clock, cluster, task, changes>>
    OBVIOUS
  <2> QED
    BY <2>1, <2>2, <2>3, <2>5, <2>6, <2>7, <2>8, WorkerWrite, ZenonT(30)
<1> QED
  BY <1>1, <1>2


-----------------------------------------------------------------------------
(* The steps that only go on to another state.                             *)

LEMMA GotoFacts ==
  ASSUME NEW r \in WorkerRecords, NEW pc \in WorkerStates
  PROVE  LET n == [r EXCEPT !.pc = pc] IN
         /\ n \in WorkerRecords /\ n.pc = pc /\ n.intime = r.intime /\ n.calls = r.calls
         /\ n.documents = r.documents /\ n.namespaces = r.namespaces
         /\ n.claims = r.claims /\ n.stamp = r.stamp
<1> HIDE DEF WorkerStates
<1> QED
  BY DEF WorkerRecords

LEMMA GotoWrite ==
  ASSUME IInv, NEW w \in DOMAIN task, Exporting(w), NEW pc \in WorkerStates, Goto(w, pc),
         pc # "discovery", pc \in SearchedStates => worker[w].pc \in SearchedStates,
         Control([worker[w] EXCEPT !.pc = pc]),
         UNCHANGED <<clock, cluster, snapshots, task, changes, history>>,
         failures' \in 0..MaxFailures
  PROVE  IInv'
<1>0. worker[w] \in WorkerRecords /\ worker[w].stamp <= clock /\ Typed /\ ClusterGood
  BY WorkerFacts DEF IInv
<1>1. PICK n : n = [worker[w] EXCEPT !.pc = pc]
  OBVIOUS
<1>2. worker' = [worker EXCEPT ![w] = n]
  BY <1>1 DEF Goto
<1>3. /\ n \in WorkerRecords
      /\ n.pc = pc /\ n.intime = worker[w].intime /\ n.calls = worker[w].calls
      /\ n.documents = worker[w].documents /\ n.namespaces = worker[w].namespaces
      /\ n.claims = worker[w].claims /\ n.stamp = worker[w].stamp
  BY <1>0, <1>1, GotoFacts
<1>4. /\ snapshots' \subseteq SnapshotRecords
      /\ \A s \in snapshots' : s.made <= clock /\ s.made >= 1 /\ Len(s.name) <= MaxNameLength
  BY <1>0 DEF Typed, ClusterGood
<1> HIDE DEF Control, Exporting, Goto
<1>5. UNCHANGED <<clock, cluster, task, changes>> /\ UNCHANGED history
  OBVIOUS
<1>6. Control(n) /\ n.stamp <= clock /\ ToSet(n.namespaces) \subseteq ToSet(worker[w].namespaces)
  BY <1>0, <1>1, <1>3
<1> QED
  BY <1>2, <1>3, <1>4, <1>5, <1>6, SameDocumentsWrite

\* The failures, the way to the artifact, and the reports.
LEMMA GotoSteps ==
  ASSUME IInv, NEW w \in DOMAIN task,
         \/ ResolveNamespacesFails(w) \/ DiscoverFails(w) \/ StartSnapshotsFails(w)
         \/ SnapshotExists(w) \/ Pack(w) \/ StoreArtifact(w) \/ StoreArtifactFails(w)
         \/ Report(w) \/ ReportFails(w) \/ (StartSnapshots(w) /\ ~SnapshotsEnabled(task[w]))
  PROVE  IInv'
<1>0. worker[w] \in WorkerRecords /\ Control(worker[w]) /\ Typed
  BY WorkerFacts DEF Good, IInv
<1>1. \A pc \in WorkerStates :
        LET n == [worker[w] EXCEPT !.pc = pc] IN
        /\ n.pc = pc /\ n.intime = worker[w].intime /\ n.calls = worker[w].calls
        /\ n.documents = worker[w].documents /\ n.namespaces = worker[w].namespaces
        /\ n.claims = worker[w].claims
  BY <1>0, GotoFacts
<1>2. failures \in 0..MaxFailures
  BY <1>0 DEF Typed
<1>3. ASSUME NEW pc \in {"failing", "existing", "packed", "stored", "completed", "ended"}
      PROVE  pc \in WorkerStates
  BY DEF WorkerStates
<1>4. ASSUME ResolveNamespacesFails(w) \/ DiscoverFails(w) \/ StartSnapshotsFails(w)
                \/ StoreArtifactFails(w)
      PROVE  IInv'
  <2>1. /\ worker[w].pc \in {"namespaces", "discovery", "sorted", "packed"}
        /\ Goto(w, "failing") /\ CallFails(w)
        /\ UNCHANGED <<clock, cluster, snapshots, task, changes, history>>
    BY <1>4 DEF ResolveNamespacesFails, DiscoverFails, StartSnapshotsFails, StoreArtifactFails
  <2>2. Control([worker[w] EXCEPT !.pc = "failing"])
    BY <1>0, <1>1, <1>3, <2>1 DEF Control
  <2>3. failures' \in 0..MaxFailures
    BY <1>0, <2>1, FailedCall
  <2>4. "failing" \notin SearchedStates /\ Exporting(w)
    BY <2>1 DEF SearchedStates, Exporting
  <2> QED
    BY <1>3, <2>1, <2>2, <2>3, <2>4, GotoWrite
<1>5. CASE SnapshotExists(w)
  <2>1. /\ worker[w].pc = "snapshotting" /\ worker[w].claims # <<>>
        /\ Goto(w, "existing") /\ Answered(w)
        /\ UNCHANGED <<clock, cluster, snapshots, task, changes, history>>
    BY <1>5 DEF SnapshotExists, Creating
  <2>2. Control([worker[w] EXCEPT !.pc = "existing"])
    BY <1>0, <1>1, <1>3, <2>1 DEF Control
  <2>3. failures' \in 0..MaxFailures
    BY <1>0, <2>1, FailedCall
  <2>4. worker[w].pc \in SearchedStates /\ Exporting(w)
    BY <2>1 DEF SearchedStates, Exporting
  <2> QED
    BY <1>3, <2>1, <2>2, <2>3, <2>4, GotoWrite
<1>6. ASSUME NEW pc \in {"packed", "stored"},
             \/ pc = "packed" /\ Pack(w)
             \/ pc = "packed" /\ StartSnapshots(w) /\ ~SnapshotsEnabled(task[w])
             \/ pc = "stored" /\ StoreArtifact(w)
      PROVE  IInv'
  <2>1. /\ worker[w].pc \in {"sorted", "claims", "packed"} /\ Goto(w, pc)
        /\ UNCHANGED <<clock, cluster, snapshots, task, changes, failures, history>>
    BY <1>6 DEF Pack, StartSnapshots, StoreArtifact
  <2>2. Control([worker[w] EXCEPT !.pc = pc])
    BY <1>0, <1>1, <1>3, <2>1 DEF Control
  <2>3. worker[w].pc \in SearchedStates /\ Exporting(w)
    BY <2>1 DEF SearchedStates, Exporting
  <2> QED
    BY <1>2, <1>3, <2>1, <2>2, <2>3, GotoWrite
<1>7. ASSUME Report(w) \/ ReportFails(w)
      PROVE  IInv'
  <2>1. PICK pc \in {"completed", "ended"} :
          /\ worker[w].pc \in {"stored", "failing"} /\ Goto(w, pc)
          /\ pc = "completed" => worker[w].pc = "stored" /\ worker[w].intime
    BY <1>7 DEF Report, ReportFails, Answered
  <2>2. /\ Answered(w) \/ CallFails(w)
        /\ UNCHANGED <<clock, cluster, snapshots, task, changes, history>>
    BY <1>7 DEF Report, ReportFails
  <2>3. Control([worker[w] EXCEPT !.pc = pc])
    BY <1>0, <1>1, <1>3, <2>1 DEF Control
  <2>4. failures' \in 0..MaxFailures
    BY <1>0, <2>2, FailedCall
  <2>5. (pc \in SearchedStates => worker[w].pc \in SearchedStates) /\ Exporting(w)
    BY <2>1 DEF SearchedStates, Exporting
  <2> QED
    BY <1>3, <2>1, <2>2, <2>3, <2>4, <2>5, GotoWrite
<1> QED
  BY <1>4, <1>5, <1>6, <1>7


-----------------------------------------------------------------------------
(* The steps of the snapshots.                                             *)

\* What a worker has after it is done with a namespace, or with a claim.
LEMMA NextNamespaceFacts ==
  ASSUME NEW r \in WorkerRecords, r.namespaces # <<>>, r.calls = <<>>, r.claims = <<>>
  PROVE  LET n == NextNamespace(r) IN
         /\ n \in WorkerRecords /\ n.pc = "claims" /\ n.intime = r.intime
         /\ n.calls = r.calls /\ n.documents = r.documents /\ n.stamp = r.stamp
         /\ ToSet(n.namespaces) \subseteq ToSet(r.namespaces) /\ Control(n)
<1>1. Tail(r.namespaces) \in Seq(STRING) /\ ToSet(Tail(r.namespaces)) \subseteq ToSet(r.namespaces)
  BY TailFacts DEF WorkerRecords
<1>2. "claims" \in WorkerStates
  BY DEF WorkerStates
<1>3. ASSUME NEW rest \in Seq(STRING)
      PROVE  LET n == [r EXCEPT !.pc = "claims", !.namespaces = rest] IN
             /\ n \in WorkerRecords /\ n.pc = "claims" /\ n.intime = r.intime
             /\ n.calls = r.calls /\ n.documents = r.documents /\ n.stamp = r.stamp
             /\ n.namespaces = rest /\ n.claims = r.claims
  <2> HIDE DEF WorkerStates
  <2> QED
    BY <1>2 DEF WorkerRecords
<1> QED
  BY <1>1, <1>3 DEF NextNamespace, Control

LEMMA NextClaimFacts ==
  ASSUME NEW r \in WorkerRecords, r.claims # <<>>, r.calls = <<>>, r.namespaces # <<>>,
         NEW n, n = WithoutSnapshot(r) \/ \E s \in SnapshotRecords : n = Took(r, s)
  PROVE  /\ n \in WorkerRecords /\ n.pc = "snapshotting" /\ n.intime = r.intime
         /\ n.calls = r.calls /\ n.documents = r.documents /\ n.stamp = r.stamp
         /\ n.namespaces = r.namespaces /\ Control(n)
<1>1. Tail(r.claims) \in Seq(Objects)
  BY TailFacts DEF WorkerRecords
<1>2. "snapshotting" \in WorkerStates /\ r.taken \in Seq(SnapshotRecords)
  BY DEF WorkerStates, WorkerRecords
<1>3. \A s \in SnapshotRecords : Append(r.taken, s) \in Seq(SnapshotRecords)
  <2> HIDE DEF SnapshotRecords
  <2> QED
    BY <1>2
<1>4. PICK taken \in Seq(SnapshotRecords) :
        n = [r EXCEPT !.pc = "snapshotting", !.claims = Tail(@), !.taken = taken]
  <2>1. CASE n = WithoutSnapshot(r)
    <3>1. n = [r EXCEPT !.pc = "snapshotting", !.claims = Tail(@), !.taken = r.taken]
      BY <2>1 DEF WithoutSnapshot, WorkerRecords
    <3> QED
      BY <1>2, <3>1
  <2>2. ASSUME NEW s \in SnapshotRecords, n = Took(r, s)
        PROVE  n = [r EXCEPT !.pc = "snapshotting", !.claims = Tail(@),
                      !.taken = Append(r.taken, s)]
    BY <2>2 DEF Took
  <2> QED
    BY <1>3, <2>1, <2>2
<1>5. ASSUME NEW rest \in Seq(Objects), rest = Tail(r.claims)
      PROVE  /\ n \in WorkerRecords /\ n.pc = "snapshotting" /\ n.intime = r.intime
             /\ n.calls = r.calls /\ n.documents = r.documents /\ n.stamp = r.stamp
             /\ n.namespaces = r.namespaces
  <2> HIDE DEF WorkerStates, SnapshotRecords
  <2> QED
    BY <1>2, <1>4, <1>5 DEF WorkerRecords
<1> QED
  BY <1>1, <1>5 DEF Control

\* The namespace and the claim a worker is at.
LEMMA AtClaim ==
  ASSUME IInv, NEW w \in DOMAIN task, Creating(w) \/ worker[w].pc = "existing"
  PROVE  /\ worker[w].claims # <<>> /\ worker[w].namespaces # <<>> /\ worker[w].calls = <<>>
         /\ Namespace(w) \in STRING /\ Claim(w).name \in Seq(STRING)
         /\ task[w].name \in Seq(STRING) /\ Exporting(w) /\ worker[w].pc \in SearchedStates
<1>1. worker[w] \in WorkerRecords /\ Control(worker[w])
  BY WorkerFacts DEF Good
<1>2. /\ worker[w].claims # <<>> /\ worker[w].namespaces # <<>> /\ worker[w].calls = <<>>
      /\ worker[w].pc \in {"snapshotting", "existing"}
  BY <1>1 DEF Control, Creating
<1>3. Namespace(w) \in STRING
  BY <1>1, <1>2, TailFacts DEF WorkerRecords, Namespace
<1>4. Claim(w) \in Objects
  BY <1>1, <1>2, TailFacts DEF WorkerRecords, Claim
<1>5. task[w].name \in Seq(STRING)
  BY TaskFacts, AssignmentsAssumption DEF IInv
<1> QED
  BY <1>2, <1>3, <1>4, <1>5, ObjectsAssumption DEF Exporting, SearchedStates

\* A name is cut off at the length that the API server allows.
LEMMA NameFacts ==
  ASSUME NEW backup \in Seq(STRING), NEW claim \in Seq(STRING), NEW stamp \in STRING
  PROVE  /\ SnapshotName(backup, claim, stamp) \in Seq(NameParts)
         /\ Len(SnapshotName(backup, claim, stamp)) <= MaxNameLength
<1>1. ASSUME NEW D, NEW x \in D, NEW y \in D, NEW s \in Seq(D), NEW t \in Seq(D)
      PROVE  s \o <<x>> \o t \o <<x, y>> \in Seq(D)
  <2>1. <<x>> \in Seq(D) /\ <<x, y>> \in Seq(D)
    OBVIOUS
  <2>2. s \o <<x>> \in Seq(D)
    BY <2>1
  <2>3. s \o <<x>> \o t \in Seq(D)
    BY <2>2
  <2> QED
    BY <2>1, <2>3
<1>2. "-" \in NameParts /\ stamp \in NameParts
  BY DEF NameParts
<1>3. backup \in Seq(NameParts) /\ claim \in Seq(NameParts)
  BY DEF NameParts
<1>4. FullName(backup, claim, stamp) \in Seq(NameParts)
  <2> HIDE DEF NameParts
  <2> QED
    BY <1>1, <1>2, <1>3 DEF FullName
<1>5. ASSUME NEW D, NEW name \in Seq(D)
      PROVE  SanitizeName(name) \in Seq(D) /\ Len(SanitizeName(name)) <= MaxNameLength
  <2>1. CASE Len(name) > MaxNameLength
    <3>1. /\ SubSeq(name, 1, MaxNameLength) \in Seq(D)
          /\ Len(SubSeq(name, 1, MaxNameLength)) = MaxNameLength
      BY <2>1, MaxNameLengthAssumption
    <3> QED
      BY <2>1, <3>1, MaxNameLengthAssumption DEF SanitizeName
  <2>2. CASE ~(Len(name) > MaxNameLength)
    BY <2>2, MaxNameLengthAssumption DEF SanitizeName
  <2> QED
    BY <2>1, <2>2
<1> QED
  BY <1>4, <1>5 DEF SnapshotName


\* A claim is done with, with or without a snapshot that is there.
LEMMA ClaimSteps ==
  ASSUME IInv, NEW w \in DOMAIN task,
         CreateSnapshot(w) \/ GetSnapshot(w) \/ SnapshotFails(w) \/ SnapshotRefused(w)
           \/ SnapshotGone(w)
  PROVE  IInv'
<1>0. /\ worker[w] \in WorkerRecords /\ worker[w].stamp <= clock
      /\ Typed /\ ClusterGood /\ clock \in Nat /\ clock >= 1
  <2>1. /\ worker[w] \in WorkerRecords /\ worker[w].stamp <= clock
        /\ Typed /\ ClusterGood
    BY WorkerFacts DEF IInv
  <2>2. clock \in Nat /\ clock >= 1
    BY <2>1, StampsAssumption DEF Typed
  <2> QED
    BY <2>1, <2>2
<1>1. /\ worker[w].claims # <<>> /\ worker[w].namespaces # <<>> /\ worker[w].calls = <<>>
      /\ Namespace(w) \in STRING /\ Claim(w).name \in Seq(STRING)
      /\ task[w].name \in Seq(STRING) /\ Exporting(w) /\ worker[w].pc \in SearchedStates
  BY AtClaim DEF CreateSnapshot, GetSnapshot, SnapshotFails, SnapshotRefused, SnapshotGone
<1>2. SnapshotFor(w) \in SnapshotRecords /\ SnapshotFor(w).made = clock
      /\ Len(SnapshotFor(w).name) <= MaxNameLength
  <2>1. Stamps[worker[w].stamp] \in STRING
    BY <1>0, StampsAssumption DEF WorkerRecords
  <2>2. PICK name \in Seq(NameParts) : name = NameFor(w) /\ Len(name) <= MaxNameLength
    BY <1>1, <2>1, NameFacts DEF NameFor
  <2>3. SnapshotFor(w) = [namespace |-> Namespace(w), name |-> name, backup |-> task[w].name,
                          claim |-> Claim(w).name, made |-> clock]
    BY <2>2 DEF SnapshotFor
  <2> QED
    BY <1>0, <1>1, <2>2, <2>3 DEF SnapshotRecords
<1>3. /\ UNCHANGED <<clock, cluster, task, changes>>
      /\ Answered(w) \/ CallFails(w)
      /\ snapshots' = snapshots \/ snapshots' = snapshots \cup {SnapshotFor(w)}
      /\ \/ UNCHANGED history
         \/ \E calls : PassedOver(w, calls)
         \/ UNCHANGED <<ever, always, late>>
              /\ \E calls : missed' = [missed EXCEPT ![w] = @ \cup calls]
  BY DEF CreateSnapshot, GetSnapshot, SnapshotFails, SnapshotRefused, SnapshotGone,
         PassedOver
<1>4. failures' \in 0..MaxFailures
  BY <1>0, <1>3, FailedCall
<1>5. /\ snapshots' \subseteq SnapshotRecords
      /\ \A s \in snapshots' : s.made <= clock /\ s.made >= 1 /\ Len(s.name) <= MaxNameLength
  <2>1. /\ snapshots \subseteq SnapshotRecords
        /\ \A s \in snapshots : s.made <= clock /\ s.made >= 1 /\ Len(s.name) <= MaxNameLength
    BY <1>0 DEF Typed, ClusterGood
  <2>2. ASSUME NEW f, f = SnapshotFor(w)
        PROVE  f \in SnapshotRecords /\ f.made <= clock /\ f.made >= 1
               /\ Len(f.name) <= MaxNameLength
    BY <1>0, <1>2, <2>2
  <2> HIDE DEF SnapshotRecords
  <2> QED
    BY <1>3, <2>1, <2>2
<1>6. \E n : /\ worker' = [worker EXCEPT ![w] = n]
             /\ n = WithoutSnapshot(worker[w])
                  \/ \E s \in SnapshotRecords : n = Took(worker[w], s)
  <2>1. CASE CreateSnapshot(w)
    BY <1>2, <2>1 DEF CreateSnapshot
  <2>2. CASE GetSnapshot(w)
    <3>1. PICK s \in SnapshotAt(Namespace(w), NameFor(w)) :
            worker' = [worker EXCEPT ![w] = Took(worker[w], s)]
      BY <2>2 DEF GetSnapshot
    <3>2. s \in SnapshotRecords
      BY <1>0 DEF Typed, SnapshotAt
    <3> QED
      BY <3>1, <3>2
  <2>3. CASE SnapshotFails(w) \/ SnapshotRefused(w) \/ SnapshotGone(w)
    <3>1. worker' = [worker EXCEPT ![w] = WithoutSnapshot(worker[w])]
      BY <2>3 DEF SnapshotFails, SnapshotRefused, SnapshotGone
    <3> QED
      BY <3>1
  <2> QED
    BY <2>1, <2>2, <2>3
<1>7. PICK n : /\ worker' = [worker EXCEPT ![w] = n]
               /\ n = WithoutSnapshot(worker[w])
                    \/ \E s \in SnapshotRecords : n = Took(worker[w], s)
  BY <1>6
<1>8. /\ n \in WorkerRecords /\ n.pc = "snapshotting" /\ n.intime = worker[w].intime
      /\ n.calls = worker[w].calls /\ n.documents = worker[w].documents
      /\ n.stamp = worker[w].stamp
      /\ n.namespaces = worker[w].namespaces /\ Control(n)
  BY <1>0, <1>1, <1>7, NextClaimFacts
<1> HIDE DEF Exporting, Control
<1>9. /\ ToSet(n.namespaces) \subseteq ToSet(worker[w].namespaces)
      /\ n.stamp <= clock
      /\ n.pc \in SearchedStates => worker[w].pc \in SearchedStates
  BY <1>0, <1>1, <1>8
<1> QED
  BY <1>1, <1>3, <1>4, <1>5, <1>7, <1>8, <1>9, SameDocumentsWrite

\* The claims of a namespace are listed, or it is passed over or done with.
LEMMA NamespaceSteps ==
  ASSUME IInv, NEW w \in DOMAIN task,
         ListClaims(w) \/ ListClaimsFails(w) \/ EndOfClaims(w)
  PROVE  IInv'
<1>0. /\ worker[w] \in WorkerRecords /\ worker[w].stamp <= clock
      /\ Typed /\ ClusterGood /\ Control(worker[w])
  BY WorkerFacts DEF IInv, Good
<1>1. /\ worker[w].pc \in {"claims", "snapshotting"} /\ worker[w].claims = <<>>
      /\ worker[w].namespaces # <<>> /\ worker[w].calls = <<>>
  BY <1>0 DEF ListClaims, ListClaimsFails, EndOfClaims, Control
<1>2. worker[w].pc \in SearchedStates /\ Exporting(w)
  BY <1>1 DEF SearchedStates, Exporting
<1>3. /\ UNCHANGED <<clock, cluster, task, changes>>
      /\ Answered(w) \/ CallFails(w) \/ UNCHANGED failures
      /\ UNCHANGED snapshots
      /\ UNCHANGED history \/ \E calls : PassedOver(w, calls)
  BY DEF ListClaims, ListClaimsFails, EndOfClaims, PassedOver
<1>4. failures' \in 0..MaxFailures
  BY <1>0, <1>3, FailedCall DEF Typed
<1>5. /\ snapshots' \subseteq SnapshotRecords
      /\ \A s \in snapshots' : s.made <= clock /\ s.made >= 1 /\ Len(s.name) <= MaxNameLength
  BY <1>0, <1>3 DEF Typed, ClusterGood
<1>6. CASE ListClaims(w)
  <2>1. SetToSeq(Claims(task[w], Namespace(w), cluster)) \in Seq(Objects)
    <3>1. Claims(task[w], Namespace(w), cluster) \subseteq Objects
      BY <1>0 DEF Claims, Typed
    <3>2. IsFiniteSet(Claims(task[w], Namespace(w), cluster))
      BY <3>1, ObjectsAssumption, FS_Subset
    <3> QED
      BY <3>1, <3>2, SetToSeqFacts
  <2>2. PICK claims \in Seq(Objects) :
          worker' = [worker EXCEPT ![w] =
                       [worker[w] EXCEPT !.pc = "snapshotting", !.claims = claims]]
    BY <1>6, <2>1 DEF ListClaims
  <2>3. PICK n : n = [worker[w] EXCEPT !.pc = "snapshotting", !.claims = claims]
    OBVIOUS
  <2>4. "snapshotting" \in WorkerStates
    BY DEF WorkerStates
  <2>5. /\ n \in WorkerRecords /\ n.pc = "snapshotting" /\ n.intime = worker[w].intime
        /\ n.calls = worker[w].calls /\ n.documents = worker[w].documents
        /\ n.stamp = worker[w].stamp /\ n.namespaces = worker[w].namespaces
    <3> HIDE DEF WorkerStates, SnapshotRecords
    <3> QED
      BY <1>0, <2>3, <2>4 DEF WorkerRecords
  <2>6. Control(n)
    BY <1>1, <2>5 DEF Control
  <2> HIDE DEF Exporting, Control
  <2>7. /\ ToSet(n.namespaces) \subseteq ToSet(worker[w].namespaces)
        /\ n.stamp <= clock /\ n.pc # "discovery"
        /\ n.pc \in SearchedStates => worker[w].pc \in SearchedStates
    BY <1>0, <1>2, <2>5
  <2>8. worker' = [worker EXCEPT ![w] = n]
    BY <2>2, <2>3
  <2> QED
    BY <1>2, <1>3, <1>4, <1>5, <2>5, <2>6, <2>7, <2>8, SameDocumentsWrite
<1>7. CASE ListClaimsFails(w) \/ EndOfClaims(w)
  <2>1. PICK n : n = NextNamespace(worker[w])
    OBVIOUS
  <2>2. worker' = [worker EXCEPT ![w] = n]
    BY <1>7, <2>1 DEF ListClaimsFails, EndOfClaims
  <2>3. /\ n \in WorkerRecords /\ n.pc = "claims" /\ n.intime = worker[w].intime
        /\ n.calls = worker[w].calls /\ n.documents = worker[w].documents
        /\ n.stamp = worker[w].stamp
        /\ ToSet(n.namespaces) \subseteq ToSet(worker[w].namespaces) /\ Control(n)
    BY <1>0, <1>1, <2>1, NextNamespaceFacts
  <2> HIDE DEF Exporting, Control
  <2>4. /\ n.stamp <= clock /\ n.pc # "discovery"
        /\ n.pc \in SearchedStates => worker[w].pc \in SearchedStates
    BY <1>0, <1>2, <2>3
  <2> QED
    BY <1>2, <1>3, <1>4, <1>5, <2>2, <2>3, <2>4, SameDocumentsWrite
<1> QED
  BY <1>6, <1>7


\* The namespaces are resolved again, and the clock is read.
LEMMA SnapshotsStart ==
  ASSUME IInv, NEW w \in DOMAIN task, StartSnapshots(w), SnapshotsEnabled(task[w])
  PROVE  IInv'
<1>0. /\ worker[w] \in WorkerRecords /\ Typed /\ ClusterGood /\ Control(worker[w])
  BY WorkerFacts DEF IInv, Good
<1>1. /\ worker[w].pc = "sorted" /\ worker[w].claims = <<>> /\ worker[w].calls = <<>>
      /\ UNCHANGED <<clock, cluster, snapshots, task, changes, failures, history>>
  BY <1>0 DEF StartSnapshots, Control
<1>2. worker[w].pc \in SearchedStates /\ Exporting(w)
  BY <1>1 DEF SearchedStates, Exporting
<1>3. /\ cluster \in SUBSET Objects /\ clock \in DOMAIN Stamps /\ task \in Assignments
      /\ failures' \in 0..MaxFailures
  BY <1>0, <1>1 DEF Typed
<1>4. clock <= clock
  BY <1>3, StampsAssumption
<1>5. PICK found : found = ResolvedNamespaces(task[w], NamespacesIn(cluster))
  OBVIOUS
<1>6. /\ IsFiniteSet(found) /\ found \subseteq STRING
      /\ \A ns \in found : ns # NoNamespace /\ NamespaceInScope(task[w], ns)
  BY <1>3, <1>5, ResolvedFacts
<1>7. PICK names : names = SetToSeq(found) /\ names \in Seq(STRING) /\ ToSet(names) = found
  BY <1>6, SetToSeqIn
<1>8. PICK n : n = [worker[w] EXCEPT !.pc = "claims", !.stamp = clock, !.namespaces = names]
  OBVIOUS
<1>9. worker' = [worker EXCEPT ![w] = n]
  BY <1>5, <1>7, <1>8 DEF StartSnapshots
<1>10. "claims" \in WorkerStates
  BY DEF WorkerStates
<1>11. /\ n \in WorkerRecords /\ n.pc = "claims" /\ n.intime = worker[w].intime
       /\ n.calls = worker[w].calls /\ n.documents = worker[w].documents
       /\ n.claims = worker[w].claims /\ n.stamp = clock /\ n.namespaces = names
  <2> HIDE DEF WorkerStates, SnapshotRecords
  <2> QED
    BY <1>0, <1>3, <1>7, <1>8, <1>10 DEF WorkerRecords
<1>12. Control(n)
  BY <1>1, <1>11 DEF Control
<1>13. /\ snapshots' \subseteq SnapshotRecords
       /\ \A s \in snapshots' : s.made <= clock /\ s.made >= 1 /\ Len(s.name) <= MaxNameLength
  BY <1>0, <1>1 DEF Typed, ClusterGood
<1> HIDE DEF Exporting, Control
<1>14. /\ \A ns \in ToSet(n.namespaces) : ns # NoNamespace /\ NamespaceInScope(task[w], ns)
       /\ n.stamp <= clock /\ n.pc # "discovery" /\ worker[w].pc \in SearchedStates
       /\ UNCHANGED history /\ UNCHANGED <<clock, cluster, task, changes>>
  BY <1>1, <1>2, <1>4, <1>6, <1>7, <1>11
<1> QED
  BY <1>2, <1>3, <1>9, <1>11, <1>12, <1>13, <1>14, SameDocumentsWrite

LEMMA ContextSteps ==
  ASSUME IInv, NEW w \in DOMAIN task, ContextEnds(w)
  PROVE  IInv'
<1>0. /\ worker[w] \in WorkerRecords /\ worker[w].stamp <= clock /\ Typed /\ ClusterGood
      /\ Good(task[w], worker[w], ever[w], always[w], missed[w])
  BY WorkerFacts DEF IInv
<1>1. /\ Exporting(w) /\ worker[w].intime
      /\ UNCHANGED <<clock, cluster, snapshots, task, changes, failures, history>>
  BY DEF ContextEnds
<1>2. PICK n : n = [worker[w] EXCEPT !.intime = FALSE]
  OBVIOUS
<1>3. /\ n \in WorkerRecords /\ n.pc = worker[w].pc /\ n.intime = FALSE
      /\ n.calls = worker[w].calls /\ n.documents = worker[w].documents
      /\ n.claims = worker[w].claims /\ n.stamp = worker[w].stamp
      /\ n.namespaces = worker[w].namespaces
  <2> HIDE DEF WorkerStates, SnapshotRecords
  <2> QED
    BY <1>0, <1>2 DEF WorkerRecords
<1>4. worker' = [worker EXCEPT ![w] = n]
  BY <1>2 DEF ContextEnds
<1>5. Good(task[w], worker[w], ever[w], always[w], missed[w])
        => Good(task[w], n, ever[w], always[w], missed[w])
  <2> SUFFICES ASSUME NEW spec, NEW r, NEW e, NEW a, NEW m, Good(spec, r, e, a, m),
                      n.pc = r.pc, n.calls = r.calls, n.documents = r.documents,
                      n.claims = r.claims, n.namespaces = r.namespaces,
                      r.pc # "completed"
               PROVE  Good(spec, n, e, a, m)
    BY <1>1, <1>3 DEF Exporting
  <2>1. Control(n) /\ Scoped(spec, n, e)
    BY DEF Good, Control, Scoped
  <2>2. \A o : Sought(r, o, m) => Sought(n, o, m)
    BY DEF Sought
  <2>3. Covered(spec, n, a, m)
    BY <2>2 DEF Good, Covered
  <2> QED
    BY <2>1, <2>3 DEF Good
<1>6. /\ snapshots' \subseteq SnapshotRecords
      /\ \A s \in snapshots' : s.made <= clock /\ s.made >= 1 /\ Len(s.name) <= MaxNameLength
      /\ failures' \in 0..MaxFailures
  BY <1>0, <1>1 DEF Typed, ClusterGood
<1>7. /\ n.stamp <= clock /\ (n.intime => worker[w].intime)
      /\ UNCHANGED <<clock, cluster, task, changes, history>>
  BY <1>0, <1>1, <1>3
<1> HIDE DEF Good, Exporting
<1> QED
  BY <1>1, <1>3, <1>4, <1>5, <1>6, <1>7, PlainWrite

LEMMA SnapshotSteps ==
  ASSUME IInv, NEW w \in DOMAIN task, SnapshotStep(w)
  PROVE  IInv'
  BY GotoSteps, ClaimSteps, NamespaceSteps, SnapshotsStart DEF SnapshotStep


-----------------------------------------------------------------------------
(* The steps of the export.                                                *)

LEMMA ToSetFinite ==
  ASSUME NEW D, NEW s \in Seq(D)
  PROVE  IsFiniteSet(ToSet(s))
<1>1. Len(s) \in Nat /\ DOMAIN s = 1..Len(s)
  OBVIOUS
<1>2. IsFiniteSet(1..Len(s))
  BY <1>1, FS_Interval
<1>3. [i \in 1..Len(s) |-> s[i]] \in Surjection(1..Len(s), ToSet(s))
  BY <1>1 DEF Surjection, ToSet
<1> QED
  BY <1>2, <1>3, FS_Surjection

\* A step that changes what a worker is about to export, or has exported, in any
\* way that keeps it good.
LEMMA ExportWrite ==
  ASSUME IInv, NEW w \in DOMAIN task, worker[w].pc \notin {"completed", "ended"},
         NEW n \in WorkerRecords, worker' = [worker EXCEPT ![w] = n],
         NEW e \in SUBSET Objects, NEW a \in SUBSET Objects, NEW m,
         ever' = [ever EXCEPT ![w] = e], always' = [always EXCEPT ![w] = a],
         missed' = [missed EXCEPT ![w] = m], UNCHANGED late,
         Good(task[w], n, e, a, m), a \subseteq cluster, cluster \subseteq e,
         n.stamp = worker[w].stamp, n.intime = worker[w].intime,
         UNCHANGED <<clock, cluster, snapshots, task, changes>>, failures' \in 0..MaxFailures
  PROVE  IInv'
<1>0. /\ worker[w].stamp <= clock /\ Typed /\ ClusterGood /\ w \in Workers
      /\ late[w] \in BOOLEAN /\ (late[w] => ~worker[w].intime)
  BY WorkerFacts DEF IInv
<1>1. /\ snapshots' \subseteq SnapshotRecords
      /\ \A s \in snapshots' : s.made <= clock /\ s.made >= 1 /\ Len(s.name) <= MaxNameLength
  BY <1>0 DEF Typed, ClusterGood
<1>2. PICK l \in BOOLEAN : l = late[w]
  BY <1>0
<1>3. late' = [late EXCEPT ![w] = l]
  BY <1>0, <1>2 DEF Typed
<1>4. n.stamp <= clock /\ (l => ~n.intime) /\ UNCHANGED <<clock, cluster, task, changes>>
  BY <1>0, <1>2
<1>5. n.pc \notin {"waiting", "completed", "ended"} =>
        a \subseteq cluster /\ cluster \subseteq e
  OBVIOUS
<1> HIDE DEF Good
<1> QED
  BY <1>1, <1>3, <1>4, <1>5, WorkerWrite

LEMMA StartSteps ==
  ASSUME IInv, NEW w \in DOMAIN task, StartExport(w)
  PROVE  IInv'
<1>0. /\ worker[w] \in WorkerRecords /\ Typed /\ w \in Workers
      /\ Good(task[w], worker[w], ever[w], always[w], missed[w])
  BY WorkerFacts DEF IInv
<1>1. /\ worker[w].pc = "waiting"
      /\ UNCHANGED <<clock, cluster, snapshots, task, changes, failures, missed, late>>
  BY DEF StartExport
<1>2. PICK pc \in {"namespaces", "sorted"} :
        pc = IF task[w].export THEN "namespaces" ELSE "sorted"
  OBVIOUS
<1>3. pc \in WorkerStates
  BY <1>2 DEF WorkerStates
<1>4. PICK n : n = [worker[w] EXCEPT !.pc = pc]
  OBVIOUS
<1>5. /\ n \in WorkerRecords
       /\ n.pc = pc /\ n.intime = worker[w].intime /\ n.calls = worker[w].calls
       /\ n.documents = worker[w].documents /\ n.namespaces = worker[w].namespaces
       /\ n.claims = worker[w].claims /\ n.stamp = worker[w].stamp
  BY <1>0, <1>3, <1>4, GotoFacts
<1>6. worker' = [worker EXCEPT ![w] = n]
  BY <1>2, <1>4 DEF StartExport, Goto
<1>7. PICK e \in SUBSET Objects : e = cluster
  BY <1>0 DEF Typed
<1>8. PICK m \in {missed[w]} : m = missed[w]
  OBVIOUS
<1>9. /\ ever' = [ever EXCEPT ![w] = e] /\ always' = [always EXCEPT ![w] = e]
      /\ missed' = [missed EXCEPT ![w] = m] /\ UNCHANGED late
  BY <1>0, <1>1, <1>7, <1>8 DEF StartExport, Typed
<1>10. Good(task[w], n, e, e, m)
  <2>1. /\ n.calls = <<>> /\ n.claims = <<>> /\ n.documents = <<>>
    BY <1>0, <1>1, <1>5 DEF Good, Control
  <2>2. Control(n)
    BY <1>2, <1>5, <2>1 DEF Control
  <2>3. Scoped(task[w], n, e)
    BY <1>0, <1>5, <2>1, EmptyFacts DEF Good, Scoped
  <2>4. Covered(task[w], n, e, m)
    BY <1>2, <1>5, <2>1, EmptyFacts DEF Covered, Sought, SearchedStates
  <2> QED
    BY <2>2, <2>3, <2>4 DEF Good
<1>11. failures' \in 0..MaxFailures /\ UNCHANGED <<clock, cluster, snapshots, task, changes>>
  BY <1>0, <1>1 DEF Typed
<1>12. /\ e \subseteq cluster /\ cluster \subseteq e /\ n.stamp = worker[w].stamp
       /\ n.intime = worker[w].intime /\ worker[w].pc \notin {"completed", "ended"}
  BY <1>1, <1>5, <1>7
<1> HIDE DEF Good
<1> QED
  BY <1>5, <1>6, <1>9, <1>10, <1>11, <1>12, ExportWrite

\* A worker that exports goes on with what was there, and the same calls missed.
LEMMA ExportGoesOn ==
  ASSUME IInv, NEW w \in DOMAIN task,
         worker[w].pc \in {"namespaces", "discovery", "listing"},
         NEW n \in WorkerRecords, worker' = [worker EXCEPT ![w] = n],
         UNCHANGED <<ever, always, late>>,
         NEW m, missed' = [missed EXCEPT ![w] = m],
         Good(task[w], n, ever[w], always[w], m),
         n.stamp = worker[w].stamp, n.intime = worker[w].intime,
         UNCHANGED <<clock, cluster, snapshots, task, changes>>, failures' \in 0..MaxFailures
  PROVE  IInv'
<1>0. /\ w \in Workers /\ ever[w] \in SUBSET Objects /\ always[w] \in SUBSET Objects
      /\ Exporting(w) => always[w] \subseteq cluster /\ cluster \subseteq ever[w]
      /\ Typed
  BY WorkerFacts DEF IInv
<1>1. Exporting(w) /\ worker[w].pc \notin {"completed", "ended"}
  BY DEF Exporting
<1>2. PICK e \in SUBSET Objects, a \in SUBSET Objects : e = ever[w] /\ a = always[w]
  BY <1>0
<1>3. ever' = [ever EXCEPT ![w] = e] /\ always' = [always EXCEPT ![w] = a] /\ UNCHANGED late
  BY <1>0, <1>2 DEF Typed
<1> HIDE DEF Good, Exporting
<1>4. Good(task[w], n, e, a, m) /\ a \subseteq cluster /\ cluster \subseteq e
  BY <1>0, <1>1, <1>2
<1> QED
  BY <1>1, <1>3, <1>4, ExportWrite

LEMMA ResolveSteps ==
  ASSUME IInv, NEW w \in DOMAIN task, ResolveNamespaces(w)
  PROVE  IInv'
<1>0. /\ worker[w] \in WorkerRecords /\ Typed /\ ClusterGood /\ w \in Workers
      /\ Good(task[w], worker[w], ever[w], always[w], missed[w])
      /\ Exporting(w) => always[w] \subseteq cluster
  BY WorkerFacts DEF IInv
<1>1. /\ worker[w].pc = "namespaces"
      /\ UNCHANGED <<clock, cluster, snapshots, task, changes, failures, history>>
  BY DEF ResolveNamespaces
<1>2. always[w] \subseteq cluster /\ cluster \in SUBSET Objects /\ task \in Assignments
  BY <1>0, <1>1 DEF Exporting, Typed
<1>3. PICK found : found = ResolvedNamespaces(task[w], NamespacesIn(cluster))
  OBVIOUS
<1>4. /\ IsFiniteSet(found) /\ found \subseteq STRING
      /\ \A ns \in found : ns # NoNamespace /\ NamespaceInScope(task[w], ns)
      /\ \A ns \in NamespacesIn(cluster) : NamespaceInScope(task[w], ns) => ns \in found
  BY <1>2, <1>3, ResolvedFacts
<1>5. PICK names : names = SetToSeq(found) /\ names \in Seq(STRING) /\ ToSet(names) = found
  BY <1>4, SetToSeqIn
<1>6. PICK n : n = [worker[w] EXCEPT !.pc = "discovery", !.namespaces = names]
  OBVIOUS
<1>7. worker' = [worker EXCEPT ![w] = n]
  BY <1>3, <1>5, <1>6 DEF ResolveNamespaces
<1>8. "discovery" \in WorkerStates
  BY DEF WorkerStates
<1>9. /\ n \in WorkerRecords /\ n.pc = "discovery" /\ n.intime = worker[w].intime
      /\ n.calls = worker[w].calls /\ n.documents = worker[w].documents
      /\ n.claims = worker[w].claims /\ n.stamp = worker[w].stamp /\ n.namespaces = names
  <2> HIDE DEF WorkerStates, SnapshotRecords
  <2> QED
    BY <1>0, <1>5, <1>6, <1>8 DEF WorkerRecords
<1>10. Good(task[w], n, ever[w], always[w], missed[w])
  <2>1. /\ n.calls = <<>> /\ n.claims = <<>> /\ n.documents = <<>>
    BY <1>0, <1>1, <1>9 DEF Good, Control
  <2>2. Control(n)
    BY <1>9, <2>1 DEF Control
  <2>3. Scoped(task[w], n, ever[w])
    BY <1>4, <1>5, <1>9, <2>1, EmptyFacts DEF Scoped
  <2>4. ASSUME NEW o \in always[w], InScope(task[w], o), o.namespace # NoNamespace
        PROVE  o.namespace \in found
    <3>1. o.namespace \in NamespacesIn(cluster)
      BY <1>0, <1>2, <2>4 DEF ClusterGood, NamespaceOf
    <3> QED
      BY <1>4, <2>4, <3>1 DEF InScope
  <2>5. \A o \in always[w] : InScope(task[w], o) => Sought(n, o, missed[w])
    BY <1>5, <1>9, <2>4 DEF Sought, SearchedStates
  <2>6. Covered(task[w], n, always[w], missed[w])
    BY <2>1, <2>5, EmptyFacts DEF Covered
  <2> QED
    BY <1>0, <2>2, <2>3, <2>6 DEF Good
<1>11. PICK m \in {missed[w]} : m = missed[w]
  OBVIOUS
<1>12. /\ missed' = [missed EXCEPT ![w] = m] /\ UNCHANGED <<ever, always, late>>
       /\ failures' \in 0..MaxFailures /\ UNCHANGED <<clock, cluster, snapshots, task, changes>>
  BY <1>0, <1>1, <1>11 DEF Typed, history
<1> HIDE DEF Good, Exporting
<1> QED
  BY <1>1, <1>7, <1>9, <1>10, <1>11, <1>12, ExportGoesOn


\* The types whose group was discovered.
Found(broken) ==
  FlattenSeq([i \in DOMAIN Discovery |->
    IF Discovery[i].group \notin broken THEN <<Discovery[i]>> ELSE <<>>])

LEMMA FoundFacts ==
  ASSUME NEW broken
  PROVE  /\ Found(broken) \in Seq(Types) /\ Distinct(Found(broken))
         /\ \A t \in Types : t.group \notin broken => t \in ToSet(Found(broken))
<1>1. Discovery \in Seq(Types) /\ Distinct(Discovery) /\ ToSet(Discovery) = Types
  BY DiscoveryAssumption DEF Distinct, Types
<1> HIDE DEF Types
<1>2. PICK K : K = {t \in Types : t.group \notin broken}
  OBVIOUS
<1>3. \A i \in DOMAIN Discovery : Discovery[i] \in K <=> Discovery[i].group \notin broken
  BY <1>1, <1>2
<1>4. PICK parts : parts = [i \in DOMAIN Discovery |->
                              IF Discovery[i] \in K THEN <<Discovery[i]>> ELSE <<>>]
  OBVIOUS
<1>5. parts = [i \in DOMAIN Discovery |->
                 IF Discovery[i].group \notin broken THEN <<Discovery[i]>> ELSE <<>>]
  BY <1>3, <1>4
<1>6. Found(broken) = FlattenSeq(parts)
  BY <1>5 DEF Found
<1>7. /\ FlattenSeq(parts) \in Seq(Types) /\ Distinct(FlattenSeq(parts))
      /\ ToSet(FlattenSeq(parts)) = Types \cap K
  <2>1. PICK D, s : D = Types /\ s = Discovery /\ s \in Seq(D)
    BY <1>1
  <2>2. parts = [i \in DOMAIN s |-> IF s[i] \in K THEN <<s[i]>> ELSE <<>>]
    BY <1>4, <2>1
  <2>3. /\ FlattenSeq(parts) \in Seq(D) /\ ToSet(FlattenSeq(parts)) = ToSet(s) \cap K
        /\ Distinct(s) => Distinct(FlattenSeq(parts))
    <3>1. s \in Seq(D)
      BY <2>1
    <3> QED
      BY <2>2, <3>1, SelectedFacts, Zenon
  <2> QED
    BY <1>1, <2>1, <2>3
<1> QED
  BY <1>2, <1>6, <1>7

\* The calls for what was discovered, and the kinds that were not, make up the scope.
LEMMA DiscoverGood ==
  ASSUME NEW spec, NEW r \in WorkerRecords, NEW n \in WorkerRecords,
         NEW e \in SUBSET Objects, NEW a \in SUBSET Objects, NEW m, NEW m2,
         Good(spec, r, e, a, m), r.pc = "discovery", NEW broken,
         n.pc = "listing", n.documents = r.documents, n.namespaces = r.namespaces,
         n.claims = r.claims,
         n.calls = CallsFor(spec, Found(broken), ToSet(r.namespaces)),
         m2 = KindCalls({c \in ToSet(CallsFor(spec, Discovery, ToSet(r.namespaces))) :
                           c.type.group \in broken}),
         spec.kind \in {"Backup", "ClusterBackup"}
  PROVE  Good(spec, n, e, a, m2)
<1>1. PICK namespaces \in SUBSET STRING : namespaces = ToSet(r.namespaces)
  BY ToSetFacts DEF WorkerRecords
<1>2. IsFiniteSet(namespaces)
  BY <1>1, ToSetFinite DEF WorkerRecords
<1>3. PICK found : found = Found(broken)
  OBVIOUS
<1>4. /\ found \in Seq(Types) /\ Distinct(found)
      /\ \A t \in Types : t.group \notin broken => t \in ToSet(found)
  BY <1>3, FoundFacts
<1>5. Discovery \in Seq(Types) /\ Distinct(Discovery) /\ ToSet(Discovery) = Types
  BY DiscoveryAssumption DEF Distinct, Types
<1> HIDE DEF Types
<1>6. PICK all : all = CallsFor(spec, Discovery, namespaces)
  OBVIOUS
<1>7. n.calls = CallsFor(spec, found, namespaces)
  BY <1>1, <1>3
<1>8. /\ Distinct(n.calls)
      /\ \A c \in ToSet(n.calls) :
           /\ c.type \in ToSet(found) /\ Selects(spec, c.type)
           /\ IF c.type.namespaced THEN c.namespace \in namespaces
              ELSE IncludesCluster(spec) /\ c.namespace = NoNamespace
      /\ \A t \in ToSet(found) : Selects(spec, t) =>
           /\ t.namespaced => \A ns \in namespaces : Call(t, ns) \in ToSet(n.calls)
           /\ ~t.namespaced /\ IncludesCluster(spec) => Call(t, NoNamespace) \in ToSet(n.calls)
  BY <1>2, <1>4, <1>7, CallsForFacts
<1>9. \A t \in Types : Selects(spec, t) =>
        /\ t.namespaced => \A ns \in namespaces : Call(t, ns) \in ToSet(all)
        /\ ~t.namespaced /\ IncludesCluster(spec) => Call(t, NoNamespace) \in ToSet(all)
  BY <1>2, <1>5, <1>6, CallsForFacts
<1>10. n.documents = <<>> /\ n.claims = <<>>
  BY DEF Good, Control
<1>11. Control(n)
  BY <1>10 DEF Control
<1>12. Scoped(spec, n, e)
  <2>1. \A c \in ToSet(n.calls) : NamespaceInScope(spec, c.namespace)
    <3>1. \A ns \in namespaces : NamespaceInScope(spec, ns)
      BY <1>1 DEF Good, Scoped
    <3>2. IncludesCluster(spec) => NamespaceInScope(spec, NoNamespace)
      BY DEF IncludesCluster, NamespaceInScope
    <3> QED
      BY <1>8, <3>1, <3>2
  <2> QED
    BY <1>8, <1>10, <2>1, EmptyFacts DEF Good, Scoped
<1>13. ASSUME spec.export, NEW o \in a, InScope(spec, o)
       PROVE  Sought(n, o, m2)
  <2>1. PICK t \in Types : t.kind = o.kind /\ Selects(spec, t)
    <3>1. KindInScope(spec, o.kind)
      BY <1>13 DEF InScope
    <3>2. PICK t \in Types : t.kind = o.kind
      BY <3>1 DEF KindInScope
    <3> QED
      BY <3>1, <3>2, SelectsIsScope
  <2>2. t.namespaced <=> o.namespace # NoNamespace
    BY <2>1, ObjectsAssumption
  <2>3. o.namespace # NoNamespace => o.namespace \in namespaces
    BY <1>1, <1>13 DEF Good, Covered, Sought
  <2>4. o.namespace = NoNamespace => IncludesCluster(spec)
    BY <1>13 DEF InScope, NamespaceInScope, IncludesCluster
  <2>5. PICK c : c = Call(t, o.namespace)
    OBVIOUS
  <2>6. c.type = t /\ c.namespace = o.namespace
    BY <2>5 DEF Call
  <2>7. c \in ToSet(all)
    BY <1>9, <2>1, <2>2, <2>3, <2>4, <2>5
  <2>8. CASE t.group \in broken
    <3>1. [kind |-> c.type.kind, namespace |-> c.namespace] \in m2
      BY <1>1, <1>6, <2>6, <2>7, <2>8 DEF KindCalls
    <3> QED
      BY <2>1, <2>6, <3>1 DEF Sought
  <2>9. CASE t.group \notin broken
    <3>1. c \in ToSet(n.calls)
      BY <1>4, <1>8, <2>1, <2>2, <2>3, <2>4, <2>5, <2>9
    <3>2. Finds(c, o)
      BY <2>1, <2>6 DEF Finds
    <3> QED
      BY <3>1, <3>2 DEF Sought
  <2> QED
    BY <2>8, <2>9
<1>14. Covered(spec, n, a, m2)
  BY <1>8, <1>10, <1>13, EmptyFacts DEF Covered
<1> QED
  BY <1>11, <1>12, <1>14 DEF Good


LEMMA DiscoverSteps ==
  ASSUME IInv, NEW w \in DOMAIN task, Discover(w)
  PROVE  IInv'
<1>0. /\ worker[w] \in WorkerRecords /\ Typed /\ w \in Workers
      /\ ever[w] \in SUBSET Objects /\ always[w] \in SUBSET Objects
      /\ Good(task[w], worker[w], ever[w], always[w], missed[w])
  BY WorkerFacts DEF IInv
<1>1. /\ worker[w].pc = "discovery"
      /\ UNCHANGED <<clock, cluster, snapshots, task, changes>>
      /\ UNCHANGED <<ever, always, late>>
  BY DEF Discover
<1>2. PICK broken :
        /\ broken # {} => failures < MaxFailures
        /\ failures' = IF broken = {} THEN failures ELSE failures + 1
        /\ worker' = [worker EXCEPT ![w].pc = "listing",
                        ![w].calls = CallsFor(task[w], Found(broken), ToSet(worker[w].namespaces))]
        /\ missed' = [missed EXCEPT ![w] =
             KindCalls({c \in ToSet(CallsFor(task[w], Discovery, ToSet(worker[w].namespaces))) :
                          c.type.group \in broken})]
  BY DEF Discover, Selected, Found
<1>3. failures' \in 0..MaxFailures
  BY <1>0, <1>2, BoundsAssumption DEF Typed
<1>4. PICK calls :
        /\ calls = CallsFor(task[w], Found(broken), ToSet(worker[w].namespaces))
        /\ calls \in Seq(CallRecords)
  <2>1. PICK D, names : D = STRING /\ names = worker[w].namespaces /\ names \in Seq(D)
    BY <1>0 DEF WorkerRecords
  <2>2. ToSet(names) \subseteq D /\ IsFiniteSet(ToSet(names))
    BY <2>1, ToSetFacts, ToSetFinite
  <2>3. CallsFor(task[w], Found(broken), ToSet(names)) \in Seq(CallRecords)
    BY <2>1, <2>2, FoundFacts, CallsForFacts
  <2> QED
    BY <2>1, <2>3
<1>5. PICK n : n = [worker[w] EXCEPT !.pc = "listing", !.calls = calls]
  OBVIOUS
<1>6. worker' = [worker EXCEPT ![w] = n]
  BY <1>2, <1>4, <1>5
<1>7. "listing" \in WorkerStates
  BY DEF WorkerStates
<1>8. /\ n \in WorkerRecords /\ n.pc = "listing" /\ n.intime = worker[w].intime
      /\ n.calls = calls /\ n.documents = worker[w].documents
      /\ n.claims = worker[w].claims /\ n.stamp = worker[w].stamp
      /\ n.namespaces = worker[w].namespaces
  <2> HIDE DEF WorkerStates, SnapshotRecords, CallRecords
  <2> QED
    BY <1>0, <1>4, <1>5, <1>7 DEF WorkerRecords
<1>9. PICK m :
        m = KindCalls({c \in ToSet(CallsFor(task[w], Discovery, ToSet(worker[w].namespaces))) :
                         c.type.group \in broken})
  OBVIOUS
<1>10. missed' = [missed EXCEPT ![w] = m]
  BY <1>2, <1>9
<1>11. task[w].kind \in {"Backup", "ClusterBackup"}
  BY <1>0, TaskFacts, AssignmentsAssumption
<1> HIDE DEF Good
<1>12. Good(task[w], n, ever[w], always[w], m)
  BY <1>0, <1>1, <1>4, <1>8, <1>9, <1>11, DiscoverGood
<1> QED
  BY <1>1, <1>3, <1>6, <1>8, <1>10, <1>12, ExportGoesOn

\* What a List call finds is no longer sought.
LEMMA ListGood ==
  ASSUME NEW b \in Assignments, NEW w \in DOMAIN b, NEW spec, spec = b[w],
         NEW r \in WorkerRecords, NEW n \in WorkerRecords,
         NEW e \in SUBSET Objects, NEW a \in SUBSET Objects, NEW m,
         Good(spec, r, e, a, m), r.pc = "listing", r.calls # <<>>,
         NEW objects \in SUBSET Objects, a \subseteq objects, objects \subseteq e,
         n.pc = r.pc, n.namespaces = r.namespaces, n.claims = r.claims,
         n.calls = Tail(r.calls),
         n.documents = r.documents \o SetToSeq(Kept(spec, Head(r.calls), objects))
  PROVE  Good(spec, n, e, a, m)
<1>1. r.calls \in Seq(CallRecords) /\ r.documents \in Seq(Objects)
  BY DEF WorkerRecords
<1>2. PICK c \in CallRecords : c = Head(r.calls)
  BY <1>1, TailFacts
<1> HIDE DEF CallRecords
<1>3. /\ c \in ToSet(r.calls) /\ ToSet(n.calls) \subseteq ToSet(r.calls)
      /\ \A x \in ToSet(r.calls) : x = c \/ x \in ToSet(n.calls)
      /\ Distinct(n.calls) /\ c \notin ToSet(n.calls)
  <2>1. Distinct(r.calls)
    BY DEF Good, Covered
  <2> QED
    BY <1>1, <1>2, <2>1, TailFacts
<1>4. Selects(spec, c.type) /\ NamespaceInScope(spec, c.namespace)
  BY <1>3 DEF Good, Scoped
<1>5. PICK kept : kept = Kept(spec, c, objects)
  OBVIOUS
<1>6. /\ IsFiniteSet(kept) /\ kept \subseteq objects
      /\ \A o \in kept : Finds(c, o) /\ InScope(spec, o)
      /\ \A o \in objects : InScope(spec, o) /\ Finds(c, o) => o \in kept
  BY <1>4, <1>5, KeptFacts
<1>7. PICK items : /\ items = SetToSeq(kept) /\ items \in Seq(Objects)
                   /\ ToSet(items) = kept /\ Distinct(items)
  BY <1>6, SetToSeqIn
<1>8. n.documents = r.documents \o items
  BY <1>2, <1>5, <1>7
<1>9. ToSet(n.documents) = ToSet(r.documents) \cup kept
  <2>1. PICK D, s, t : D = Objects /\ s = r.documents /\ t = items
    OBVIOUS
  <2>2. s \in Seq(D) /\ t \in Seq(D)
    BY <1>1, <1>7, <2>1
  <2>3. ToSet(s \o t) = ToSet(s) \cup ToSet(t)
    BY <2>2, ConcatFacts
  <2> QED
    BY <1>7, <1>8, <2>1, <2>3
<1>10. Distinct(n.documents)
  <2>1. ToSet(r.documents) \cap ToSet(items) = {}
    BY <1>3, <1>6, <1>7 DEF Good, Covered
  <2> QED
    BY <1>1, <1>7, <1>8, <2>1, ConcatDistinct DEF Good, Covered
<1>11. \A x \in ToSet(n.calls), o \in ToSet(n.documents) : ~Finds(x, o)
  <2>1. \A x \in ToSet(n.calls) : x \in CallRecords
    BY <1>1, <1>3, ToSetFacts
  <2>2. \A x \in CallRecords, o \in kept : Finds(x, o) => x = c
    <3>1. \A t, u \in Types : t.kind = u.kind => t = u
      BY DiscoveryAssumption DEF Types, ToSet
    <3>2. \A o \in kept : Finds(c, o)
      BY <1>6
    <3> HIDE DEF Types
    <3> QED
      BY <3>1, <3>2 DEF Finds, CallRecords
  <2>3. ASSUME NEW x \in ToSet(n.calls), NEW o \in ToSet(n.documents)
        PROVE  ~Finds(x, o)
    <3>1. CASE o \in ToSet(r.documents)
      BY <1>3, <3>1 DEF Good, Covered
    <3>2. CASE o \in kept
      BY <1>3, <2>1, <2>2, <3>2
    <3> QED
      BY <1>9, <3>1, <3>2
  <2> QED
    BY <2>3
<1>12. Control(n)
  BY DEF Good, Control
<1>13. Scoped(spec, n, e)
  BY <1>3, <1>6, <1>9 DEF Good, Scoped
<1>14. ASSUME spec.export, NEW o \in a, InScope(spec, o)
       PROVE  Sought(n, o, m)
  <2>1. \/ [kind |-> o.kind, namespace |-> o.namespace] \in m
        \/ o \in ToSet(r.documents)
        \/ \E x \in ToSet(r.calls) : Finds(x, o)
    BY <1>14 DEF Good, Covered, Sought, SearchedStates
  <2>2. Finds(c, o) => o \in kept
    BY <1>6, <1>14
  <2>3. \/ [kind |-> o.kind, namespace |-> o.namespace] \in m
        \/ o \in ToSet(n.documents)
        \/ \E x \in ToSet(n.calls) : Finds(x, o)
    BY <1>3, <1>9, <2>1, <2>2
  <2> QED
    BY <2>3 DEF Sought
<1>15. Covered(spec, n, a, m)
  BY <1>3, <1>10, <1>11, <1>14 DEF Covered
<1> QED
  BY <1>12, <1>13, <1>15 DEF Good


LEMMA ListSteps ==
  ASSUME IInv, NEW w \in DOMAIN task, ListResources(w)
  PROVE  IInv'
<1>0. /\ worker[w] \in WorkerRecords /\ Typed /\ w \in Workers
      /\ ever[w] \in SUBSET Objects /\ always[w] \in SUBSET Objects
      /\ Good(task[w], worker[w], ever[w], always[w], missed[w])
      /\ Exporting(w) => always[w] \subseteq cluster /\ cluster \subseteq ever[w]
  BY WorkerFacts DEF IInv
<1>1. /\ worker[w].pc = "listing" /\ worker[w].calls # <<>> /\ Answered(w)
      /\ UNCHANGED <<clock, cluster, snapshots, task, changes, history>>
  BY DEF ListResources, Listing
<1>2. /\ always[w] \subseteq cluster /\ cluster \subseteq ever[w] /\ cluster \in SUBSET Objects
      /\ task \in Assignments
  BY <1>0, <1>1 DEF Exporting, Typed
<1>3. PICK items : /\ items = SetToSeq(Kept(task[w], Head(worker[w].calls), cluster))
                   /\ items \in Seq(Objects)
  <2>1. Kept(task[w], Head(worker[w].calls), cluster) \subseteq cluster
    BY DEF Kept
  <2>2. IsFiniteSet(Kept(task[w], Head(worker[w].calls), cluster))
    BY <1>2, <2>1, ObjectsAssumption, FS_Subset
  <2> QED
    BY <1>2, <2>1, <2>2, SetToSeqIn
<1>4. PICK calls, documents :
        /\ calls = Tail(worker[w].calls) /\ calls \in Seq(CallRecords)
        /\ documents = worker[w].documents \o items /\ documents \in Seq(Objects)
  <2>1. Tail(worker[w].calls) \in Seq(CallRecords)
    BY <1>0, <1>1, TailFacts DEF WorkerRecords
  <2>2. worker[w].documents \in Seq(Objects)
    BY <1>0 DEF WorkerRecords
  <2>3. worker[w].documents \o items \in Seq(Objects)
    BY <1>3, <2>2, ConcatFacts, Zenon
  <2> QED
    BY <2>1, <2>3
<1>5. PICK n : n = [worker[w] EXCEPT !.calls = calls, !.documents = documents]
  OBVIOUS
<1>6. worker' = [worker EXCEPT ![w] = n]
  <2>1. worker' = [worker EXCEPT ![w] =
                     [worker[w] EXCEPT !.calls = Tail(worker[w].calls),
                        !.documents = worker[w].documents
                          \o SetToSeq(Kept(task[w], Head(worker[w].calls), cluster))]]
    BY <1>0 DEF ListResources, WorkerRecords
  <2> QED
    BY <1>3, <1>4, <1>5, <2>1
<1>7. /\ n \in WorkerRecords /\ n.pc = worker[w].pc /\ n.intime = worker[w].intime
      /\ n.calls = calls /\ n.documents = documents
      /\ n.claims = worker[w].claims /\ n.stamp = worker[w].stamp
      /\ n.namespaces = worker[w].namespaces
  <2> HIDE DEF WorkerStates, SnapshotRecords, CallRecords
  <2> QED
    BY <1>0, <1>4, <1>5 DEF WorkerRecords
<1> HIDE DEF Good, Exporting
<1>8. Good(task[w], n, ever[w], always[w], missed[w])
  BY <1>0, <1>1, <1>2, <1>3, <1>4, <1>7, ListGood
<1>9. PICK m \in {missed[w]} : m = missed[w]
  OBVIOUS
<1>10. missed' = [missed EXCEPT ![w] = m] /\ UNCHANGED <<ever, always, late>>
  BY <1>0, <1>1, <1>9 DEF Typed, history
<1>11. failures' \in 0..MaxFailures
  BY <1>0, <1>1, FailedCall
<1>12. Good(task[w], n, ever[w], always[w], m) /\ UNCHANGED <<clock, cluster, snapshots, task, changes>>
       /\ n.stamp = worker[w].stamp /\ n.intime = worker[w].intime
  BY <1>1, <1>7, <1>8, <1>9
<1> QED
  BY <1>1, <1>6, <1>7, <1>10, <1>11, <1>12, ExportGoesOn

\* What a List call that fails would have found is missed.
LEMMA ListFailsGood ==
  ASSUME NEW spec, NEW r \in WorkerRecords, NEW n \in WorkerRecords,
         NEW e, NEW a, NEW m, Good(spec, r, e, a, m), r.pc = "listing", r.calls # <<>>,
         n.pc = r.pc, n.namespaces = r.namespaces, n.claims = r.claims,
         n.calls = Tail(r.calls), n.documents = r.documents
  PROVE  Good(spec, n, e, a, m \cup KindCalls({Head(r.calls)}))
<1> DEFINE m2 == m \cup KindCalls({Head(r.calls)})
<1>1. r.calls \in Seq(CallRecords)
  BY DEF WorkerRecords
<1>2. PICK c : c = Head(r.calls)
  OBVIOUS
<1>3. Distinct(r.calls)
  BY DEF Good, Covered
<1>4. /\ ToSet(n.calls) \subseteq ToSet(r.calls) /\ Distinct(n.calls)
      /\ \A x \in ToSet(r.calls) : x = c \/ x \in ToSet(n.calls)
  BY <1>1, <1>2, <1>3, TailFacts
<1>5. Control(n) /\ Scoped(spec, n, e)
  BY <1>4 DEF Good, Control, Scoped
<1>6. m2 = m \cup {[kind |-> c.type.kind, namespace |-> c.namespace]}
  BY <1>2 DEF KindCalls
<1> HIDE DEF m2
<1>7. ASSUME NEW o, Sought(r, o, m)
      PROVE  Sought(n, o, m2)
  <2>1. \/ [kind |-> o.kind, namespace |-> o.namespace] \in m
        \/ o \in ToSet(r.documents)
        \/ \E x \in ToSet(r.calls) : Finds(x, o)
    BY <1>7 DEF Sought, SearchedStates
  <2>2. Finds(c, o) => [kind |-> o.kind, namespace |-> o.namespace] \in m2
    BY <1>6 DEF Finds
  <2>3. \/ [kind |-> o.kind, namespace |-> o.namespace] \in m2
        \/ o \in ToSet(n.documents)
        \/ \E x \in ToSet(n.calls) : Finds(x, o)
    BY <1>4, <1>6, <2>1, <2>2
  <2> QED
    BY <2>3 DEF Sought
<1>8. Covered(spec, n, a, m2)
  BY <1>4, <1>7 DEF Good, Covered
<1>9. Good(spec, n, e, a, m2)
  BY <1>5, <1>8 DEF Good
<1> QED
  BY <1>9 DEF m2

LEMMA ListFailsSteps ==
  ASSUME IInv, NEW w \in DOMAIN task, ListResourcesFails(w)
  PROVE  IInv'
<1>0. /\ worker[w] \in WorkerRecords /\ worker[w].stamp <= clock /\ Typed /\ ClusterGood
      /\ w \in Workers
      /\ ever[w] \in SUBSET Objects /\ always[w] \in SUBSET Objects /\ late[w] \in BOOLEAN
      /\ Good(task[w], worker[w], ever[w], always[w], missed[w])
      /\ late[w] => ~worker[w].intime
      /\ Exporting(w) => always[w] \subseteq cluster /\ cluster \subseteq ever[w]
  BY WorkerFacts DEF IInv
<1>1. /\ worker[w].pc = "listing" /\ worker[w].calls # <<>> /\ CallFails(w)
      /\ missed' = [missed EXCEPT ![w] = missed[w] \cup KindCalls({Head(worker[w].calls)})]
      /\ late' = [late EXCEPT ![w] = late[w] \/ ~worker[w].intime]
      /\ worker' = [worker EXCEPT ![w].calls = Tail(@)]
      /\ UNCHANGED <<ever, always>> /\ UNCHANGED <<clock, cluster, snapshots, task, changes>>
  BY DEF ListResourcesFails, Listing, PassedOver
<1>2. PICK calls : calls = Tail(worker[w].calls) /\ calls \in Seq(CallRecords)
  BY <1>0, <1>1, TailFacts DEF WorkerRecords
<1>3. PICK n : n = [worker[w] EXCEPT !.calls = calls]
  OBVIOUS
<1>4. worker' = [worker EXCEPT ![w] = n]
  <2>1. worker' = [worker EXCEPT ![w] = [worker[w] EXCEPT !.calls = Tail(worker[w].calls)]]
    BY <1>0, <1>1 DEF WorkerRecords
  <2> QED
    BY <1>2, <1>3, <2>1
<1>5. /\ n \in WorkerRecords /\ n.pc = worker[w].pc /\ n.intime = worker[w].intime
      /\ n.calls = calls /\ n.documents = worker[w].documents
      /\ n.claims = worker[w].claims /\ n.stamp = worker[w].stamp
      /\ n.namespaces = worker[w].namespaces
  <2> HIDE DEF WorkerStates, SnapshotRecords, CallRecords
  <2> QED
    BY <1>0, <1>2, <1>3 DEF WorkerRecords
<1>6. always[w] \subseteq cluster /\ cluster \subseteq ever[w]
  BY <1>0, <1>1 DEF Exporting
<1> HIDE DEF Good, Exporting
<1>7. Good(task[w], n, ever[w], always[w],
           missed[w] \cup KindCalls({Head(worker[w].calls)}))
  BY <1>0, <1>1, <1>2, <1>5, ListFailsGood
<1>8. PICK e \in SUBSET Objects, a \in SUBSET Objects,
           m \in {missed[w] \cup KindCalls({Head(worker[w].calls)})}, l \in BOOLEAN :
        /\ e = ever[w] /\ a = always[w]
        /\ m = missed[w] \cup KindCalls({Head(worker[w].calls)})
        /\ l = (late[w] \/ ~worker[w].intime)
  <2>1. PICK e \in SUBSET Objects, a \in SUBSET Objects : e = ever[w] /\ a = always[w]
    BY <1>0
  <2>2. PICK l \in BOOLEAN : l = (late[w] \/ ~worker[w].intime)
    OBVIOUS
  <2> QED
    BY <2>1, <2>2
<1>9. /\ ever' = [ever EXCEPT ![w] = e] /\ always' = [always EXCEPT ![w] = a]
      /\ missed' = [missed EXCEPT ![w] = m] /\ late' = [late EXCEPT ![w] = l]
  BY <1>0, <1>1, <1>8 DEF Typed
<1>10. Good(task[w], n, e, a, m) /\ a \subseteq cluster /\ cluster \subseteq e
  BY <1>6, <1>7, <1>8
<1>11. n.stamp <= clock /\ (l => ~n.intime)
  BY <1>0, <1>5, <1>8
<1>12. /\ snapshots' \subseteq SnapshotRecords
       /\ \A s \in snapshots' : s.made <= clock /\ s.made >= 1 /\ Len(s.name) <= MaxNameLength
  BY <1>0, <1>1 DEF Typed, ClusterGood
<1>13. failures' \in 0..MaxFailures
  BY <1>0, <1>1, FailedCall
<1>14. UNCHANGED <<clock, cluster, task, changes>>
  BY <1>1
<1> QED
  BY <1>4, <1>5, <1>9, <1>10, <1>11, <1>12, <1>13, <1>14, WorkerWrite


\* Sorting neither loses nor adds a document.
LEMMA SortSteps ==
  ASSUME IInv, NEW w \in DOMAIN task, SortDocuments(w)
  PROVE  IInv'
<1>0. /\ worker[w] \in WorkerRecords /\ Typed /\ w \in Workers
      /\ Good(task[w], worker[w], ever[w], always[w], missed[w])
  BY WorkerFacts DEF IInv
<1>1. /\ worker[w].pc = "listing" /\ worker[w].calls = <<>>
      /\ UNCHANGED <<clock, cluster, snapshots, task, changes, failures, history>>
  BY DEF SortDocuments
<1>2. PICK sorted : /\ sorted = ByPriority(worker[w].documents) /\ sorted \in Seq(Objects)
                    /\ ToSet(sorted) = ToSet(worker[w].documents)
                    /\ Distinct(worker[w].documents) => Distinct(sorted)
  <2>1. PICK D, s : D = Objects /\ s = worker[w].documents /\ s \in Seq(D)
    BY <1>0 DEF WorkerRecords
  <2>2. /\ ByPriority(s) \in Seq(D) /\ ToSet(ByPriority(s)) = ToSet(s)
        /\ Distinct(s) => Distinct(ByPriority(s))
    BY <2>1, ByPriorityFacts
  <2> QED
    BY <2>1, <2>2
<1>3. PICK n : n = [worker[w] EXCEPT !.pc = "sorted", !.documents = sorted]
  OBVIOUS
<1>4. worker' = [worker EXCEPT ![w] = n]
  <2>1. worker' = [worker EXCEPT ![w] =
                     [worker[w] EXCEPT !.pc = "sorted",
                        !.documents = ByPriority(worker[w].documents)]]
    BY <1>0 DEF SortDocuments, WorkerRecords
  <2> QED
    BY <1>2, <1>3, <2>1
<1>5. "sorted" \in WorkerStates
  BY DEF WorkerStates
<1>6. /\ n \in WorkerRecords /\ n.pc = "sorted" /\ n.intime = worker[w].intime
      /\ n.calls = worker[w].calls /\ n.documents = sorted
      /\ n.claims = worker[w].claims /\ n.stamp = worker[w].stamp
      /\ n.namespaces = worker[w].namespaces
  <2> HIDE DEF WorkerStates, SnapshotRecords, CallRecords
  <2> QED
    BY <1>0, <1>2, <1>3, <1>5 DEF WorkerRecords
<1>7. ASSUME NEW spec, NEW r, NEW e, NEW a, NEW m, Good(spec, r, e, a, m),
             r.pc = "listing", r.calls = <<>>, Distinct(r.documents) => Distinct(sorted),
             ToSet(sorted) = ToSet(r.documents), n.calls = r.calls, n.claims = r.claims,
             n.namespaces = r.namespaces
      PROVE  Good(spec, n, e, a, m)
  <2>1. Control(n) /\ Scoped(spec, n, e)
    BY <1>6, <1>7 DEF Good, Control, Scoped
  <2>2. \A o : Sought(r, o, m) => Sought(n, o, m)
    BY <1>6, <1>7 DEF Sought, SearchedStates
  <2>3. Covered(spec, n, a, m)
    BY <1>6, <1>7, <2>2 DEF Good, Covered
  <2> QED
    BY <1>7, <2>1, <2>3 DEF Good
<1> HIDE DEF Good, Exporting
<1>8. Good(task[w], n, ever[w], always[w], missed[w])
  BY <1>0, <1>1, <1>2, <1>6, <1>7
<1>9. PICK m \in {missed[w]} : m = missed[w]
  OBVIOUS
<1>10. missed' = [missed EXCEPT ![w] = m] /\ UNCHANGED <<ever, always, late>>
  BY <1>0, <1>1, <1>9 DEF Typed, history
<1>11. failures' \in 0..MaxFailures
  BY <1>0, <1>1 DEF Typed
<1>12. Good(task[w], n, ever[w], always[w], m) /\ UNCHANGED <<clock, cluster, snapshots, task, changes>>
       /\ n.stamp = worker[w].stamp /\ n.intime = worker[w].intime
  BY <1>1, <1>6, <1>8, <1>9
<1> QED
  BY <1>1, <1>4, <1>6, <1>10, <1>11, <1>12, ExportGoesOn

LEMMA ExportSteps ==
  ASSUME IInv, NEW w \in DOMAIN task, ExportStep(w)
  PROVE  IInv'
  BY StartSteps, ResolveSteps, GotoSteps, DiscoverSteps, ListSteps, ListFailsSteps, SortSteps
     DEF ExportStep

LEMMA WorkerSteps ==
  ASSUME IInv, NEW w \in DOMAIN task, WorkerStep(w)
  PROVE  IInv'
  BY ExportSteps, SnapshotSteps, GotoSteps, ContextSteps DEF WorkerStep

-----------------------------------------------------------------------------
(* What others do.                                                         *)

\* More was there at some time, and less all the time.
LEMMA ChangeGood ==
  ASSUME NEW spec, NEW r, NEW e, NEW a, NEW m, NEW objects, Good(spec, r, e, a, m)
  PROVE  Good(spec, r, e \cup objects, a \cap objects, m)
<1>1. Scoped(spec, r, e \cup objects)
  BY DEF Good, Scoped
<1>2. Covered(spec, r, a \cap objects, m)
  BY DEF Good, Covered
<1> QED
  BY <1>1, <1>2 DEF Good

LEMMA ChangeWrite ==
  ASSUME IInv, NEW objects \in SUBSET Objects, Change(objects), snapshots' \subseteq snapshots,
         \A o \in objects : NamespaceOf(o) \subseteq NamespacesIn(objects)
  PROVE  IInv'
<1>0. Typed /\ ClusterGood /\ DOMAIN task \subseteq Workers
  BY TaskFacts DEF IInv
<1>1. /\ changes < MaxChanges /\ changes' = changes + 1 /\ cluster' = objects
      /\ UNCHANGED <<clock, task, worker, failures, missed, late>>
  BY DEF Change
<1>2. \A w \in Workers :
        /\ ever'[w] = IF Exporting(w) THEN ever[w] \cup objects ELSE ever[w]
        /\ always'[w] = IF Exporting(w) THEN always[w] \cap objects ELSE always[w]
  BY DEF Change
<1>3. Typed'
  <2>1. ever' \in [Workers -> SUBSET Objects] /\ always' \in [Workers -> SUBSET Objects]
    BY <1>0, <1>2 DEF Change, Typed
  <2>2. changes' \in 0..MaxChanges
    BY <1>0, <1>1, BoundsAssumption DEF Typed
  <2> QED
    BY <1>0, <1>1, <2>1, <2>2 DEF Typed
<1>4. ClusterGood'
  <2>1. \A o \in cluster' : NamespaceOf(o) \subseteq NamespacesIn(cluster')
    BY <1>1
  <2> QED
    BY <1>0, <1>1, <2>1 DEF ClusterGood
<1>5. ASSUME NEW w \in DOMAIN task PROVE WorkerGood(w)'
  <2>0. /\ ever[w] \in SUBSET Objects /\ always[w] \in SUBSET Objects
        /\ Good(task[w], worker[w], ever[w], always[w], missed[w])
        /\ worker[w].stamp <= clock /\ (late[w] => ~worker[w].intime)
        /\ Exporting(w) => always[w] \subseteq cluster /\ cluster \subseteq ever[w]
    BY WorkerFacts
  <2>1. PICK e, a : /\ e = ever'[w] /\ a = always'[w]
                    /\ Good(task[w], worker[w], e, a, missed[w])
                    /\ Exporting(w) => a \subseteq objects /\ objects \subseteq e
    <3>1. CASE Exporting(w)
      <4>1. Good(task[w], worker[w], ever[w] \cup objects, always[w] \cap objects, missed[w])
        BY <2>0, ChangeGood
      <4> HIDE DEF Good
      <4> QED
        BY <1>0, <1>2, <3>1, <4>1
    <3>2. CASE ~Exporting(w)
      <4> HIDE DEF Good
      <4> QED
        BY <1>0, <1>2, <2>0, <3>2
    <3> QED
      BY <3>1, <3>2
  <2> HIDE DEF Good
  <2>2. \A spec \in {task'[w]}, r \in {worker'[w]}, f \in {ever'[w]}, g \in {always'[w]},
           m \in {missed'[w]} : Good(spec, r, f, g, m)
    BY <1>1, <2>1
  <2>3. Exporting(w)' => always'[w] \subseteq cluster' /\ cluster' \subseteq ever'[w]
    BY <1>1, <2>1 DEF Exporting
  <2>4. worker'[w].stamp <= clock' /\ (late'[w] => ~worker'[w].intime)
    BY <1>1, <2>0
  <2> QED
    BY <2>2, <2>3, <2>4 DEF WorkerGood
<1>6. ASSUME NEW w \in Workers \ DOMAIN task PROVE IdleWorker(w)'
  <2>1. IdleWorker(w)
    BY DEF IInv
  <2>2. ~Exporting(w)
    BY <2>1 DEF IdleWorker, NewWorker, Exporting
  <2> QED
    BY <1>1, <1>2, <2>1, <2>2 DEF IdleWorker
<1> QED
  BY <1>1, <1>3, <1>4, <1>5, <1>6 DEF IInv


LEMMA CreateSteps ==
  ASSUME IInv, NEW o \in Objects, OthersCreate(o)
  PROVE  IInv'
<1>0. cluster \in SUBSET Objects /\ ClusterGood
  BY DEF IInv, Typed
<1>1. \A x \in cluster \cup {o} : NamespaceOf(x) \subseteq NamespacesIn(cluster \cup {o})
  BY <1>0 DEF OthersCreate, ClusterGood, NamespacesIn
<1>2. Change(cluster \cup {o}) /\ snapshots' \subseteq snapshots
  BY DEF OthersCreate
<1> QED
  BY <1>0, <1>1, <1>2, ChangeWrite

\* What is left is in namespaces that are left.
LEMMA DeleteSteps ==
  ASSUME IInv, NEW o \in Objects, OthersDelete(o)
  PROVE  IInv'
<1> DEFINE gone == IF o.kind = "Namespace" THEN {o.name[1]} ELSE {}
           rest == {x \in cluster \ {o} : x.namespace \notin gone}
<1>0. cluster \in SUBSET Objects /\ ClusterGood
  BY DEF IInv, Typed
<1>1. Change(rest) /\ snapshots' \subseteq snapshots
  BY DEF OthersDelete
<1>2. ASSUME NEW x \in rest PROVE NamespaceOf(x) \subseteq NamespacesIn(rest)
  <2>1. CASE x.namespace = NoNamespace
    BY <2>1 DEF NamespaceOf
  <2>2. CASE x.namespace # NoNamespace
    <3>1. PICK y \in cluster : y.kind = "Namespace" /\ y.name[1] = x.namespace
      BY <1>0, <1>2, <2>2 DEF ClusterGood, NamespaceOf, NamespacesIn
    <3>2. y # o
      BY <1>2, <3>1
    <3>3. y.namespace = NoNamespace
      BY <1>0, <3>1, ObjectsAssumption
    <3>4. NoNamespace \notin gone
      BY ObjectsAssumption
    <3>5. y \in rest
      BY <3>2, <3>3, <3>4
    <3> HIDE DEF rest
    <3> QED
      BY <2>2, <3>1, <3>5 DEF NamespaceOf, NamespacesIn
  <2> QED
    BY <2>1, <2>2
<1>3. rest \in SUBSET Objects
  BY <1>0
<1> HIDE DEF rest, gone
<1> QED
  BY <1>1, <1>2, <1>3, ChangeWrite

LEMMA DeleteSnapshotSteps ==
  ASSUME IInv, NEW s \in snapshots, OthersDeleteSnapshot(s)
  PROVE  IInv'
<1>1. cluster \in SUBSET Objects /\ ClusterGood
  BY DEF IInv, Typed
<1>2. Change(cluster) /\ snapshots' \subseteq snapshots
  BY DEF OthersDeleteSnapshot
<1>3. \A o \in cluster : NamespaceOf(o) \subseteq NamespacesIn(cluster)
  BY <1>1 DEF ClusterGood
<1> QED
  BY <1>1, <1>2, <1>3, ChangeWrite

LEMMA TickSteps ==
  ASSUME IInv, Tick
  PROVE  IInv'
<1>0. /\ clock' = clock + 1 /\ clock < Len(Stamps)
      /\ UNCHANGED <<cluster, snapshots, task, worker, changes, failures, history>>
      /\ Typed /\ ClusterGood /\ DOMAIN task \subseteq Workers
  BY TaskFacts DEF Tick, IInv
<1>1. clock \in Nat /\ clock' \in DOMAIN Stamps /\ clock' = clock + 1
  BY <1>0, StampsAssumption DEF Typed
<1>2. Typed'
  BY <1>0, <1>1 DEF Typed, history
<1>3. ClusterGood'
  <2>1. \A s \in snapshots : s \in SnapshotRecords
    BY <1>0 DEF Typed
  <2>2. \A s \in SnapshotRecords : s.made \in Nat
    BY DEF SnapshotRecords
  <2>3. \A s \in snapshots : s.made <= clock'
    BY <1>0, <1>1, <2>1, <2>2 DEF ClusterGood
  <2> QED
    BY <1>0, <2>3 DEF ClusterGood
<1>4. ASSUME NEW w \in DOMAIN task PROVE WorkerGood(w)'
  <2>1. WorkerGood(w) /\ worker[w].stamp \in Nat
    BY <1>0, WorkerFacts, StampsAssumption DEF IInv, WorkerRecords
  <2>2. worker[w].stamp <= clock'
    BY <1>1, <2>1 DEF WorkerGood
  <2> HIDE DEF Good
  <2> QED
    BY <1>0, <2>1, <2>2 DEF WorkerGood, Exporting, history
<1>5. ASSUME NEW w \in Workers \ DOMAIN task PROVE IdleWorker(w)'
  BY <1>0, <1>5 DEF IInv, IdleWorker, history
<1> QED
  BY <1>0, <1>2, <1>3, <1>4, <1>5 DEF IInv

LEMMA NextIInv == IInv /\ [Next]_vars => IInv'
<1>1. ASSUME IInv, Next PROVE IInv'
  BY <1>1, WorkerSteps, CreateSteps, DeleteSteps, DeleteSnapshotSteps, TickSteps DEF Next
<1>2. ASSUME IInv, UNCHANGED vars PROVE IInv'
  <2>1. UNCHANGED <<clock, cluster, snapshots, task, worker, changes, failures>>
        /\ UNCHANGED <<ever, always, missed, late>>
    BY <1>2 DEF vars, history
  <2>2. Typed' /\ ClusterGood'
    BY <1>2, <2>1 DEF IInv, Typed, ClusterGood
  <2>3. \A w \in DOMAIN task : WorkerGood(w)'
    <3> HIDE DEF Good
    <3> QED
      BY <1>2, <2>1 DEF IInv, WorkerGood, Exporting
  <2>4. \A w \in Workers \ DOMAIN task : IdleWorker(w)'
    BY <1>2, <2>1 DEF IInv, IdleWorker
  <2> QED
    BY <2>1, <2>2, <2>3, <2>4 DEF IInv
<1> QED
  BY <1>1, <1>2

LEMMA Invariant == Spec => []IInv
  BY InitIInv, NextIInv, PTL DEF Spec

-----------------------------------------------------------------------------
(* The volumes: what is added to the invariant for their snapshots.        *)

EarlyStates == {"waiting", "namespaces", "discovery", "listing", "sorted"}

SnapshotStates == {"claims", "snapshotting", "existing", "packed", "stored", "completed"}

\* A snapshot has the name its maker gave it, in the second the maker's clock was read.
Made(s) ==
  /\ \E i \in DOMAIN Stamps : i <= s.made /\ s.name = SnapshotName(s.backup, s.claim, Stamps[i])
  /\ s.backup \in Seq(STRING)
  /\ \E o \in Objects : o.kind = "PersistentVolumeClaim" /\ s.claim = o.name
                                      /\ s.namespace = o.namespace

\* What a worker has taken so far.
Taken(spec, r) ==
  /\ r.pc \in EarlyStates => r.taken = <<>>
  /\ \A s \in ToSet(r.taken) :
       /\ NamespaceInScope(spec, s.namespace)
       /\ Len(s.name) < MaxNameLength => s.made >= r.stamp

\* The volumes that are to have a snapshot, in a namespace whose calls succeed.
Wanted(spec, o, m) ==
  /\ o.kind = "PersistentVolumeClaim" /\ NamespaceInScope(spec, o.namespace)
  /\ spec.snapshot.selector \subseteq o.labels
  /\ [kind |-> "VolumeSnapshot", namespace |-> o.namespace] \notin m
  /\ Len(FullName(spec.name, o.name, Stamps[1])) < MaxNameLength
  /\ ~SnapshotNameShared(spec, o)

HasSnapshot(r, o) == \E s \in ToSet(r.taken) : s.claim = o.name /\ s.namespace = o.namespace

\* The worker will come to the claim.
Awaits(r, o) ==
  \/ r.pc = "claims" /\ o.namespace \in ToSet(r.namespaces)
  \/ /\ r.pc \in {"snapshotting", "existing"}
     /\ \/ o.namespace \in ToSet(Tail(r.namespaces))
        \/ o.namespace = Head(r.namespaces) /\ o \in ToSet(r.claims)

\* Where a worker stands in a namespace, its claims are of that namespace.
VolumesSought(spec, r, a, m) ==
  /\ r.pc \in {"snapshotting", "existing"} =>
       \A o \in ToSet(r.claims) :
         o.namespace = Head(r.namespaces) /\ o.kind = "PersistentVolumeClaim"
  /\ SnapshotsEnabled(spec) /\ r.pc \in SnapshotStates =>
       \A o \in a : Wanted(spec, o, m) => HasSnapshot(r, o) \/ Awaits(r, o)

SnapshotGood(spec, r, a, m) == Taken(spec, r) /\ VolumesSought(spec, r, a, m)

WorkerSnapshots(w) ==
  \A spec \in {task[w]}, r \in {worker[w]}, a \in {always[w]}, m \in {missed[w]} :
    SnapshotGood(spec, r, a, m)

SnapshotsMade ==
  \A s \in snapshots : Made(s) /\ \E w \in DOMAIN task : s.backup = task[w].name

SInv ==
  /\ SnapshotsMade
  /\ \A w \in DOMAIN task : WorkerSnapshots(w)

\* A step of one worker leaves the others alone, and only one action makes snapshots.
Frame(w) ==
  /\ UNCHANGED task
  /\ \A v \in DOMAIN task : v # w =>
       worker'[v] = worker[v] /\ always'[v] = always[v] /\ missed'[v] = missed[v]

LEMMA FrameFacts ==
  ASSUME IInv, NEW w \in DOMAIN task, WorkerStep(w)
  PROVE  Frame(w) /\ (~CreateSnapshot(w) => UNCHANGED snapshots)
<1>1. /\ worker \in [Workers -> WorkerRecords] /\ always \in [Workers -> SUBSET Objects]
      /\ DOMAIN missed = Workers /\ w \in Workers /\ DOMAIN task \subseteq Workers
  BY TaskFacts DEF IInv, Typed
<1>2. CASE ExportStep(w)
  BY <1>1, <1>2 DEF ExportStep, StartExport, ResolveNamespaces, ResolveNamespacesFails, Discover,
     DiscoverFails, ListResources, ListResourcesFails, SortDocuments, PassedOver, Goto, Frame,
     history
<1>3. CASE SnapshotStep(w)
  BY <1>1, <1>3 DEF SnapshotStep, StartSnapshots, StartSnapshotsFails, ListClaims,
     ListClaimsFails, EndOfClaims, CreateSnapshot, SnapshotExists, GetSnapshot, SnapshotFails,
     SnapshotRefused, SnapshotGone, PassedOver, Goto, Frame, history
<1>4. CASE Pack(w) \/ StoreArtifact(w) \/ StoreArtifactFails(w) \/ Report(w) \/ ReportFails(w)
             \/ ContextEnds(w)
  BY <1>1, <1>4 DEF Pack, StoreArtifact, StoreArtifactFails, Report, ReportFails, ContextEnds,
     Goto, Frame, history
<1> QED
  BY <1>2, <1>3, <1>4 DEF WorkerStep

LEMMA SnapshotsWrite ==
  ASSUME SInv, NEW w \in DOMAIN task, Frame(w), SnapshotsMade',
         NEW n, n = worker'[w], NEW a, a = always'[w], NEW m, m = missed'[w],
         SnapshotGood(task[w], n, a, m)
  PROVE  SInv'
<1> HIDE DEF SnapshotGood
<1>1. WorkerSnapshots(w)'
  BY DEF WorkerSnapshots, Frame
<1>2. \A v \in DOMAIN task : v # w => WorkerSnapshots(v)'
  BY DEF SInv, WorkerSnapshots, Frame
<1>3. task' = task
  BY DEF Frame
<1> QED
  BY <1>1, <1>2, <1>3 DEF SInv

LEMMA SameSnapshots ==
  ASSUME SInv, UNCHANGED <<snapshots, task>>
  PROVE  SnapshotsMade'
  BY DEF SInv, SnapshotsMade

\* What a worker has before it takes snapshots, after it failed, and in between.
LEMMA EarlyGood ==
  ASSUME NEW spec, NEW n, NEW a, NEW m, n.pc \in EarlyStates, n.taken = <<>>
  PROVE  SnapshotGood(spec, n, a, m)
  BY EmptyFacts DEF SnapshotGood, Taken, VolumesSought, EarlyStates, SnapshotStates

LEMMA EndGood ==
  ASSUME NEW spec, NEW r, NEW n, NEW a, NEW m, NEW b, NEW l, SnapshotGood(spec, r, a, m),
         n.pc \in {"failing", "ended"}, n.taken = r.taken, n.stamp = r.stamp
  PROVE  SnapshotGood(spec, n, b, l)
  BY DEF SnapshotGood, Taken, VolumesSought, EarlyStates, SnapshotStates

LEMMA LaterGood ==
  ASSUME NEW spec, NEW r, NEW n, NEW a, NEW m, SnapshotGood(spec, r, a, m),
         n.taken = r.taken, n.stamp = r.stamp, n.claims = r.claims,
         n.namespaces = r.namespaces, n.pc \in EarlyStates => r.pc \in EarlyStates,
         n.pc \in {"snapshotting", "existing"} => r.pc \in {"snapshotting", "existing"},
         \/ ~SnapshotsEnabled(spec)
         \/ n.pc \in SnapshotStates => r.pc \in SnapshotStates,
         \A o : Awaits(r, o) => Awaits(n, o)
  PROVE  SnapshotGood(spec, n, a, m)
<1>1. Taken(spec, n)
  BY DEF SnapshotGood, Taken
<1>2. VolumesSought(spec, n, a, m)
  BY DEF SnapshotGood, VolumesSought, HasSnapshot
<1> QED
  BY <1>1, <1>2 DEF SnapshotGood

LEMMA SnapshotFacts ==
  ASSUME IInv, SInv, NEW w \in DOMAIN task
  PROVE  /\ worker[w] \in WorkerRecords /\ Control(worker[w])
         /\ SnapshotGood(task[w], worker[w], always[w], missed[w])
         /\ worker \in [Workers -> WorkerRecords] /\ w \in Workers
         /\ missed = [v \in Workers |-> missed[v]]
<1>1. worker[w] \in WorkerRecords /\ Control(worker[w])
  BY WorkerFacts DEF Good
<1>2. SnapshotGood(task[w], worker[w], always[w], missed[w])
  BY DEF SInv, WorkerSnapshots
<1>3. /\ worker \in [Workers -> WorkerRecords] /\ w \in Workers
      /\ missed = [v \in Workers |-> missed[v]]
  BY TaskFacts DEF IInv, Typed
<1> QED
  BY <1>1, <1>2, <1>3

-----------------------------------------------------------------------------
(* The steps that leave the snapshots alone.                               *)

LEMMA EarlySteps ==
  ASSUME IInv, SInv, NEW w \in DOMAIN task,
         StartExport(w) \/ ResolveNamespaces(w) \/ Discover(w) \/ ListResources(w)
           \/ ListResourcesFails(w) \/ SortDocuments(w)
  PROVE  SInv'
<1>0. /\ worker[w] \in WorkerRecords /\ worker \in [Workers -> WorkerRecords] /\ w \in Workers
      /\ SnapshotGood(task[w], worker[w], always[w], missed[w])
  BY SnapshotFacts
<1>1. worker[w].pc \in EarlyStates
  BY DEF StartExport, ResolveNamespaces, Discover, ListResources, ListResourcesFails,
     SortDocuments, Listing, EarlyStates
<1>2. worker[w].taken = <<>>
  BY <1>0, <1>1 DEF SnapshotGood, Taken
<1>3. /\ worker'[w].taken = worker[w].taken
      /\ worker'[w].pc \in {"namespaces", "sorted", "discovery", "listing", worker[w].pc}
  <2> HIDE DEF WorkerStates, SnapshotRecords, CallRecords
  <2>1. CASE StartExport(w)
    BY <1>0, <2>1 DEF StartExport, Goto, WorkerRecords
  <2>2. CASE ResolveNamespaces(w)
    BY <1>0, <2>2 DEF ResolveNamespaces, WorkerRecords
  <2>3. CASE Discover(w)
    <3>1. \E calls : worker' = [worker EXCEPT ![w].pc = "listing", ![w].calls = calls]
      BY <2>3 DEF Discover
    <3> QED
      BY <1>0, <3>1 DEF WorkerRecords
  <2>4. CASE ListResources(w)
    BY <1>0, <2>4 DEF ListResources, WorkerRecords
  <2>5. CASE ListResourcesFails(w)
    BY <1>0, <2>5 DEF ListResourcesFails, WorkerRecords
  <2>6. CASE SortDocuments(w)
    BY <1>0, <2>6 DEF SortDocuments, WorkerRecords
  <2> QED
    BY <2>1, <2>2, <2>3, <2>4, <2>5, <2>6
<1>4. worker'[w].pc \in EarlyStates
  BY <1>1, <1>3 DEF EarlyStates
<1>5. PICK n, a, m : n = worker'[w] /\ a = always'[w] /\ m = missed'[w]
  OBVIOUS
<1>6. SnapshotGood(task[w], n, a, m)
  BY <1>2, <1>3, <1>4, <1>5, EarlyGood
<1>7. Frame(w) /\ UNCHANGED <<snapshots, task>>
  BY FrameFacts DEF WorkerStep, ExportStep, CreateSnapshot, Frame, StartExport, ResolveNamespaces,
     Discover, ListResources, ListResourcesFails, SortDocuments
<1> QED
  BY <1>5, <1>6, <1>7, SameSnapshots, SnapshotsWrite

-----------------------------------------------------------------------------
(* The steps of the snapshots, and their snapshots.                        *)

LEMMA AppendFacts ==
  ASSUME NEW D, NEW s \in Seq(D), NEW x \in D
  PROVE  ToSet(Append(s, x)) = ToSet(s) \cup {x}
<1>1. Append(s, x) \in Seq(D)
  OBVIOUS
<1>2. PICK u \in Seq(D) : u = Append(s, x)
  BY <1>1
<1>3. /\ Len(u) = Len(s) + 1 /\ Len(s) \in Nat
      /\ u[Len(s) + 1] = x /\ \A i \in 1..Len(s) : u[i] = s[i]
  BY <1>2
<1>4. ASSUME NEW y \in ToSet(u) PROVE y \in ToSet(s) \cup {x}
  <2>1. PICK i \in 1..Len(u) : u[i] = y
    BY ToSetFacts
  <2>2. i \in 1..Len(s) \/ i = Len(s) + 1
    BY <1>3, <2>1
  <2> QED
    BY <1>3, <2>1, <2>2, ToSetFacts
<1>5. ASSUME NEW y \in ToSet(s) PROVE y \in ToSet(u)
  <2>1. PICK i \in 1..Len(s) : s[i] = y
    BY ToSetFacts
  <2>2. i \in 1..Len(u) /\ u[i] = y
    BY <1>3, <2>1
  <2> QED
    BY <2>2, ToSetFacts
<1>6. x \in ToSet(u)
  <2>1. Len(s) + 1 \in 1..Len(u)
    BY <1>3
  <2> QED
    BY <1>3, <2>1, ToSetFacts
<1> QED
  BY <1>2, <1>4, <1>5, <1>6

\* A worker is done with a claim: with a snapshot, if the claim is to have one.
LEMMA ClaimDone ==
  ASSUME NEW spec, NEW r \in WorkerRecords, NEW a, NEW m, NEW l, NEW n,
         SnapshotGood(spec, r, a, m), m \subseteq l,
         r.pc \in {"snapshotting", "existing"}, r.claims # <<>>,
         n.pc = "snapshotting", n.namespaces = r.namespaces, n.stamp = r.stamp,
         n.claims = Tail(r.claims), ToSet(r.taken) \subseteq ToSet(n.taken),
         \A s \in ToSet(n.taken) \ ToSet(r.taken) :
           /\ NamespaceInScope(spec, s.namespace)
           /\ Len(s.name) < MaxNameLength => s.made >= r.stamp,
         Head(r.claims) \in a /\ Wanted(spec, Head(r.claims), l)
           => HasSnapshot(n, Head(r.claims))
  PROVE  SnapshotGood(spec, n, a, l)
<1>1. Taken(spec, n)
  BY DEF SnapshotGood, Taken, EarlyStates
<1>2. r.claims \in Seq(Objects)
  BY DEF WorkerRecords
<1>3. /\ ToSet(Tail(r.claims)) \subseteq ToSet(r.claims)
      /\ \A o \in ToSet(r.claims) : o = Head(r.claims) \/ o \in ToSet(Tail(r.claims))
  BY <1>2, TailFacts
<1>4. \A o \in ToSet(n.claims) :
        o.namespace = Head(n.namespaces) /\ o.kind = "PersistentVolumeClaim"
  BY <1>3 DEF SnapshotGood, VolumesSought
<1>5. ASSUME SnapshotsEnabled(spec), NEW o \in a, Wanted(spec, o, l)
      PROVE  HasSnapshot(n, o) \/ Awaits(n, o)
  <2>1. Wanted(spec, o, m) /\ r.pc \in SnapshotStates
    BY <1>5 DEF Wanted, SnapshotStates
  <2>2. HasSnapshot(r, o) \/ Awaits(r, o)
    BY <1>5, <2>1 DEF SnapshotGood, VolumesSought
  <2>3. HasSnapshot(r, o) => HasSnapshot(n, o)
    BY DEF HasSnapshot
  <2>4. Awaits(r, o) => o = Head(r.claims) \/ Awaits(n, o)
    BY <1>3 DEF Awaits
  <2> QED
    BY <1>5, <2>2, <2>3, <2>4
<1>6. VolumesSought(spec, n, a, l)
  BY <1>4, <1>5 DEF VolumesSought
<1> QED
  BY <1>1, <1>6 DEF SnapshotGood

\* A worker is done with a namespace: with all its claims, or a call in it failed.
LEMMA NamespaceDone ==
  ASSUME NEW spec, NEW r \in WorkerRecords, NEW a, NEW m, NEW l, NEW n,
         SnapshotGood(spec, r, a, m), m \subseteq l,
         r.pc \in {"claims", "snapshotting"}, r.namespaces # <<>>, r.claims = <<>>,
         r.pc = "claims" => [kind |-> "VolumeSnapshot", namespace |-> Head(r.namespaces)] \in l,
         n.pc = "claims", n.namespaces = Tail(r.namespaces), n.stamp = r.stamp,
         n.taken = r.taken
  PROVE  SnapshotGood(spec, n, a, l)
<1>1. Taken(spec, n)
  BY DEF SnapshotGood, Taken, EarlyStates
<1>2. r.namespaces \in Seq(STRING)
  BY DEF WorkerRecords
<1>3. \A ns \in ToSet(r.namespaces) :
        ns = Head(r.namespaces) \/ ns \in ToSet(Tail(r.namespaces))
  BY <1>2, TailFacts
<1>4. ASSUME SnapshotsEnabled(spec), NEW o \in a, Wanted(spec, o, l)
      PROVE  HasSnapshot(n, o) \/ Awaits(n, o)
  <2>1. Wanted(spec, o, m) /\ r.pc \in SnapshotStates
    BY <1>4 DEF Wanted, SnapshotStates
  <2>2. HasSnapshot(r, o) \/ Awaits(r, o)
    BY <1>4, <2>1 DEF SnapshotGood, VolumesSought
  <2>3. HasSnapshot(r, o) => HasSnapshot(n, o)
    BY DEF HasSnapshot
  <2>4. Awaits(r, o) => Awaits(n, o)
    BY <1>3, <1>4, EmptyFacts DEF Awaits, Wanted
  <2> QED
    BY <2>2, <2>3, <2>4
<1>5. VolumesSought(spec, n, a, l)
  BY <1>4 DEF VolumesSought
<1> QED
  BY <1>1, <1>5 DEF SnapshotGood

LEMMA OnePart ==
  ASSUME NEW D, NEW x \in D, NEW y \in D
  PROVE  /\ <<x>> \in Seq(D) /\ Len(<<x>>) = 1
         /\ <<y, x>> \in Seq(D) /\ Len(<<y, x>>) = 2 /\ <<y, x>>[2] = x
  OBVIOUS

LEMMA ConcatIndex ==
  ASSUME NEW D, NEW s \in Seq(D), NEW t \in Seq(D), NEW u, u = s \o t
  PROVE  /\ u \in Seq(D) /\ Len(u) = Len(s) + Len(t)
         /\ \A i \in 1..Len(s) : u[i] = s[i]
         /\ \A i \in 1..Len(t) : u[Len(s) + i] = t[i]
  OBVIOUS

LEMMA FullNameTyped ==
  ASSUME NEW b \in Seq(NameParts), NEW c \in Seq(NameParts), NEW x \in NameParts
  PROVE  FullName(b, c, x) \in Seq(NameParts)
<1>1. "-" \in NameParts
  BY DEF NameParts
<1>2. PICK dash \in Seq(NameParts), end \in Seq(NameParts) : dash = <<"-">> /\ end = <<"-", x>>
  BY <1>1, OnePart
<1>3. b \o dash \in Seq(NameParts)
  BY ConcatIndex
<1>4. (b \o dash) \o c \in Seq(NameParts)
  BY <1>3, ConcatIndex
<1>5. ((b \o dash) \o c) \o end \in Seq(NameParts)
  BY <1>4, ConcatIndex
<1> QED
  BY <1>2, <1>5 DEF FullName

\* A full name ends with the stamp, and is cut off only when it is too long.
LEMMA FullNameFacts ==
  ASSUME NEW b \in Seq(NameParts), NEW c \in Seq(NameParts), NEW x \in NameParts,
         NEW full \in Seq(NameParts), full = FullName(b, c, x)
  PROVE  /\ Len(full) = Len(b) + Len(c) + 3 /\ full[Len(full)] = x
         /\ \A i \in 1..Len(c) : full[Len(b) + 1 + i] = c[i]
         /\ Len(full) < MaxNameLength \/ Len(SnapshotName(b, c, x)) < MaxNameLength
              => SnapshotName(b, c, x) = full
<1>1. PICK dash, end, h, s : dash = <<"-">> /\ end = <<"-", x>> /\ h = b \o dash /\ s = h \o c
  OBVIOUS
<1>0. "-" \in NameParts
  BY DEF NameParts
<1>2. /\ dash \in Seq(NameParts) /\ end \in Seq(NameParts) /\ Len(dash) = 1 /\ Len(end) = 2 /\ end[2] = x
  BY <1>0, <1>1, OnePart
<1>3. h \in Seq(NameParts) /\ Len(h) = Len(b) + 1
  BY <1>1, <1>2, ConcatIndex
<1>4. /\ s \in Seq(NameParts) /\ Len(s) = Len(b) + 1 + Len(c)
      /\ \A i \in 1..Len(c) : s[Len(b) + 1 + i] = c[i]
  BY <1>1, <1>3, ConcatIndex
<1>5. full = s \o end
  BY <1>1 DEF FullName
<1>50. s \in Seq(NameParts) /\ end \in Seq(NameParts) /\ full = s \o end
  BY <1>2, <1>4, <1>5
<1>51. /\ full \in Seq(NameParts) /\ Len(full) = Len(s) + Len(end)
       /\ \A i \in 1..Len(s) : full[i] = s[i]
       /\ \A i \in 1..Len(end) : full[Len(s) + i] = end[i]
  BY <1>50, ConcatIndex
<1>6. /\ full \in Seq(NameParts) /\ Len(full) = Len(s) + 2
      /\ \A i \in 1..Len(s) : full[i] = s[i]
      /\ full[Len(s) + 2] = end[2]
  BY <1>2, <1>51
<1>7. Len(s) \in Nat /\ Len(b) \in Nat /\ Len(c) \in Nat
  BY <1>4
<1>8. /\ Len(full) = Len(b) + Len(c) + 3 /\ full[Len(full)] = x
      /\ \A i \in 1..Len(c) : full[Len(b) + 1 + i] = c[i]
  <2>1. \A i \in 1..Len(c) : Len(b) + 1 + i \in 1..Len(s)
    BY <1>4, <1>7
  <2> QED
    BY <1>2, <1>4, <1>6, <1>7, <2>1
<1>9. ASSUME NEW name, SnapshotName(b, c, x) = name,
             Len(full) < MaxNameLength \/ Len(name) < MaxNameLength
      PROVE  name = full
  <2>1. name = IF Len(full) > MaxNameLength THEN SubSeq(full, 1, MaxNameLength) ELSE full
    BY <1>9 DEF SnapshotName, SanitizeName
  <2>2. Len(full) > MaxNameLength => Len(SubSeq(full, 1, MaxNameLength)) = MaxNameLength
    BY <1>6, MaxNameLengthAssumption
  <2>3. Len(full) \in Nat
    BY <1>6, <1>7
  <2> QED
    BY <1>9, <2>1, <2>2, <2>3, MaxNameLengthAssumption
<1> QED
  BY <1>6, <1>8, <1>9

\* Names of one backup tell claims apart, and names of any tell seconds apart.
LEMMA FullNamesDiffer ==
  ASSUME NEW b \in Seq(NameParts), NEW c \in Seq(NameParts), NEW x \in NameParts,
         NEW e \in Seq(NameParts), NEW d \in Seq(NameParts), NEW y \in NameParts,
         FullName(b, c, x) = FullName(e, d, y)
  PROVE  x = y /\ (b = e => c = d)
<1>0. FullName(b, c, x) \in Seq(NameParts) /\ FullName(e, d, y) \in Seq(NameParts)
  BY FullNameTyped
<1>01. PICK f \in Seq(NameParts) : f = FullName(b, c, x)
  BY <1>0
<1>02. PICK g \in Seq(NameParts) : g = FullName(e, d, y)
  BY <1>0
<1>1. /\ Len(f) = Len(b) + Len(c) + 3 /\ f[Len(f)] = x
      /\ \A i \in 1..Len(c) : f[Len(b) + 1 + i] = c[i]
  BY <1>01, FullNameFacts
<1>2. /\ Len(g) = Len(e) + Len(d) + 3 /\ g[Len(g)] = y
      /\ \A i \in 1..Len(d) : g[Len(e) + 1 + i] = d[i]
  BY <1>02, FullNameFacts
<1>3. f = g
  BY <1>01, <1>02
<1>4. ASSUME b = e PROVE c = d
  <2>1. Len(c) = Len(d)
    BY <1>1, <1>2, <1>3, <1>4
  <2>2. \A i \in 1..Len(c) : c[i] = d[i]
    BY <1>1, <1>2, <1>3, <1>4, <2>1
  <2> QED
    BY <2>1, <2>2
<1> QED
  BY <1>1, <1>2, <1>3, <1>4

\* A snapshot with the name a worker gives, if it is not cut off, was made in the
\* second of that name or later, and by the same name in full.
LEMMA SameName ==
  ASSUME NEW s \in SnapshotRecords, Made(s), NEW b \in Seq(STRING), NEW c \in Seq(STRING),
         NEW j \in DOMAIN Stamps, s.name = SnapshotName(b, c, Stamps[j]),
         Len(s.name) < MaxNameLength \/ Len(FullName(b, c, Stamps[1])) < MaxNameLength
  PROVE  /\ j <= s.made
         /\ \E i \in DOMAIN Stamps :
              FullName(b, c, Stamps[j]) = FullName(s.backup, s.claim, Stamps[i])
<1>1. /\ b \in Seq(NameParts) /\ c \in Seq(NameParts)
      /\ s.backup \in Seq(NameParts) /\ s.claim \in Seq(NameParts)
      /\ \A i \in DOMAIN Stamps : Stamps[i] \in NameParts
  BY StampsAssumption, ObjectsAssumption DEF Made, NameParts
<1>2. 1 \in DOMAIN Stamps
  BY StampsAssumption
<1>3. PICK e \in Seq(NameParts), d \in Seq(NameParts), i \in DOMAIN Stamps :
        /\ e = s.backup /\ d = s.claim /\ i <= s.made
        /\ s.name = SnapshotName(e, d, Stamps[i])
  BY <1>1 DEF Made
<1>4. PICK f \in Seq(NameParts), g \in Seq(NameParts), h \in Seq(NameParts) :
        /\ f = FullName(b, c, Stamps[1]) /\ g = FullName(b, c, Stamps[j])
        /\ h = FullName(e, d, Stamps[i])
  BY <1>1, <1>2, FullNameTyped
<1>5. Len(f) = Len(g)
  BY <1>1, <1>2, <1>4, FullNameFacts
<1>6. s.name = g
  BY <1>1, <1>4, <1>5, FullNameFacts
<1>7. s.name = h
  <2>1. Len(g) < MaxNameLength
    BY <1>4, <1>5, <1>6
  <2>2. Len(SnapshotName(e, d, Stamps[i])) < MaxNameLength
    BY <1>3, <1>6, <2>1
  <2> QED
    BY <1>1, <1>3, <1>4, <2>2, FullNameFacts
<1>8. FullName(b, c, Stamps[j]) = FullName(e, d, Stamps[i])
  BY <1>4, <1>6, <1>7
<1>9. Stamps[i] = Stamps[j]
  BY <1>1, <1>8, FullNamesDiffer
<1>10. i = j
  BY <1>9, StampsAssumption
<1> QED
  BY <1>3, <1>8, <1>10

\* What a worker has after a claim.
LEMMA TookFacts ==
  ASSUME NEW r \in WorkerRecords, NEW s \in SnapshotRecords, r.claims # <<>>,
         NEW n, n = Took(r, s)
  PROVE  /\ n.pc = "snapshotting" /\ n.namespaces = r.namespaces /\ n.stamp = r.stamp
         /\ n.claims = Tail(r.claims) /\ ToSet(n.taken) = ToSet(r.taken) \cup {s}
<1>1. ToSet(Append(r.taken, s)) = ToSet(r.taken) \cup {s}
  BY AppendFacts DEF WorkerRecords
<1>2. PICK taken, rest : taken = Append(r.taken, s) /\ rest = Tail(r.claims)
  OBVIOUS
<1>3. n = [r EXCEPT !.pc = "snapshotting", !.claims = rest, !.taken = taken]
  BY <1>2 DEF Took
<1>4. /\ n.pc = "snapshotting" /\ n.namespaces = r.namespaces /\ n.stamp = r.stamp
      /\ n.claims = rest /\ n.taken = taken
  <2> HIDE DEF WorkerStates, SnapshotRecords, CallRecords
  <2> QED
    BY <1>3 DEF WorkerRecords
<1> QED
  BY <1>1, <1>2, <1>4

LEMMA WithoutFacts ==
  ASSUME NEW r \in WorkerRecords, NEW n, n = WithoutSnapshot(r)
  PROVE  /\ n.pc = "snapshotting" /\ n.namespaces = r.namespaces /\ n.stamp = r.stamp
         /\ n.claims = Tail(r.claims) /\ n.taken = r.taken
<1>1. PICK rest : rest = Tail(r.claims)
  OBVIOUS
<1>2. n = [r EXCEPT !.pc = "snapshotting", !.claims = rest]
  BY <1>1 DEF WithoutSnapshot
<1> HIDE DEF WorkerStates, SnapshotRecords, CallRecords
<1> QED
  BY <1>1, <1>2 DEF WorkerRecords

\* The claim a worker is at is of the namespace it is at, which is in the scope; the
\* name of its snapshot ends with a second that has come.
LEMMA ClaimNow ==
  ASSUME IInv, SInv, NEW w \in DOMAIN task, Creating(w) \/ worker[w].pc = "existing"
  PROVE  /\ worker[w].claims # <<>> /\ worker[w].pc \in {"snapshotting", "existing"}
         /\ Namespace(w) = Head(worker[w].namespaces) /\ Claim(w) = Head(worker[w].claims)
         /\ Claim(w).namespace = Namespace(w) /\ NamespaceInScope(task[w], Namespace(w))
         /\ Claim(w) \in Objects /\ Claim(w).kind = "PersistentVolumeClaim"
         /\ Claim(w).name \in Seq(STRING) /\ task[w].name \in Seq(STRING)
         /\ worker[w].stamp \in DOMAIN Stamps /\ worker[w].stamp <= clock
         /\ always[w] \subseteq cluster
<1>1. /\ worker[w] \in WorkerRecords /\ Control(worker[w])
      /\ Scoped(task[w], worker[w], ever[w])
      /\ SnapshotGood(task[w], worker[w], always[w], missed[w])
      /\ worker[w].stamp <= clock /\ (Exporting(w) => always[w] \subseteq cluster)
  BY WorkerFacts, SnapshotFacts DEF Good
<1>2. /\ worker[w].claims # <<>> /\ worker[w].namespaces # <<>> /\ Exporting(w)
      /\ Claim(w).name \in Seq(STRING) /\ task[w].name \in Seq(STRING)
  BY AtClaim
<1>3. worker[w].pc \in {"snapshotting", "existing"}
  BY DEF Creating
<1>4. worker[w].claims \in Seq(Objects) /\ worker[w].namespaces \in Seq(STRING)
      /\ worker[w].stamp \in DOMAIN Stamps
  BY <1>1 DEF WorkerRecords
<1>5. /\ Claim(w) \in ToSet(worker[w].claims) /\ Claim(w) \in Objects
      /\ Namespace(w) \in ToSet(worker[w].namespaces)
  BY <1>2, <1>4, TailFacts DEF Claim, Namespace
<1>6. Claim(w).namespace = Namespace(w) /\ Claim(w).kind = "PersistentVolumeClaim"
  BY <1>1, <1>3, <1>5 DEF SnapshotGood, VolumesSought, Namespace
<1>7. NamespaceInScope(task[w], Namespace(w))
  BY <1>1, <1>5 DEF Scoped
<1> QED
  BY <1>1, <1>2, <1>3, <1>4, <1>5, <1>6, <1>7 DEF Claim, Namespace

\* The snapshot that is taken is in the namespace and for the claim.
LEMMA CreateSnapshotSteps ==
  ASSUME IInv, SInv, NEW w \in DOMAIN task, CreateSnapshot(w)
  PROVE  SInv'
<1>0. /\ worker[w] \in WorkerRecords /\ worker \in [Workers -> WorkerRecords] /\ w \in Workers
      /\ SnapshotGood(task[w], worker[w], always[w], missed[w])
  BY SnapshotFacts
<1>1. PICK s : s = SnapshotFor(w)
  OBVIOUS
<1>2. /\ worker[w].claims # <<>> /\ worker[w].pc \in {"snapshotting", "existing"}
      /\ Namespace(w) = Head(worker[w].namespaces) /\ Claim(w) = Head(worker[w].claims)
      /\ Claim(w).namespace = Namespace(w) /\ NamespaceInScope(task[w], Namespace(w))
      /\ Claim(w) \in Objects /\ Claim(w).kind = "PersistentVolumeClaim"
      /\ Claim(w).name \in Seq(STRING) /\ task[w].name \in Seq(STRING)
      /\ worker[w].stamp \in DOMAIN Stamps /\ worker[w].stamp <= clock
  BY ClaimNow DEF CreateSnapshot
<1>3. /\ s.namespace = Namespace(w) /\ s.name = NameFor(w) /\ s.backup = task[w].name
      /\ s.claim = Claim(w).name /\ s.made = clock
  BY <1>1 DEF SnapshotFor
<1>4. snapshots' = snapshots \cup {s} /\ UNCHANGED <<task, always, missed>>
  BY <1>1 DEF CreateSnapshot, history
<1>5. s \in SnapshotRecords
  <2>1. snapshots' \subseteq SnapshotRecords
    BY ClaimSteps DEF IInv, Typed
  <2> QED
    BY <1>4, <2>1
<1>6. PICK n : n = Took(worker[w], s)
  OBVIOUS
<1>7. worker'[w] = n
  BY <1>0, <1>1, <1>6 DEF CreateSnapshot
<1>8. /\ n.pc = "snapshotting" /\ n.namespaces = worker[w].namespaces
      /\ n.stamp = worker[w].stamp /\ n.claims = Tail(worker[w].claims)
      /\ ToSet(n.taken) = ToSet(worker[w].taken) \cup {s}
  BY <1>0, <1>2, <1>5, <1>6, TookFacts
<1>9. Made(s)
  BY <1>2, <1>3 DEF Made, NameFor
<1>10. SnapshotsMade'
  BY <1>3, <1>4, <1>9 DEF SInv, SnapshotsMade
<1>11. /\ NamespaceInScope(task[w], s.namespace) /\ s.made >= worker[w].stamp
       /\ HasSnapshot(n, Head(worker[w].claims))
  <2>1. clock \in Nat /\ worker[w].stamp \in Nat
    BY <1>2, StampsAssumption DEF IInv, Typed
  <2> QED
    BY <1>2, <1>3, <1>8, <2>1 DEF HasSnapshot
<1>12. PICK a, m : a = always'[w] /\ m = missed'[w]
  OBVIOUS
<1> HIDE DEF SnapshotGood, HasSnapshot
<1>13. SnapshotGood(task[w], n, a, m)
  <2>1. SnapshotGood(task[w], worker[w], a, m)
    BY <1>0, <1>4, <1>12
  <2>2. \A t \in ToSet(n.taken) \ ToSet(worker[w].taken) : t = s
    BY <1>8
  <2> QED
    BY <1>0, <1>2, <1>8, <1>11, <2>1, <2>2, ClaimDone
<1>14. Frame(w)
  BY FrameFacts DEF WorkerStep, SnapshotStep
<1> QED
  BY <1>7, <1>10, <1>12, <1>13, <1>14, SnapshotsWrite

\* The snapshot of that name was made for that claim, if names tell claims apart.
LEMMA GetSnapshotSteps ==
  ASSUME IInv, SInv, NEW w \in DOMAIN task, GetSnapshot(w)
  PROVE  SInv'
<1>0. /\ worker[w] \in WorkerRecords /\ worker \in [Workers -> WorkerRecords] /\ w \in Workers
      /\ SnapshotGood(task[w], worker[w], always[w], missed[w])
  BY SnapshotFacts
<1>1. /\ UNCHANGED <<snapshots, task, always, missed>>
      /\ worker[w].pc = "existing"
  BY DEF GetSnapshot, history
<1>2. /\ worker[w].claims # <<>> /\ worker[w].pc \in {"snapshotting", "existing"}
      /\ Namespace(w) = Head(worker[w].namespaces) /\ Claim(w) = Head(worker[w].claims)
      /\ Claim(w).namespace = Namespace(w) /\ NamespaceInScope(task[w], Namespace(w))
      /\ Claim(w) \in Objects /\ Claim(w).kind = "PersistentVolumeClaim"
      /\ Claim(w).name \in Seq(STRING) /\ task[w].name \in Seq(STRING)
      /\ worker[w].stamp \in DOMAIN Stamps /\ worker[w].stamp <= clock
  BY <1>1, ClaimNow
<1>3. PICK s \in SnapshotAt(Namespace(w), NameFor(w)) :
        worker' = [worker EXCEPT ![w] = Took(worker[w], s)]
  BY DEF GetSnapshot
<1>4. PICK n : n = Took(worker[w], s) /\ worker'[w] = n
  BY <1>0, <1>3
<1>5. /\ s \in SnapshotRecords /\ s.namespace = Namespace(w) /\ s.name = NameFor(w)
      /\ Made(s) /\ \E v \in DOMAIN task : s.backup = task[v].name
  BY <1>3 DEF SnapshotAt, IInv, Typed, SInv, SnapshotsMade
<1>6. /\ n.pc = "snapshotting" /\ n.namespaces = worker[w].namespaces
      /\ n.stamp = worker[w].stamp /\ n.claims = Tail(worker[w].claims)
      /\ ToSet(n.taken) = ToSet(worker[w].taken) \cup {s}
  BY <1>0, <1>2, <1>4, <1>5, TookFacts
<1>7. PICK b, c, j : b = task[w].name /\ c = Claim(w).name /\ j = worker[w].stamp
  OBVIOUS
<1>8. /\ b \in Seq(STRING) /\ c \in Seq(STRING) /\ j \in DOMAIN Stamps
      /\ s.name = SnapshotName(b, c, Stamps[j])
  BY <1>2, <1>5, <1>7 DEF NameFor
<1>9. Len(s.name) < MaxNameLength => s.made >= worker[w].stamp
  <2>1. s.made \in Nat /\ j \in Nat
    BY <1>5, <1>8, StampsAssumption DEF SnapshotRecords
  <2> QED
    BY <1>5, <1>7, <1>8, <2>1, SameName
<1>10. PICK a, m : a = always'[w] /\ m = missed'[w]
  OBVIOUS
<1>11. ASSUME Wanted(task[w], Head(worker[w].claims), m)
       PROVE  HasSnapshot(n, Head(worker[w].claims))
  <2>1. Len(FullName(b, c, Stamps[1])) < MaxNameLength
    BY <1>2, <1>7, <1>11 DEF Wanted
  <2>2. PICK i \in DOMAIN Stamps :
          FullName(b, c, Stamps[j]) = FullName(s.backup, s.claim, Stamps[i])
    BY <1>5, <1>8, <2>1, SameName
  <2>3. PICK o \in Objects : /\ o.kind = "PersistentVolumeClaim" /\ s.claim = o.name
                             /\ s.namespace = o.namespace
    BY <1>5 DEF Made
  <2>4. PICK v \in DOMAIN task : s.backup = task[v].name
    BY <1>5
  <2>5. FullName(task[w].name, Claim(w).name, Stamps[j])
          = FullName(task[v].name, o.name, Stamps[i])
    BY <1>7, <2>2, <2>3, <2>4
  <2>6. PICK all \in Assignments, q \in Objects : all = task /\ q = Claim(w)
    BY <1>2 DEF IInv, Typed
  <2>7. /\ v \in DOMAIN all /\ w \in DOMAIN all /\ o.namespace = q.namespace
        /\ FullName(all[w].name, q.name, Stamps[j]) = FullName(all[v].name, o.name, Stamps[i])
    BY <1>2, <1>5, <2>3, <2>5, <2>6
  <2>8. q.name = o.name
    <3>1. ~SnapshotNameShared(all[w], q)
      BY <1>2, <1>11, <2>6 DEF Wanted
    <3> QED
      BY <1>8, <2>3, <2>7, <3>1 DEF SnapshotNameShared
  <2> QED
    BY <1>2, <1>5, <1>6, <2>3, <2>6, <2>8 DEF HasSnapshot
<1> HIDE DEF SnapshotGood, HasSnapshot, Wanted
<1>12. SnapshotGood(task[w], n, a, m)
  <2>1. SnapshotGood(task[w], worker[w], a, m)
    BY <1>0, <1>1, <1>10
  <2>2. \A t \in ToSet(n.taken) \ ToSet(worker[w].taken) :
          /\ NamespaceInScope(task[w], t.namespace)
          /\ Len(t.name) < MaxNameLength => t.made >= worker[w].stamp
    BY <1>2, <1>5, <1>6, <1>9
  <2> QED
    BY <1>0, <1>2, <1>6, <1>11, <2>1, <2>2, ClaimDone
<1>13. Frame(w) /\ SnapshotsMade'
  BY <1>1, FrameFacts, SameSnapshots DEF WorkerStep, SnapshotStep
<1> QED
  BY <1>4, <1>10, <1>12, <1>13, SnapshotsWrite

\* A claim without a snapshot is in a namespace where a call failed.
LEMMA PassedOverSteps ==
  ASSUME IInv, SInv, NEW w \in DOMAIN task, SnapshotFails(w) \/ SnapshotGone(w)
  PROVE  SInv'
<1>0. /\ worker[w] \in WorkerRecords /\ worker \in [Workers -> WorkerRecords] /\ w \in Workers
      /\ SnapshotGood(task[w], worker[w], always[w], missed[w])
      /\ missed = [v \in Workers |-> missed[v]]
  BY SnapshotFacts
<1>1. /\ UNCHANGED <<snapshots, task, always>>
      /\ missed' = [missed EXCEPT ![w] = missed[w] \cup SnapshotsOf(w)]
      /\ worker' = [worker EXCEPT ![w] = WithoutSnapshot(worker[w])]
      /\ Creating(w) \/ worker[w].pc = "existing"
  BY DEF SnapshotFails, SnapshotGone, PassedOver
<1>2. /\ worker[w].claims # <<>> /\ worker[w].pc \in {"snapshotting", "existing"}
      /\ Claim(w) = Head(worker[w].claims) /\ Claim(w).namespace = Namespace(w)
  BY <1>1, ClaimNow
<1>3. PICK n : n = WithoutSnapshot(worker[w]) /\ worker'[w] = n
  BY <1>0, <1>1
<1>4. /\ n.pc = "snapshotting" /\ n.namespaces = worker[w].namespaces
      /\ n.stamp = worker[w].stamp /\ n.claims = Tail(worker[w].claims)
      /\ n.taken = worker[w].taken
  BY <1>0, <1>3, WithoutFacts
<1>5. PICK a, m : a = always'[w] /\ m = missed'[w] /\ m = missed[w] \cup SnapshotsOf(w)
  BY <1>0, <1>1
<1>6. ~Wanted(task[w], Head(worker[w].claims), m)
  BY <1>2, <1>5 DEF Wanted, SnapshotsOf
<1> HIDE DEF SnapshotGood, HasSnapshot, Wanted
<1>7. SnapshotGood(task[w], n, a, m)
  <2>1. SnapshotGood(task[w], worker[w], a, missed[w])
    BY <1>0, <1>1, <1>5
  <2>2. missed[w] \subseteq m
    BY <1>5
  <2> QED
    BY <1>0, <1>2, <1>4, <1>6, <2>1, <2>2, ClaimDone
<1>8. Frame(w) /\ SnapshotsMade'
  BY <1>1, FrameFacts, SameSnapshots DEF WorkerStep, SnapshotStep
<1> QED
  BY <1>3, <1>5, <1>7, <1>8, SnapshotsWrite

\* The name of a claim that was there all the time is not refused.
LEMMA RefusedSteps ==
  ASSUME IInv, SInv, NEW w \in DOMAIN task, SnapshotRefused(w)
  PROVE  SInv'
<1>0. /\ worker[w] \in WorkerRecords /\ worker \in [Workers -> WorkerRecords] /\ w \in Workers
      /\ SnapshotGood(task[w], worker[w], always[w], missed[w])
  BY SnapshotFacts
<1>1. /\ UNCHANGED <<snapshots, task, always, missed>>
      /\ worker' = [worker EXCEPT ![w] = WithoutSnapshot(worker[w])]
      /\ Creating(w)
      /\ ~ValidName(NameFor(w)) \/ Namespace(w) \notin NamespacesIn(cluster)
  BY DEF SnapshotRefused, history
<1>2. /\ worker[w].claims # <<>> /\ worker[w].pc \in {"snapshotting", "existing"}
      /\ Claim(w) = Head(worker[w].claims) /\ Claim(w).namespace = Namespace(w)
      /\ Claim(w).name \in Seq(STRING) /\ task[w].name \in Seq(STRING)
      /\ worker[w].stamp \in DOMAIN Stamps /\ always[w] \subseteq cluster
  BY <1>1, ClaimNow
<1>3. PICK n : n = WithoutSnapshot(worker[w]) /\ worker'[w] = n
  BY <1>0, <1>1
<1>4. /\ n.pc = "snapshotting" /\ n.namespaces = worker[w].namespaces
      /\ n.stamp = worker[w].stamp /\ n.claims = Tail(worker[w].claims)
      /\ n.taken = worker[w].taken
  BY <1>0, <1>3, WithoutFacts
<1>5. PICK a, m : a = always'[w] /\ m = missed'[w]
  OBVIOUS
<1>6. ASSUME Claim(w) \in a, Wanted(task[w], Claim(w), m) PROVE FALSE
  <2>1. Claim(w) \in cluster /\ Claim(w).kind = "PersistentVolumeClaim"
    BY <1>1, <1>2, <1>5, <1>6 DEF Wanted
  <2>2. Claim(w).namespace # NoNamespace
    BY <2>1, ObjectsAssumption DEF IInv, Typed
  <2>3. Namespace(w) \in NamespacesIn(cluster)
    BY <1>2, <2>1, <2>2 DEF IInv, ClusterGood, NamespaceOf
  <2>4. PICK b, c, x : /\ b = task[w].name /\ c = Claim(w).name /\ x = Stamps[worker[w].stamp]
                       /\ NameFor(w) = SnapshotName(b, c, x)
    BY DEF NameFor
  <2>5. /\ b \in Seq(NameParts) /\ c \in Seq(NameParts) /\ x \in NameParts /\ x # "-"
        /\ 1 \in DOMAIN Stamps /\ Stamps[1] \in NameParts
    BY <1>2, <2>4, StampsAssumption DEF NameParts
  <2>6. PICK f \in Seq(NameParts), g \in Seq(NameParts) :
          f = FullName(b, c, Stamps[1]) /\ g = FullName(b, c, x)
    BY <2>5, FullNameTyped
  <2>7. Len(f) < MaxNameLength
    BY <1>6, <2>4, <2>6 DEF Wanted
  <2>8. Len(f) = Len(b) + Len(c) + 3 /\ Len(g) = Len(b) + Len(c) + 3 /\ g[Len(g)] = x
    BY <2>5, <2>6, FullNameFacts
  <2>9. NameFor(w) = g
    <3>1. Len(g) < MaxNameLength
      BY <2>7, <2>8
    <3>2. SnapshotName(b, c, x) = g
      BY <2>5, <2>6, <3>1, FullNameFacts
    <3> QED
      BY <2>4, <3>2
  <2>10. Len(g) # 0
    BY <2>8
  <2>11. ValidName(g)
    BY <2>5, <2>8, <2>10 DEF ValidName, Last
  <2> QED
    BY <1>1, <2>3, <2>9, <2>11
<1> HIDE DEF SnapshotGood, HasSnapshot, Wanted
<1>7. SnapshotGood(task[w], n, a, m)
  <2>1. SnapshotGood(task[w], worker[w], a, m)
    BY <1>0, <1>1, <1>5
  <2> QED
    BY <1>0, <1>2, <1>4, <1>6, <2>1, ClaimDone
<1>8. Frame(w) /\ SnapshotsMade'
  BY <1>1, FrameFacts, SameSnapshots DEF WorkerStep, SnapshotStep
<1> QED
  BY <1>3, <1>5, <1>7, <1>8, SnapshotsWrite

\* A worker is done with a namespace.
LEMMA NextNamespaceSteps ==
  ASSUME IInv, SInv, NEW w \in DOMAIN task, ListClaimsFails(w) \/ EndOfClaims(w)
  PROVE  SInv'
<1>0. /\ worker[w] \in WorkerRecords /\ worker \in [Workers -> WorkerRecords] /\ w \in Workers
      /\ SnapshotGood(task[w], worker[w], always[w], missed[w]) /\ Control(worker[w])
      /\ missed = [v \in Workers |-> missed[v]]
  BY SnapshotFacts
<1>1. /\ UNCHANGED <<snapshots, task, always>>
      /\ worker' = [worker EXCEPT ![w] = NextNamespace(worker[w])]
      /\ worker[w].pc \in {"claims", "snapshotting"}
      /\ \/ missed' = [missed EXCEPT ![w] = missed[w] \cup SnapshotsOf(w)]
         \/ missed' = missed /\ worker[w].pc # "claims"
  BY DEF ListClaimsFails, EndOfClaims, PassedOver, history
<1>2. worker[w].namespaces # <<>> /\ worker[w].claims = <<>>
  BY <1>0 DEF ListClaimsFails, EndOfClaims, Control
<1>3. PICK n, rest : /\ rest = Tail(worker[w].namespaces)
                     /\ n = [worker[w] EXCEPT !.pc = "claims", !.namespaces = rest]
                     /\ worker'[w] = n
  BY <1>0, <1>1 DEF NextNamespace
<1>4. /\ n.pc = "claims" /\ n.namespaces = rest /\ n.stamp = worker[w].stamp
      /\ n.taken = worker[w].taken
  <2> HIDE DEF WorkerStates, SnapshotRecords, CallRecords
  <2> QED
    BY <1>0, <1>3 DEF WorkerRecords
<1>5. PICK a, m : /\ a = always'[w] /\ m = missed'[w] /\ missed[w] \subseteq m
                  /\ m = missed[w] \cup SnapshotsOf(w) \/ worker[w].pc # "claims"
  BY <1>0, <1>1
<1>6. worker[w].pc = "claims" =>
        [kind |-> "VolumeSnapshot", namespace |-> Head(worker[w].namespaces)] \in m
  BY <1>5 DEF SnapshotsOf, Namespace
<1> HIDE DEF SnapshotGood
<1>7. SnapshotGood(task[w], n, a, m)
  <2>1. SnapshotGood(task[w], worker[w], a, missed[w])
    BY <1>0, <1>1, <1>5
  <2> QED
    BY <1>0, <1>1, <1>2, <1>3, <1>4, <1>5, <1>6, <2>1, NamespaceDone
<1>8. Frame(w) /\ SnapshotsMade'
  BY <1>1, FrameFacts, SameSnapshots DEF WorkerStep, SnapshotStep
<1> QED
  BY <1>3, <1>5, <1>7, <1>8, SnapshotsWrite

\* The claims of a namespace that were there all the time are listed.
LEMMA ListClaimsSteps ==
  ASSUME IInv, SInv, NEW w \in DOMAIN task, ListClaims(w)
  PROVE  SInv'
<1>0. /\ worker[w] \in WorkerRecords /\ worker \in [Workers -> WorkerRecords] /\ w \in Workers
      /\ SnapshotGood(task[w], worker[w], always[w], missed[w])
  BY SnapshotFacts
<1>1. /\ UNCHANGED <<snapshots, task, always, missed>> /\ worker[w].namespaces # <<>>
      /\ worker[w].pc = "claims" /\ Namespace(w) = Head(worker[w].namespaces)
  BY DEF ListClaims, history, Namespace
<1>2. always[w] \subseteq cluster /\ cluster \subseteq Objects
  BY <1>1, WorkerFacts DEF Exporting, IInv, Typed
<1>3. PICK found : found = Claims(task[w], Namespace(w), cluster)
  OBVIOUS
<1>4. /\ found \subseteq Objects /\ IsFiniteSet(found)
      /\ \A o \in found : o.namespace = Namespace(w) /\ o.kind = "PersistentVolumeClaim"
      /\ \A o \in cluster : o.kind = "PersistentVolumeClaim" /\ o.namespace = Namespace(w)
           /\ task[w].snapshot.selector \subseteq o.labels => o \in found
  <2>1. found \subseteq Objects
    BY <1>2, <1>3 DEF Claims
  <2>2. IsFiniteSet(found)
    BY <2>1, ObjectsAssumption, FS_Subset
  <2> QED
    BY <1>3, <2>1, <2>2 DEF Claims
<1>5. PICK claims : claims = SetToSeq(found) /\ ToSet(claims) = found
  BY <1>4, SetToSeqIn
<1>6. PICK n : /\ n = [worker[w] EXCEPT !.pc = "snapshotting", !.claims = claims]
               /\ worker'[w] = n
  <2>1. worker' = [worker EXCEPT ![w].pc = "snapshotting", ![w].claims = claims]
    BY <1>3, <1>5 DEF ListClaims
  <2> QED
    BY <1>0, <2>1
<1>7. /\ n.pc = "snapshotting" /\ n.namespaces = worker[w].namespaces
      /\ n.stamp = worker[w].stamp /\ n.taken = worker[w].taken /\ n.claims = claims
  <2> HIDE DEF WorkerStates, SnapshotRecords, CallRecords
  <2> QED
    BY <1>0, <1>6 DEF WorkerRecords
<1>8. PICK a, m : a = always'[w] /\ m = missed'[w] /\ a = always[w] /\ m = missed[w]
  BY <1>1
<1>9. \A ns \in ToSet(worker[w].namespaces) :
        ns = Head(worker[w].namespaces) \/ ns \in ToSet(Tail(worker[w].namespaces))
  BY <1>0, <1>1, TailFacts DEF WorkerRecords
<1>10. SnapshotGood(task[w], n, a, m)
  <2>1. Taken(task[w], n)
    BY <1>0, <1>7 DEF SnapshotGood, Taken, EarlyStates
  <2>2. \A o \in ToSet(n.claims) :
          o.namespace = Head(n.namespaces) /\ o.kind = "PersistentVolumeClaim"
    BY <1>1, <1>4, <1>5, <1>7
  <2>3. ASSUME SnapshotsEnabled(task[w]), NEW o \in a, Wanted(task[w], o, m)
        PROVE  HasSnapshot(n, o) \/ Awaits(n, o)
    <3>1. HasSnapshot(worker[w], o) \/ Awaits(worker[w], o)
      BY <1>0, <1>1, <1>8, <2>3 DEF SnapshotGood, VolumesSought, SnapshotStates
    <3>2. HasSnapshot(worker[w], o) => HasSnapshot(n, o)
      BY <1>7 DEF HasSnapshot
    <3>3. ASSUME Awaits(worker[w], o) PROVE Awaits(n, o)
      <4>1. o.namespace \in ToSet(worker[w].namespaces)
        BY <1>1, <3>3 DEF Awaits
      <4>2. CASE o.namespace = Namespace(w)
        <5>1. o \in ToSet(n.claims)
          BY <1>2, <1>4, <1>5, <1>7, <1>8, <2>3, <4>2 DEF Wanted
        <5> QED
          BY <1>1, <1>7, <4>2, <5>1 DEF Awaits
      <4>3. CASE o.namespace # Namespace(w)
        BY <1>1, <1>7, <1>9, <4>1, <4>3 DEF Awaits
      <4> QED
        BY <4>2, <4>3
    <3> QED
      BY <3>1, <3>2, <3>3
  <2>4. VolumesSought(task[w], n, a, m)
    BY <2>2, <2>3 DEF VolumesSought
  <2> QED
    BY <2>1, <2>4 DEF SnapshotGood
<1> HIDE DEF SnapshotGood
<1>11. Frame(w) /\ SnapshotsMade'
  BY <1>1, FrameFacts, SameSnapshots DEF WorkerStep, SnapshotStep, CreateSnapshot, Creating
<1> QED
  BY <1>6, <1>8, <1>10, <1>11, SnapshotsWrite

\* The namespaces of the claims that were there all the time are found.
LEMMA SnapshotsBegin ==
  ASSUME IInv, SInv, NEW w \in DOMAIN task, StartSnapshots(w), SnapshotsEnabled(task[w])
  PROVE  SInv'
<1>0. /\ worker[w] \in WorkerRecords /\ worker \in [Workers -> WorkerRecords] /\ w \in Workers
      /\ SnapshotGood(task[w], worker[w], always[w], missed[w]) /\ Control(worker[w])
  BY SnapshotFacts
<1>1. /\ UNCHANGED <<snapshots, task, always, missed>> /\ worker[w].pc = "sorted"
  BY DEF StartSnapshots, history
<1>2. /\ always[w] \subseteq cluster /\ cluster \in SUBSET Objects
      /\ task \in Assignments
      /\ \A o \in cluster : NamespaceOf(o) \subseteq NamespacesIn(cluster)
  BY <1>1, WorkerFacts DEF Exporting, IInv, Typed, ClusterGood
<1>3. PICK found : found = ResolvedNamespaces(task[w], NamespacesIn(cluster))
  OBVIOUS
<1>4. /\ IsFiniteSet(found) /\ found \subseteq STRING
      /\ \A ns \in NamespacesIn(cluster) : NamespaceInScope(task[w], ns) => ns \in found
  BY <1>2, <1>3, ResolvedFacts
<1>5. PICK names : names = SetToSeq(found) /\ ToSet(names) = found
  BY <1>4, SetToSeqIn
<1>6. PICK n : /\ n = [worker[w] EXCEPT !.pc = "claims", !.stamp = clock, !.namespaces = names]
               /\ worker'[w] = n
  <2>1. worker' = [worker EXCEPT ![w].pc = "claims", ![w].stamp = clock,
                                 ![w].namespaces = names]
    BY <1>3, <1>5 DEF StartSnapshots
  <2> QED
    BY <1>0, <2>1
<1>7. /\ n.pc = "claims" /\ n.namespaces = names /\ n.stamp = clock
      /\ n.taken = worker[w].taken
  <2> HIDE DEF WorkerStates, SnapshotRecords, CallRecords
  <2> QED
    BY <1>0, <1>6 DEF WorkerRecords
<1>8. PICK a, m : a = always'[w] /\ m = missed'[w] /\ a = always[w]
  BY <1>1
<1>9. n.taken = <<>>
  BY <1>0, <1>1, <1>7 DEF SnapshotGood, Taken, EarlyStates
<1>10. SnapshotGood(task[w], n, a, m)
  <2>1. Taken(task[w], n)
    BY <1>9, EmptyFacts DEF Taken
  <2>2. ASSUME NEW o \in a, Wanted(task[w], o, m) PROVE Awaits(n, o)
    <3>1. o \in cluster /\ o.kind = "PersistentVolumeClaim" /\ NamespaceInScope(task[w], o.namespace)
      BY <1>2, <1>8, <2>2 DEF Wanted
    <3>2. o.namespace # NoNamespace
      BY <1>2, <3>1, ObjectsAssumption
    <3>3. o.namespace \in found
      BY <1>2, <1>4, <3>1, <3>2 DEF NamespaceOf
    <3> QED
      BY <1>5, <1>7, <3>3 DEF Awaits
  <2>3. VolumesSought(task[w], n, a, m)
    BY <1>7, <2>2 DEF VolumesSought
  <2> QED
    BY <2>1, <2>3 DEF SnapshotGood
<1> HIDE DEF SnapshotGood
<1>11. Frame(w) /\ SnapshotsMade'
  BY <1>1, FrameFacts, SameSnapshots DEF WorkerStep, SnapshotStep, CreateSnapshot, Creating
<1> QED
  BY <1>6, <1>8, <1>10, <1>11, SnapshotsWrite

-----------------------------------------------------------------------------
(* The steps that leave what a worker has taken and has before it.         *)

LEMMA GotoSnapshots ==
  ASSUME IInv, SInv, NEW w \in DOMAIN task, NEW n, worker' = [worker EXCEPT ![w] = n],
         n.taken = worker[w].taken, n.stamp = worker[w].stamp, n.claims = worker[w].claims,
         n.namespaces = worker[w].namespaces,
         Frame(w), UNCHANGED <<snapshots, always, missed>>,
         \/ n.pc \in {"failing", "ended"}
         \/ /\ n.pc \in EarlyStates => worker[w].pc \in EarlyStates
            /\ n.pc \in {"snapshotting", "existing"} =>
                 worker[w].pc \in {"snapshotting", "existing"}
            /\ \/ ~SnapshotsEnabled(task[w])
               \/ n.pc \in SnapshotStates => worker[w].pc \in SnapshotStates
            /\ \A o : Awaits(worker[w], o) => Awaits(n, o)
  PROVE  SInv'
<1>1. /\ worker \in [Workers -> WorkerRecords] /\ w \in Workers
      /\ SnapshotGood(task[w], worker[w], always[w], missed[w])
  BY SnapshotFacts
<1>2. PICK r, a, m : r = worker[w] /\ a = always[w] /\ m = missed[w]
  OBVIOUS
<1> HIDE DEF SnapshotGood, EarlyStates, SnapshotStates, Awaits
<1>3. SnapshotGood(task[w], n, a, m)
  <2>1. SnapshotGood(task[w], r, a, m)
    BY <1>1, <1>2
  <2>2. CASE n.pc \in {"failing", "ended"}
    BY <1>2, <2>1, <2>2, EndGood
  <2>3. CASE n.pc \notin {"failing", "ended"}
    BY <1>2, <2>1, <2>3, LaterGood
  <2> QED
    BY <2>2, <2>3
<1>4. worker'[w] = n /\ a = always'[w] /\ m = missed'[w]
  BY <1>1, <1>2
<1>5. SnapshotsMade'
  BY SameSnapshots DEF Frame
<1> QED
  BY <1>3, <1>4, <1>5, SnapshotsWrite

LEMMA PassingSteps ==
  ASSUME IInv, SInv, NEW w \in DOMAIN task,
         \/ ResolveNamespacesFails(w) \/ DiscoverFails(w) \/ StartSnapshotsFails(w)
         \/ StartSnapshots(w) /\ ~SnapshotsEnabled(task[w])
         \/ SnapshotExists(w) \/ Pack(w) \/ StoreArtifact(w) \/ StoreArtifactFails(w)
         \/ Report(w) \/ ReportFails(w) \/ ContextEnds(w)
  PROVE  SInv'
<1>0. worker[w] \in WorkerRecords
  BY SnapshotFacts
<1>1. UNCHANGED <<snapshots, always, missed>>
  BY DEF ResolveNamespacesFails, DiscoverFails, StartSnapshotsFails, StartSnapshots,
     SnapshotExists, Pack, StoreArtifact, StoreArtifactFails, Report, ReportFails, ContextEnds,
     history
<1>2. Frame(w)
  BY FrameFacts DEF WorkerStep, ExportStep, SnapshotStep
<1>3. ASSUME NEW pc, Goto(w, pc),
             \/ pc \in {"failing", "ended"}
             \/ worker[w].pc = "sorted" /\ pc = "packed" /\ ~SnapshotsEnabled(task[w])
             \/ worker[w].pc = "snapshotting" /\ pc = "existing"
             \/ worker[w].pc = "claims" /\ pc = "packed" /\ worker[w].namespaces = <<>>
             \/ worker[w].pc = "packed" /\ pc = "stored"
             \/ worker[w].pc = "stored" /\ pc = "completed"
      PROVE  SInv'
  <2>1. PICK n : n = [worker[w] EXCEPT !.pc = pc]
    OBVIOUS
  <2>2. /\ n.pc = pc /\ n.taken = worker[w].taken /\ n.stamp = worker[w].stamp
        /\ n.claims = worker[w].claims /\ n.namespaces = worker[w].namespaces
    <3> HIDE DEF WorkerStates, SnapshotRecords, CallRecords
    <3> QED
      BY <1>0, <2>1 DEF WorkerRecords
  <2>3. worker' = [worker EXCEPT ![w] = n]
    BY <1>3, <2>1 DEF Goto
  <2>4. pc \notin {"failing", "ended"} => \A o : Awaits(worker[w], o) => Awaits(n, o)
    BY <1>3, <2>2, EmptyFacts DEF Awaits
  <2>5. pc \notin {"failing", "ended"} =>
          /\ n.pc \in EarlyStates => worker[w].pc \in EarlyStates
          /\ n.pc \in {"snapshotting", "existing"} =>
               worker[w].pc \in {"snapshotting", "existing"}
          /\ \/ ~SnapshotsEnabled(task[w])
             \/ n.pc \in SnapshotStates => worker[w].pc \in SnapshotStates
    BY <1>3, <2>2 DEF EarlyStates, SnapshotStates
  <2> QED
    BY <1>1, <1>2, <2>2, <2>3, <2>4, <2>5, GotoSnapshots
<1>4. CASE ContextEnds(w)
  <2>1. PICK n : n = [worker[w] EXCEPT !.intime = FALSE] /\ worker' = [worker EXCEPT ![w] = n]
    BY <1>4 DEF ContextEnds
  <2>2. /\ n.pc = worker[w].pc /\ n.taken = worker[w].taken /\ n.stamp = worker[w].stamp
        /\ n.claims = worker[w].claims /\ n.namespaces = worker[w].namespaces
    <3> HIDE DEF WorkerStates, SnapshotRecords, CallRecords
    <3> QED
      BY <1>0, <2>1 DEF WorkerRecords
  <2>3. \A o : Awaits(worker[w], o) => Awaits(n, o)
    BY <2>2 DEF Awaits
  <2> QED
    BY <1>1, <1>2, <2>1, <2>2, <2>3, GotoSnapshots
<1>5. CASE ~ContextEnds(w)
  BY <1>3, <1>5 DEF ResolveNamespacesFails, DiscoverFails, StartSnapshotsFails,
     StartSnapshots, SnapshotExists, Creating, Pack, StoreArtifact, StoreArtifactFails, Report,
     ReportFails
<1> QED
  BY <1>4, <1>5

LEMMA WorkersSnapshots ==
  ASSUME IInv, SInv, NEW w \in DOMAIN task, WorkerStep(w)
  PROVE  SInv'
<1>1. CASE ExportStep(w)
  BY <1>1, EarlySteps, PassingSteps DEF ExportStep
<1>2. CASE SnapshotStep(w)
  BY <1>2, SnapshotsBegin, ListClaimsSteps, NextNamespaceSteps, CreateSnapshotSteps,
     GetSnapshotSteps, PassedOverSteps, RefusedSteps, PassingSteps DEF SnapshotStep
<1>3. CASE Pack(w) \/ StoreArtifact(w) \/ StoreArtifactFails(w) \/ Report(w) \/ ReportFails(w)
             \/ ContextEnds(w)
  BY <1>3, PassingSteps
<1> QED
  BY <1>1, <1>2, <1>3 DEF WorkerStep

\* Others take volumes and snapshots away; what a worker has taken it keeps.
LEMMA OthersSnapshots ==
  ASSUME IInv, SInv, NEW objects, Change(objects), snapshots' \subseteq snapshots
  PROVE  SInv'
<1>1. UNCHANGED <<task, worker, missed>> /\ DOMAIN task \subseteq Workers
  BY TaskFacts DEF Change, IInv
<1>2. \A w \in Workers : always'[w] \subseteq always[w]
  BY DEF Change
<1>3. SnapshotsMade'
  BY <1>1 DEF SInv, SnapshotsMade
<1>4. ASSUME NEW w \in DOMAIN task PROVE WorkerSnapshots(w)'
  <2>1. SnapshotGood(task[w], worker[w], always[w], missed[w])
    BY SnapshotFacts
  <2>2. \A a \in {always'[w]} : SnapshotGood(task[w], worker[w], a, missed[w])
    BY <1>1, <1>2, <2>1 DEF SnapshotGood, VolumesSought
  <2> HIDE DEF SnapshotGood
  <2> QED
    BY <1>1, <2>2 DEF WorkerSnapshots
<1> QED
  BY <1>1, <1>3, <1>4 DEF SInv

LEMMA InitSInv == Init => SInv
<1> SUFFICES ASSUME Init PROVE SInv
  OBVIOUS
<1>1. \A w \in DOMAIN task : worker[w] = NewWorker
  BY AssignmentsAssumption DEF Init
<1>2. NewWorker.pc \in EarlyStates /\ NewWorker.taken = <<>>
  BY DEF NewWorker, EarlyStates
<1>3. SnapshotsMade
  BY DEF Init, SnapshotsMade
<1> HIDE DEF NewWorker
<1>4. \A w \in DOMAIN task : WorkerSnapshots(w)
  BY <1>1, <1>2, EarlyGood DEF WorkerSnapshots
<1> QED
  BY <1>3, <1>4 DEF SInv

LEMMA NextSInv == IInv /\ SInv /\ [Next]_vars => SInv'
<1>1. ASSUME IInv, SInv, UNCHANGED <<snapshots, task, worker, history>> PROVE SInv'
  <2>1. SnapshotsMade'
    BY <1>1, SameSnapshots
  <2>2. \A w \in DOMAIN task : WorkerSnapshots(w)'
    <3> HIDE DEF SnapshotGood
    <3> QED
      BY <1>1 DEF SInv, WorkerSnapshots, history
  <2> QED
    BY <1>1, <2>1, <2>2 DEF SInv
<1>2. ASSUME IInv, SInv, Next PROVE SInv'
  <2>1. CASE \E w \in DOMAIN task : WorkerStep(w)
    BY <1>2, <2>1, WorkersSnapshots
  <2>2. CASE \E o \in Objects : OthersCreate(o) \/ OthersDelete(o)
    BY <1>2, <2>2, OthersSnapshots DEF OthersCreate, OthersDelete
  <2>3. CASE \E s \in snapshots : OthersDeleteSnapshot(s)
    BY <1>2, <2>3, OthersSnapshots DEF OthersDeleteSnapshot
  <2>4. CASE Tick
    BY <1>1, <1>2, <2>4 DEF Tick
  <2> QED
    BY <1>2, <2>1, <2>2, <2>3, <2>4 DEF Next
<1> QED
  BY <1>1, <1>2 DEF vars

LEMMA SnapshotsInvariant == Spec => [](IInv /\ SInv)
<1>1. Init => IInv /\ SInv
  BY InitIInv, InitSInv
<1>2. IInv /\ SInv /\ [Next]_vars => (IInv /\ SInv)'
  BY NextIInv, NextSInv
<1> QED
  BY <1>1, <1>2, PTL DEF Spec

-----------------------------------------------------------------------------
(* Theorems.                                                               *)

LEMMA WorkerNow ==
  ASSUME IInv, NEW w \in Workers
  PROVE  \/ w \in DOMAIN task
         \/ worker[w].pc = "waiting" /\ worker[w] = NewWorker /\ late[w] = FALSE
            /\ always[w] = {} /\ ever[w] = {}
  BY DEF IInv, IdleWorker, NewWorker

\* Every variable has its type; calls and claims are left only while they are
\* worked on, and snapshots and stamps are of a second that has come
\* (worker_backup.go:232-397).
THEOREM TypeCorrect == Spec => []TypeOK
<1>1. IInv => TypeOK
  <2> SUFFICES ASSUME IInv PROVE TypeOK
    OBVIOUS
  <2>1. Typed /\ ClusterGood
    BY DEF IInv
  <2>2. clock \in Nat /\ clock >= 1
    BY <2>1, StampsAssumption DEF Typed
  <2>3. \A s \in snapshots : s.made \in 1..clock /\ Len(s.name) <= MaxNameLength
    <3>1. \A s \in snapshots : s \in SnapshotRecords
      BY <2>1 DEF Typed
    <3>2. \A s \in SnapshotRecords : s.made \in Nat
      BY DEF SnapshotRecords
    <3> QED
      BY <2>1, <2>2, <3>1, <3>2 DEF ClusterGood
  <2>4. ASSUME NEW w \in Workers
        PROVE  /\ worker[w].pc \in WorkerStates /\ worker[w].intime \in BOOLEAN
               /\ worker[w].calls # <<>> => worker[w].pc \in {"listing", "failing", "ended"}
               /\ worker[w].claims # <<>> => worker[w].pc \in {"snapshotting", "existing"}
               /\ worker[w].stamp \in 1..clock
               /\ always[w] \subseteq ever[w] /\ ever[w] \subseteq Objects
    <3>1. worker[w] \in WorkerRecords /\ ever[w] \in SUBSET Objects
      BY <2>1 DEF Typed
    <3>2. /\ worker[w].pc \in WorkerStates /\ worker[w].intime \in BOOLEAN
          /\ worker[w].stamp \in DOMAIN Stamps
      BY <3>1 DEF WorkerRecords
    <3>3. worker[w].stamp \in Nat /\ worker[w].stamp >= 1
      BY <3>2, StampsAssumption
    <3>4. CASE w \in DOMAIN task
      <4>1. Control(worker[w]) /\ worker[w].stamp <= clock /\ always[w] \subseteq ever[w]
        BY <3>4, WorkerFacts DEF Good
      <4> QED
        BY <2>2, <3>1, <3>2, <3>3, <4>1 DEF Control
    <3>5. CASE w \notin DOMAIN task
      <4>1. worker[w] = NewWorker /\ always[w] = {}
        BY <3>5, WorkerNow
      <4>2. worker[w].calls = <<>> /\ worker[w].claims = <<>> /\ worker[w].stamp = 1
        BY <4>1 DEF NewWorker
      <4>3. always[w] \subseteq ever[w]
        BY <4>1
      <4> HIDE DEF NewWorker
      <4> QED
        BY <2>2, <3>1, <3>2, <4>2, <4>3
    <3> QED
      BY <3>4, <3>5
  <2> QED
    BY <2>1, <2>3, <2>4 DEF TypeOK, Typed
<1> QED
  BY <1>1, Invariant, PTL

\* A backup is Completed only if no call of its export was passed over because
\* the two hours of its context were over (worker.go:54, worker_backup.go:261, 393).
THEOREM CompletedMeansInTime == Spec => []CompletedInTime
<1>1. IInv => CompletedInTime
  <2> SUFFICES ASSUME IInv, NEW w \in Workers, worker[w].pc = "completed" PROVE ~late[w]
    BY DEF CompletedInTime
  <2>1. w \in DOMAIN task
    BY WorkerNow
  <2> QED
    BY <2>1, WorkerFacts DEF Good, Control
<1> QED
  BY <1>1, Invariant, PTL

\* Every object of an artifact is in the scope of its backup, as the worker takes the
\* fields of BackupSpec, and was in the cluster during the export, whatever fails and
\* whatever others change (worker_backup.go:232-293, 567-580).
THEOREM ExportsInScope == Spec => []ExportedInScope
<1>1. IInv => ExportedInScope
  <2> SUFFICES ASSUME IInv, NEW w \in Workers, Archived(w), NEW o \in Documents(w)
               PROVE  InScope(task[w], o) /\ o \in ever[w]
    BY DEF ExportedInScope
  <2>1. w \in DOMAIN task
    BY WorkerNow DEF Archived
  <2> QED
    BY <2>1, WorkerFacts DEF Good, Scoped, Documents
<1> QED
  BY <1>1, Invariant, PTL

\* Every object of the scope that was there during the whole export is in the
\* artifact, once, unless the call for it had no result: no filter, no order of
\* calls and no change by others loses or repeats one (worker_backup.go:232-293).
THEOREM ExportsEverything == Spec => []ExportComplete
<1>1. IInv => ExportComplete
  <2> SUFFICES ASSUME IInv, NEW w \in Workers, Archived(w), task[w].export,
                      NEW o \in always[w], InScope(task[w], o),
                      [kind |-> o.kind, namespace |-> o.namespace] \notin missed[w]
               PROVE  \E i \in DOMAIN worker[w].documents :
                        \A j \in DOMAIN worker[w].documents :
                          worker[w].documents[j] = o <=> j = i
    BY DEF ExportComplete
  <2>1. w \in DOMAIN task
    BY WorkerNow DEF Archived
  <2>2. /\ worker[w] \in WorkerRecords
        /\ Good(task[w], worker[w], ever[w], always[w], missed[w])
    BY <2>1, WorkerFacts
  <2>3. worker[w].calls = <<>> /\ worker[w].pc \in SearchedStates
    BY <2>2 DEF Good, Control, Archived, SearchedStates
  <2>4. Distinct(worker[w].documents) /\ Sought(worker[w], o, missed[w])
    BY <2>2 DEF Good, Covered
  <2>5. o \in ToSet(worker[w].documents)
    BY <2>3, <2>4, EmptyFacts DEF Sought
  <2>6. PICK s \in Seq(Objects) : s = worker[w].documents
    BY <2>2 DEF WorkerRecords
  <2>7. PICK i \in 1..Len(s) : s[i] = o
    BY <2>5, <2>6, ToSetFacts
  <2>8. \A j \in 1..Len(s) : s[j] = o <=> j = i
    BY <2>4, <2>6, <2>7 DEF Distinct
  <2>9. DOMAIN s = 1..Len(s)
    BY <2>6
  <2> QED
    BY <2>6, <2>7, <2>8, <2>9
<1> QED
  BY <1>1, Invariant, PTL


\* A snapshot that a backup names is in its scope and, if its name was not cut off,
\* was taken by this run or by one that read its clock in the same second, although
\* a name that is taken is used as it is (worker_backup.go:355-391).
THEOREM SnapshotsAreRecent == Spec => []SnapshotsRecent
<1>1. IInv /\ SInv => SnapshotsRecent
  <2> SUFFICES ASSUME IInv, SInv, NEW w \in Workers, NEW s \in ToSet(worker[w].taken)
               PROVE  /\ NamespaceInScope(task[w], s.namespace)
                      /\ Len(s.name) < MaxNameLength => s.made >= worker[w].stamp
    BY DEF SnapshotsRecent
  <2>1. w \in DOMAIN task
    <3>1. worker[w].taken # <<>>
      BY EmptyFacts
    <3>2. NewWorker.taken = <<>>
      BY DEF NewWorker
    <3> HIDE DEF NewWorker
    <3> QED
      BY <3>1, <3>2, WorkerNow
  <2> QED
    BY <2>1, SnapshotFacts DEF SnapshotGood, Taken
<1> QED
  BY <1>1, SnapshotsInvariant, PTL

\* The names of one backup tell claims apart, however many workers run it: then the
\* theorem below leaves out no volume but those whose names may be cut off.
LEMMA OneBackup ==
  ASSUME \A b \in Assignments : \A v, w \in DOMAIN b : b[v].name = b[w].name,
         NEW b \in Assignments, NEW v \in DOMAIN b, NEW o \in Objects
  PROVE  ~SnapshotNameShared(b[v], o)
<1> SUFFICES ASSUME NEW a \in Assignments, NEW t \in DOMAIN a, NEW w \in DOMAIN a,
                    NEW x \in Objects, NEW i \in DOMAIN Stamps, NEW j \in DOMAIN Stamps,
                    a[t] = b[v],
                    FullName(b[v].name, o.name, Stamps[i]) = FullName(a[w].name, x.name, Stamps[j])
             PROVE  o.name = x.name
  BY DEF SnapshotNameShared
<1>1. /\ b[v].name \in Seq(NameParts) /\ o.name \in Seq(NameParts) /\ x.name \in Seq(NameParts)
      /\ Stamps[i] \in NameParts /\ Stamps[j] \in NameParts /\ b[v].name = a[w].name
  BY AssignmentsAssumption, ObjectsAssumption, StampsAssumption DEF NameParts
<1>2. PICK e, c, d : /\ e = b[v].name /\ c = o.name /\ d = x.name
                     /\ FullName(e, c, Stamps[i]) = FullName(e, d, Stamps[j])
  BY <1>1
<1> QED
  BY <1>1, <1>2, FullNamesDiffer

\* Every volume that a backup is to take, and that was there during the whole export,
\* has a snapshot in the artifact, unless a call in its namespace failed, its name may
\* have been cut off, or its name may be that of another volume's snapshot, taken by a
\* backup that runs beside it (worker_backup.go:356-397).
THEOREM SnapshotsAreComplete == Spec => []SnapshotsComplete
<1>1. IInv /\ SInv => SnapshotsComplete
  <2> SUFFICES ASSUME IInv, SInv, NEW w \in Workers, Archived(w), SnapshotsEnabled(task[w]),
                      NEW o \in always[w], o.kind = "PersistentVolumeClaim",
                      NamespaceInScope(task[w], o.namespace),
                      task[w].snapshot.selector \subseteq o.labels,
                      [kind |-> "VolumeSnapshot", namespace |-> o.namespace] \notin missed[w],
                      Len(FullName(task[w].name, o.name, Stamps[1])) < MaxNameLength,
                      ~SnapshotNameShared(task[w], o)
               PROVE  HasSnapshot(worker[w], o)
    <3>1. \A n, k \in Nat : ~(n >= k) => n < k
      OBVIOUS
    <3>2. ASSUME NEW w \in Workers, NEW o \in always[w], w \in DOMAIN task, IInv
          PROVE  Len(FullName(task[w].name, o.name, Stamps[1])) \in Nat
      <4>1. /\ task[w].name \in Seq(NameParts) /\ o.name \in Seq(NameParts)
            /\ Stamps[1] \in NameParts
        BY <3>2, TaskFacts, WorkerFacts, AssignmentsAssumption, ObjectsAssumption,
           StampsAssumption DEF IInv, NameParts
      <4>2. FullName(task[w].name, o.name, Stamps[1]) \in Seq(NameParts)
        BY <4>1, FullNameTyped
      <4> QED
        BY <4>2
    <3>3. ASSUME IInv, NEW w \in Workers, Archived(w) PROVE w \in DOMAIN task
      BY <3>3, WorkerNow DEF Archived
    <3> QED
      BY <3>1, <3>2, <3>3, MaxNameLengthAssumption DEF SnapshotsComplete, HasSnapshot
  <2>1. w \in DOMAIN task
    BY WorkerNow DEF Archived
  <2>2. Wanted(task[w], o, missed[w])
    BY DEF Wanted
  <2>3. SnapshotGood(task[w], worker[w], always[w], missed[w])
    BY <2>1, SnapshotFacts
  <2> QED
    BY <2>2, <2>3 DEF SnapshotGood, VolumesSought, Archived, SnapshotStates, Awaits
<1> QED
  BY <1>1, SnapshotsInvariant, PTL

================================================================================

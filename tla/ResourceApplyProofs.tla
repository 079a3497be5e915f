-------------------------- MODULE ResourceApplyProofs --------------------------
(***************************************************************************)
(* Theorems about ResourceApply, for any archive, mapping, target cluster  *)
(* and number of workers.                                                  *)
(***************************************************************************)
EXTENDS ResourceApply, ResourceKindsProofs

-----------------------------------------------------------------------------
(* Documents, and the keys of their objects.                               *)

Strings == [kind : STRING, namespace : STRING, name : STRING]

LEMMA DocumentFacts ==
  ASSUME NEW d \in Documents
  PROVE  /\ d \in Strings
         /\ TargetKey(d) \in Keys
         /\ TargetKey(d).kind = d.kind /\ TargetKey(d).name = d.name
         /\ TargetKey(d).namespace =
              IF d.namespace = NoNamespace THEN NoNamespace ELSE TargetNamespace(d.namespace)
         /\ TargetKey(d).namespace # NoNamespace =>
              NamespaceKey(TargetKey(d).namespace) \in Keys
<1>1. d \in Strings
  BY ApplyAssumption, ToSetFacts DEF Documents, Strings
<1>2. TargetKey(d) \in TargetKeys
  BY DEF TargetKeys
<1>3. TargetKey(d) \in Keys
  BY <1>2 DEF Keys
<1>4. TargetKey(d).namespace # NoNamespace =>
        NamespaceKey(TargetKey(d).namespace) \in Keys
  BY <1>2 DEF Keys
<1>5. /\ TargetKey(d).kind = d.kind /\ TargetKey(d).name = d.name
      /\ TargetKey(d).namespace =
           IF d.namespace = NoNamespace THEN NoNamespace ELSE TargetNamespace(d.namespace)
  BY <1>1 DEF TargetKey, Strings
<1> QED
  BY <1>1, <1>3, <1>4, <1>5

\* A namespaced document has a namespaced object.
LEMMA TargetNamespaceFacts ==
  ASSUME NEW ns, ns # NoNamespace
  PROVE  /\ TargetNamespace(ns) # NoNamespace
         /\ \/ TargetNamespace(ns) = DefaultNamespace
            \/ ns \in DOMAIN Mapping /\ TargetNamespace(ns) = Mapping[ns]
            \/ DefaultNamespace = NoNamespace /\ TargetNamespace(ns) = ns
  BY ApplyAssumption DEF TargetNamespace

\* What is applied: every document that is not skipped, earlier kinds first.
LEMMA DocumentsToApplyFacts ==
  /\ DocumentsToApply \in Seq(Documents)
  /\ ToSet(DocumentsToApply) = {d \in Documents : ~ShouldSkipKind(d.kind)}
  /\ \A k, l \in 1..Len(DocumentsToApply) : k <= l =>
       ResourcePriority(DocumentsToApply[k].kind)
         <= ResourcePriority(DocumentsToApply[l].kind)
<1> DEFINE Kept == {d \in Documents : ~ShouldSkipKind(d.kind)}
           parts == [i \in DOMAIN Archive |->
                       IF ~ShouldSkipKind(Archive[i].kind) THEN <<Archive[i]>> ELSE <<>>]
           chosen == FlattenSeq(parts)
<1>1. Archive \in Seq(Strings)
  BY ApplyAssumption DEF Strings
<1>2. Archive \in Seq(Documents)
  <2>1. \A k \in 1..Len(Archive) : Archive[k] \in Documents
    BY <1>1, ToSetFacts DEF Documents
  <2> QED
    BY <1>1, <2>1
<1>3. parts = [i \in DOMAIN Archive |->
                 IF Archive[i] \in Kept THEN <<Archive[i]>> ELSE <<>>]
  <2>1. \A i \in DOMAIN Archive : Archive[i] \in Documents
    BY <1>2
  <2> QED
    BY <2>1
<1> HIDE DEF parts
<1>4. chosen \in Seq(Documents) /\ ToSet(chosen) = ToSet(Archive) \cap Kept
  <2> HIDE DEF Kept
  <2> QED
    BY <1>2, <1>3, SelectedFacts
<1>5. DocumentsToApply = ByPriority(chosen)
  BY DEF DocumentsToApply, Selected, parts
<1>6. ToSet(Archive) \cap Kept = Kept
  BY DEF Documents
<1> HIDE DEF chosen, Kept
<1> QED
  BY <1>4, <1>5, <1>6, ByPriorityFacts DEF Kept

\* The documents from the i-th on.
Rest(i) == SubSeq(DocumentsToApply, i, Len(DocumentsToApply))

Positions == 1..(Len(DocumentsToApply) + 1)

LEMMA RestFacts ==
  ASSUME NEW i \in Positions
  PROVE  /\ Rest(i) \in Seq(Documents)
         /\ Rest(i) = <<>> <=> i = Len(DocumentsToApply) + 1
         /\ IsSuffix(Rest(i), DocumentsToApply)
         /\ Rest(i) # <<>> =>
              /\ i \in 1..Len(DocumentsToApply) /\ i + 1 \in Positions
              /\ Head(Rest(i)) = DocumentsToApply[i] /\ Tail(Rest(i)) = Rest(i + 1)
              /\ Head(Rest(i)) \in Documents
         /\ ToSet(Rest(i)) = {DocumentsToApply[k] : k \in i..Len(DocumentsToApply)}
<1> DEFINE s == DocumentsToApply
           n == Len(s)
<1>1. s \in Seq(Documents) /\ n \in Nat /\ i \in 1..(n + 1)
  BY DocumentsToApplyFacts DEF Positions
<1> HIDE DEF s
<1>2. /\ SubSeq(s, i, n) \in Seq(Documents) /\ Len(SubSeq(s, i, n)) = n - i + 1
      /\ \A k \in 1..(n - i + 1) : SubSeq(s, i, n)[k] = s[k + i - 1]
  BY <1>1
<1>3. SubSeq(s, i, n) = <<>> <=> i = n + 1
  <2>1. \A t \in Seq(Documents) : t = <<>> <=> Len(t) = 0
    OBVIOUS
  <2>2. SubSeq(s, i, n) = <<>> <=> n - i + 1 = 0
    BY <1>2, <2>1
  <2> QED
    BY <1>1, <2>2
<1>4. ASSUME i # n + 1
      PROVE  /\ Head(SubSeq(s, i, n)) = s[i] /\ s[i] \in Documents
             /\ Tail(SubSeq(s, i, n)) = SubSeq(s, i + 1, n)
  <2>1. i \in 1..n
    BY <1>1, <1>4
  <2> QED
    BY <1>1, <1>2, <2>1
<1>5. ToSet(SubSeq(s, i, n)) = {s[k] : k \in i..n}
  <2> DEFINE t == SubSeq(s, i, n)
  <2>1. t \in Seq(Documents) /\ Len(t) = n - i + 1
    BY <1>2
  <2>2. \A k \in i..n : k - i + 1 \in 1..Len(t) /\ t[k - i + 1] = s[k]
    BY <1>1, <1>2
  <2>3. \A k \in 1..Len(t) : k + i - 1 \in i..n /\ t[k] = s[k + i - 1]
    BY <1>1, <1>2
  <2> HIDE DEF t
  <2>4. \A x : x \in ToSet(t) <=> \E k \in i..n : x = s[k]
    BY <2>1, <2>2, <2>3, ToSetFacts
  <2> QED
    BY <2>4 DEF t
<1>6. IsSuffix(SubSeq(s, i, n), s)
  <2> DEFINE a == Reverse(SubSeq(s, i, n))
             b == Reverse(s)
  <2>1. a \in Seq(Documents) /\ Len(a) = n - i + 1 /\ b \in Seq(Documents) /\ Len(b) = n
    BY <1>1, <1>2 DEF Reverse
  <2>2. \A k \in 1..(n - i + 1) : a[k] = b[k]
    BY <1>1, <1>2 DEF Reverse
  <2> HIDE DEF a, b
  <2>3. SubSeq(a, 1, Len(a)) = SubSeq(b, 1, Len(a))
    BY <1>1, <2>1, <2>2
  <2>4. Len(a) <= Len(b)
    BY <1>1, <2>1
  <2> QED
    BY <2>3, <2>4 DEF IsSuffix, IsPrefix, a, b
<1> QED
  BY <1>1, <1>2, <1>3, <1>4, <1>5, <1>6 DEF Rest, Positions, s

-----------------------------------------------------------------------------
(* The inductive invariant: what TypeOK says of a worker, with its          *)
(* documents as a position in DocumentsToApply, and objects that hold a    *)
(* document only where that document belongs.                              *)

AllKinds == BuiltinKinds \cup {k.name : k \in Keys}

WorkerRecords ==
  [pc : WorkerStates, todo : Seq(Documents), known : SUBSET AllKinds, fresh : BOOLEAN]

Good(r) ==
  /\ r \in WorkerRecords
  /\ \E i \in Positions : r.todo = Rest(i)
  /\ r.pc \notin {"waiting", "done", "failed"} <=> r.todo # <<>> /\ r.pc # "failed"
  /\ r.known # Undiscovered => BuiltinKinds \subseteq r.known
  /\ r.fresh => r.pc \in {"update", "failed"}

WorkersGood == DOMAIN worker = Workers /\ \A w \in Workers : Good(worker[w])

TargetsKept == \A k \in Keys : live[k] \in Documents => TargetKey(live[k]) = k

IInv ==
  /\ calm \in BOOLEAN /\ live \in Objects
  /\ WorkersGood /\ worker \in [Workers -> WorkerRecords]
  /\ TargetsKept

LEMMA IInvGivesTypeOK == IInv => TypeOK
<1> SUFFICES ASSUME IInv PROVE TypeOK
  OBVIOUS
<1>1. \A w \in Workers : IsSuffix(worker[w].todo, DocumentsToApply)
  BY RestFacts DEF IInv, WorkersGood, Good
<1> QED
  BY <1>1 DEF IInv, WorkersGood, Good, TypeOK, Running, WorkerRecords

LEMMA ProceedFacts ==
  ASSUME NEW todo
  PROVE  /\ Proceed(todo) \in {"done", "mapping", "namespace"}
         /\ Proceed(todo) = "done" <=> todo = <<>>
         /\ Proceed(todo) = "mapping" => Head(todo).namespace = NoNamespace
  BY DEF Proceed

\* The document of a worker that runs.
LEMMA RunningFacts ==
  ASSUME IInv, NEW w \in Workers, Running(w)
  PROVE  /\ worker[w].todo # <<>> /\ Doc(w) \in Documents /\ Key(w) \in Keys
         /\ worker[w].todo \in Seq(Documents)
         /\ Key(w).namespace # NoNamespace => NamespaceKey(Key(w).namespace) \in Keys
<1>1. worker[w].todo # <<>>
  BY DEF IInv, WorkersGood, Good, Running
<1>2. PICK i \in Positions : worker[w].todo = Rest(i)
  BY DEF IInv, WorkersGood, Good
<1>3. Head(worker[w].todo) \in Documents /\ worker[w].todo \in Seq(Documents)
  BY <1>1, <1>2, RestFacts
<1> QED
  BY <1>1, <1>3, DocumentFacts DEF Doc, Key

LEMMA NextDocumentGood ==
  ASSUME NEW r, Good(r), r.pc \notin {"waiting", "done", "failed"}
  PROVE  /\ Good(NextDocument(r))
         /\ NextDocument(r).todo = Tail(r.todo) /\ NextDocument(r).known = r.known
         /\ NextDocument(r).pc = Proceed(Tail(r.todo)) /\ ~NextDocument(r).fresh
<1>1. r \in WorkerRecords /\ r.todo # <<>>
  BY DEF Good
<1>2. PICK i \in Positions : r.todo = Rest(i)
  BY DEF Good
<1>3. i + 1 \in Positions /\ Tail(r.todo) = Rest(i + 1)
  BY <1>1, <1>2, RestFacts
<1>4. Tail(r.todo) \in Seq(Documents)
  BY <1>3, RestFacts
<1>5. Proceed(Tail(r.todo)) \in WorkerStates
  BY ProceedFacts DEF WorkerStates
<1>6. /\ NextDocument(r) \in WorkerRecords
      /\ NextDocument(r).todo = Tail(r.todo) /\ NextDocument(r).known = r.known
      /\ NextDocument(r).pc = Proceed(Tail(r.todo)) /\ NextDocument(r).fresh = FALSE
  <2> DEFINE t == Tail(r.todo)
             p == Proceed(t)
  <2>1. NextDocument(r) = [r EXCEPT !.todo = t, !.pc = p, !.fresh = FALSE]
    BY DEF NextDocument
  <2>2. t \in Seq(Documents) /\ p \in WorkerStates
    BY <1>4, <1>5
  <2> HIDE DEF t, p
  <2>3. /\ NextDocument(r) \in WorkerRecords
        /\ NextDocument(r).todo = t /\ NextDocument(r).known = r.known
        /\ NextDocument(r).pc = p /\ NextDocument(r).fresh = FALSE
    BY <1>1, <2>1, <2>2 DEF WorkerRecords
  <2> QED
    BY <2>3 DEF t, p
<1>7. Proceed(Tail(r.todo)) \notin {"waiting", "failed"}
      /\ (Proceed(Tail(r.todo)) = "done" <=> Tail(r.todo) = <<>>)
  BY ProceedFacts
<1>8. r.known # Undiscovered => BuiltinKinds \subseteq r.known
  BY DEF Good
<1>9. Good(NextDocument(r))
  BY <1>3, <1>6, <1>7, <1>8 DEF Good
<1> QED
  BY <1>6, <1>9

LEMMA GotoGood ==
  ASSUME NEW r, Good(r), NEW pc \in WorkerStates \ {"waiting", "done"}, ~r.fresh \/ pc = "failed",
         r.pc \notin {"waiting", "done", "failed"}
  PROVE  Good([r EXCEPT !.pc = pc])
<1>1. [r EXCEPT !.pc = pc] \in WorkerRecords
  BY DEF Good, WorkerRecords
<1> QED
  BY <1>1 DEF Good, WorkerRecords

LEMMA OutdatedGood ==
  ASSUME IInv, NEW keys
  PROVE  /\ Outdated(keys) \in [Workers -> WorkerRecords]
         /\ \A w \in Workers :
              /\ Good(Outdated(keys)[w])
              /\ Outdated(keys)[w].pc = worker[w].pc /\ Outdated(keys)[w].todo = worker[w].todo
              /\ Outdated(keys)[w].known = worker[w].known
              /\ Outdated(keys)[w].fresh => worker[w].fresh
              /\ Running(w) /\ Key(w) \in keys => ~Outdated(keys)[w].fresh
              /\ ~(Running(w) /\ Key(w) \in keys) => Outdated(keys)[w] = worker[w]
<1>1. \A w \in Workers : worker[w] \in WorkerRecords /\ Good(worker[w])
  BY DEF IInv, WorkersGood
<1>2. \A r \in WorkerRecords :
        /\ [r EXCEPT !.fresh = FALSE] \in WorkerRecords
        /\ [r EXCEPT !.fresh = FALSE].pc = r.pc /\ [r EXCEPT !.fresh = FALSE].todo = r.todo
        /\ [r EXCEPT !.fresh = FALSE].known = r.known
        /\ [r EXCEPT !.fresh = FALSE].fresh = FALSE
  BY DEF WorkerRecords
<1>3. \A r \in WorkerRecords : Good(r) => Good([r EXCEPT !.fresh = FALSE])
  BY <1>2 DEF Good
<1> QED
  BY <1>1, <1>2, <1>3 DEF Outdated

LEMMA InitIInv == Init => IInv
<1> SUFFICES ASSUME Init PROVE IInv
  OBVIOUS
<1>1. live \in Objects
  BY DEF Init, Objects
<1>2. Len(DocumentsToApply) + 1 \in Positions /\ Rest(Len(DocumentsToApply) + 1) = <<>>
  BY DocumentsToApplyFacts, RestFacts DEF Positions
<1>3. NewWorker \in WorkerRecords
  BY DEF NewWorker, WorkerRecords, WorkerStates, Undiscovered
<1>4. Good(NewWorker)
  BY <1>2, <1>3 DEF NewWorker, Good
<1>5. TargetsKept
  BY ApplyAssumption DEF Init, TargetsKept
<1> QED
  BY <1>1, <1>3, <1>4, <1>5 DEF Init, IInv, WorkersGood

-----------------------------------------------------------------------------
(* What each action does, in terms of the workers' fields.                 *)

\* What a worker keeps when another one moves.
Others(w) ==
  \A v \in Workers \ {w} :
    /\ Good(worker'[v])
    /\ worker'[v].pc = worker[v].pc /\ worker'[v].todo = worker[v].todo
    /\ worker'[v].known = worker[v].known /\ (worker'[v].fresh => worker[v].fresh)

Becomes(w, pc, todo, known) ==
  /\ worker' \in [Workers -> WorkerRecords]
  /\ Good(worker'[w])
  /\ worker'[w].pc = pc /\ worker'[w].todo = todo /\ worker'[w].known = known
  /\ Others(w)

GoesTo(w, pc) == Becomes(w, pc, worker[w].todo, worker[w].known)

PassesOn(w, known) == Becomes(w, Proceed(Tail(worker[w].todo)), Tail(worker[w].todo), known)

LEMMA BecomesFacts ==
  ASSUME IInv, NEW w \in Workers, NEW r, Good(r), worker' = [worker EXCEPT ![w] = r]
  PROVE  Becomes(w, r.pc, r.todo, r.known) /\ worker'[w] = r
<1>1. r \in WorkerRecords
  BY DEF Good
<1> QED
  BY <1>1 DEF IInv, WorkersGood, Becomes, Others

LEMMA GotoFacts ==
  ASSUME IInv, NEW w \in Workers, Running(w), NEW pc \in WorkerStates \ {"waiting", "done"},
         ~worker[w].fresh \/ pc = "failed", Goto(w, pc)
  PROVE  GoesTo(w, pc) /\ worker'[w].fresh = worker[w].fresh
<1> DEFINE r == [worker[w] EXCEPT !.pc = pc]
<1>1. Good(worker[w]) /\ worker[w] \in WorkerRecords
  BY DEF IInv, WorkersGood
<1>2. Good(r)
  BY <1>1, GotoGood DEF Running
<1>3. r.pc = pc /\ r.todo = worker[w].todo /\ r.known = worker[w].known
      /\ r.fresh = worker[w].fresh
  BY <1>1 DEF WorkerRecords
<1>4. worker' = [worker EXCEPT ![w] = r]
  BY DEF Goto
<1> HIDE DEF r
<1> QED
  BY <1>2, <1>3, <1>4, BecomesFacts DEF GoesTo

\* Between Get and Update only does a worker rely on what it has read.
LEMMA NotFresh ==
  ASSUME IInv, NEW w \in Workers, worker[w].pc \notin {"update", "failed"}
  PROVE  ~worker[w].fresh
  BY DEF IInv, WorkersGood, Good

LEMMA StartFacts ==
  ASSUME IInv, NEW w \in Workers, Start(w)
  PROVE  /\ worker[w].pc = "waiting" /\ live' = live
         /\ Becomes(w, Proceed(DocumentsToApply), DocumentsToApply, worker[w].known)
<1> DEFINE t == DocumentsToApply
           r == [worker[w] EXCEPT !.todo = t, !.pc = Proceed(t)]
<1>1. Good(worker[w]) /\ worker[w] \in WorkerRecords /\ worker[w].pc = "waiting"
  BY DEF IInv, WorkersGood, Start
<1>2. t \in Seq(Documents) /\ 1 \in Positions /\ t = Rest(1)
  <2>1. t \in Seq(Documents)
    BY DocumentsToApplyFacts
  <2> HIDE DEF t
  <2>2. SubSeq(t, 1, Len(t)) = t /\ Len(t) \in Nat
    BY <2>1
  <2> QED
    BY <2>1, <2>2 DEF Rest, Positions, t
<1>3. /\ Proceed(t) \in {"done", "mapping", "namespace"}
      /\ Proceed(t) = "done" <=> t = <<>>
  BY ProceedFacts
<1>4. worker' = [worker EXCEPT ![w] = r]
  BY DEF Start
<1> HIDE DEF t
<1>5. /\ r \in WorkerRecords /\ r.pc = Proceed(t) /\ r.todo = t
      /\ r.known = worker[w].known /\ ~r.fresh
  BY <1>1, <1>2, <1>3, NotFresh DEF WorkerRecords, WorkerStates
<1> HIDE DEF r
<1>6. Good(r)
  BY <1>1, <1>2, <1>3, <1>5 DEF Good
<1>7. Becomes(w, Proceed(t), t, worker[w].known)
  <2>1. Becomes(w, r.pc, r.todo, r.known)
    BY <1>4, <1>6, BecomesFacts
  <2> QED
    BY <1>5, <2>1
<1> QED
  BY <1>1, <1>7 DEF Start, t

LEMMA GetNamespaceFacts ==
  ASSUME IInv, NEW w \in Workers, GetNamespace(w)
  PROVE  /\ worker[w].pc = "namespace" /\ Running(w) /\ live' = live
         /\ GoesTo(w, IF Present(NamespaceKey(Key(w).namespace)) THEN "mapping"
                                                                ELSE "makeNamespace")
  BY GotoFacts, NotFresh DEF GetNamespace, Running, WorkerStates

LEMMA CreateNamespaceFacts ==
  ASSUME IInv, NEW w \in Workers, CreateNamespace(w)
  PROVE  /\ worker[w].pc = "makeNamespace" /\ Running(w)
         /\ LET k == NamespaceKey(Key(w).namespace) IN
              IF Present(k) THEN GoesTo(w, "failed") /\ live' = live
              ELSE live' = [live EXCEPT ![k] = Foreign] /\ GoesTo(w, "mapping")
<1> DEFINE k == NamespaceKey(Key(w).namespace)
           r == [Outdated({k})[w] EXCEPT !.pc = "mapping"]
<1>1. worker[w].pc = "makeNamespace" /\ Running(w)
  BY DEF CreateNamespace, Running
<1>2. CASE Present(k)
  BY <1>1, <1>2, GotoFacts DEF CreateNamespace, WorkerStates
<1>3. CASE ~Present(k)
  <2>1. /\ live' = [live EXCEPT ![k] = Foreign]
        /\ worker' = [Outdated({k}) EXCEPT ![w] = r]
    BY <1>3 DEF CreateNamespace
  <2>2. /\ Outdated({k}) \in [Workers -> WorkerRecords]
        /\ \A v \in Workers :
             /\ Good(Outdated({k})[v])
             /\ Outdated({k})[v].pc = worker[v].pc
             /\ Outdated({k})[v].todo = worker[v].todo
             /\ Outdated({k})[v].known = worker[v].known
             /\ Outdated({k})[v].fresh => worker[v].fresh
    BY OutdatedGood
  <2> HIDE DEF k
  <2>3. ~Outdated({k})[w].fresh
    BY <1>1, <2>2, NotFresh
  <2>4. Good(r)
    BY <1>1, <2>2, <2>3, GotoGood DEF WorkerStates
  <2>5. r.pc = "mapping" /\ r.todo = worker[w].todo /\ r.known = worker[w].known
    BY <2>2 DEF WorkerRecords
  <2> HIDE DEF r
  <2>6. r \in WorkerRecords
    BY <2>4 DEF Good
  <2>7. GoesTo(w, "mapping")
    BY <2>1, <2>2, <2>4, <2>5, <2>6 DEF GoesTo, Becomes, Others
  <2> QED
    BY <1>1, <1>3, <2>1, <2>7 DEF k
<1> QED
  BY <1>2, <1>3

LEMMA PassesOnFacts ==
  ASSUME IInv, NEW w \in Workers, Running(w), worker' = [worker EXCEPT ![w] = NextDocument(@)]
  PROVE  PassesOn(w, worker[w].known)
<1>1. Good(worker[w])
  BY DEF IInv, WorkersGood
<1>2. worker' = [worker EXCEPT ![w] = NextDocument(worker[w])]
  OBVIOUS
<1>3. /\ Good(NextDocument(worker[w]))
      /\ NextDocument(worker[w]).todo = Tail(worker[w].todo)
      /\ NextDocument(worker[w]).known = worker[w].known
      /\ NextDocument(worker[w]).pc = Proceed(Tail(worker[w].todo))
  BY <1>1, NextDocumentGood DEF Running
<1> DEFINE s == NextDocument(worker[w])
<1> HIDE DEF s
<1>4. Becomes(w, s.pc, s.todo, s.known)
  BY <1>2, <1>3, BecomesFacts DEF s
<1> QED
  BY <1>3, <1>4 DEF PassesOn, s

LEMMA MapKindFacts ==
  ASSUME IInv, NEW w \in Workers, MapKind(w)
  PROVE  /\ worker[w].pc = "mapping" /\ Running(w) /\ live' = live
         /\ \E known : /\ known = Served \/ known = worker[w].known
                       /\ BuiltinKinds \subseteq known
                       /\ IF Doc(w).kind \in known
                            THEN Becomes(w, "create", worker[w].todo, known)
                            ELSE PassesOn(w, known)
<1> DEFINE known == IF worker[w].known = Undiscovered THEN Served ELSE worker[w].known
           r == [worker[w] EXCEPT !.known = known]
<1>1. worker[w].pc = "mapping" /\ Running(w) /\ live' = live
  BY DEF MapKind, Running
<1>2. Good(worker[w]) /\ worker[w] \in WorkerRecords
  BY DEF IInv, WorkersGood
<1>3. Served \in SUBSET AllKinds /\ BuiltinKinds \subseteq Served
  BY DEF Served, ServedWith, AllKinds
<1>4. known \in SUBSET AllKinds /\ BuiltinKinds \subseteq known
  BY <1>2, <1>3 DEF WorkerRecords, Good
<1>5. known = Served \/ known = worker[w].known
  OBVIOUS
<1>6. CASE Doc(w).kind \in known
  <2> DEFINE s == [worker[w] EXCEPT !.known = known, !.pc = "create"]
  <2>1. worker' = [worker EXCEPT ![w] = s]
    BY <1>6 DEF MapKind
  <2> HIDE DEF known
  <2>2. /\ s \in WorkerRecords /\ s.pc = "create" /\ s.todo = worker[w].todo
        /\ s.known = known /\ s.fresh = worker[w].fresh
    BY <1>2, <1>4 DEF WorkerRecords, WorkerStates
  <2> HIDE DEF s
  <2>3. Good(s)
    BY <1>1, <1>2, <1>4, <2>2, NotFresh DEF Good
  <2>4. Becomes(w, "create", worker[w].todo, known)
    BY <2>1, <2>2, <2>3, BecomesFacts
  <2> QED
    BY <1>1, <1>4, <1>5, <1>6, <2>4
<1>7. CASE Doc(w).kind \notin known
  <2>1. worker' = [worker EXCEPT ![w] = NextDocument(r)]
    BY <1>7 DEF MapKind
  <2> HIDE DEF known
  <2>2. /\ r \in WorkerRecords /\ r.pc = "mapping" /\ r.todo = worker[w].todo
        /\ r.known = known /\ r.fresh = worker[w].fresh
    BY <1>1, <1>2, <1>4 DEF WorkerRecords
  <2> HIDE DEF r
  <2>3. Good(r)
    BY <1>1, <1>2, <1>4, <2>2, NotFresh DEF Good
  <2>4. /\ Good(NextDocument(r)) /\ NextDocument(r).todo = Tail(worker[w].todo)
        /\ NextDocument(r).known = known
        /\ NextDocument(r).pc = Proceed(Tail(worker[w].todo))
    BY <2>2, <2>3, NextDocumentGood
  <2>5. PassesOn(w, known)
    <3> DEFINE s == NextDocument(r)
    <3> HIDE DEF s
    <3>1. Becomes(w, s.pc, s.todo, s.known)
      BY <2>1, <2>4, BecomesFacts DEF s
    <3> QED
      BY <2>4, <3>1 DEF PassesOn, s
  <2> QED
    BY <1>1, <1>4, <1>5, <1>7, <2>5
<1> QED
  BY <1>6, <1>7

LEMMA WriteFacts ==
  ASSUME IInv, NEW w \in Workers, Running(w), WriteDocument(w)
  PROVE  live' = [live EXCEPT ![Key(w)] = Doc(w)] /\ PassesOn(w, worker[w].known)
<1> DEFINE o == Outdated({Key(w)})
<1>1. worker' = [o EXCEPT ![w] = NextDocument(o[w])]
  BY OutdatedGood DEF WriteDocument
<1>2. /\ o \in [Workers -> WorkerRecords]
      /\ \A v \in Workers :
           /\ Good(o[v]) /\ o[v].pc = worker[v].pc /\ o[v].todo = worker[v].todo
           /\ o[v].known = worker[v].known /\ (o[v].fresh => worker[v].fresh)
  BY OutdatedGood
<1> HIDE DEF o
<1>3. /\ Good(NextDocument(o[w])) /\ NextDocument(o[w]).todo = Tail(o[w].todo)
      /\ NextDocument(o[w]).known = o[w].known
      /\ NextDocument(o[w]).pc = Proceed(Tail(o[w].todo))
  BY <1>2, NextDocumentGood DEF Running
<1>4. NextDocument(o[w]) \in WorkerRecords
  BY <1>3 DEF Good
<1>5. PassesOn(w, worker[w].known)
  BY <1>1, <1>2, <1>3, <1>4 DEF PassesOn, Becomes, Others
<1> QED
  BY <1>5 DEF WriteDocument

LEMMA CreateFacts ==
  ASSUME IInv, NEW w \in Workers, Create(w)
  PROVE  /\ worker[w].pc = "create" /\ Running(w)
         /\ \/ live' = [live EXCEPT ![Key(w)] = Doc(w)] /\ PassesOn(w, worker[w].known)
            \/ Accepted(Key(w)) /\ Present(Key(w)) /\ live' = live /\ GoesTo(w, "get")
            \/ ~Accepted(Key(w)) /\ live' = live /\ GoesTo(w, "failed")
<1>1. worker[w].pc = "create" /\ Running(w) /\ ~worker[w].fresh
  BY NotFresh DEF Create, Running
<1>2. CASE Accepted(Key(w)) /\ ~Present(Key(w))
  BY <1>1, <1>2, WriteFacts DEF Create
<1>3. CASE Accepted(Key(w)) /\ Present(Key(w))
  <2>1. Goto(w, "get") /\ live' = live
    BY <1>3 DEF Create
  <2> QED
    BY <1>1, <1>3, <2>1, GotoFacts DEF WorkerStates
<1>4. CASE ~Accepted(Key(w))
  <2>1. Goto(w, "failed") /\ live' = live
    BY <1>4 DEF Create
  <2> QED
    BY <1>1, <1>4, <2>1, GotoFacts DEF WorkerStates
<1> QED
  BY <1>2, <1>3, <1>4

LEMMA GetFacts ==
  ASSUME IInv, NEW w \in Workers, Get(w)
  PROVE  /\ worker[w].pc = "get" /\ Running(w) /\ live' = live
         /\ IF Present(Key(w)) THEN GoesTo(w, "update") /\ worker'[w].fresh
                               ELSE GoesTo(w, "failed")
<1> DEFINE p == IF Present(Key(w)) THEN "update" ELSE "failed"
           b == Present(Key(w))
           r == [worker[w] EXCEPT !.pc = p, !.fresh = b]
<1>1. worker[w].pc = "get" /\ Running(w) /\ live' = live
  BY DEF Get, Running
<1>2. Good(worker[w]) /\ worker[w] \in WorkerRecords
  BY DEF IInv, WorkersGood
<1>3. worker' = [worker EXCEPT ![w] = r]
  BY DEF Get
<1>4. p \in {"update", "failed"} /\ b \in BOOLEAN
  BY DEF Present
<1> HIDE DEF p, b
<1>5. /\ r \in WorkerRecords /\ r.pc = p /\ r.todo = worker[w].todo
      /\ r.known = worker[w].known /\ r.fresh = b
  BY <1>2, <1>4 DEF WorkerRecords, WorkerStates
<1> HIDE DEF r
<1>6. worker[w].todo # <<>>
  BY <1>1, RunningFacts
<1>7. p = "failed" => ~b
  BY DEF p, b
<1>8. Good(r)
  BY <1>1, <1>2, <1>4, <1>5, <1>6, <1>7 DEF Good
<1>9. GoesTo(w, p) /\ worker'[w] = r
  BY <1>3, <1>5, <1>8, BecomesFacts DEF GoesTo
<1> QED
  BY <1>1, <1>5, <1>9 DEF p, b

LEMMA UpdateFacts ==
  ASSUME IInv, NEW w \in Workers, Update(w)
  PROVE  /\ worker[w].pc = "update" /\ Running(w)
         /\ \/ live' = [live EXCEPT ![Key(w)] = Doc(w)] /\ PassesOn(w, worker[w].known)
            \/ ~worker[w].fresh /\ live' = live /\ GoesTo(w, "failed")
<1>1. worker[w].pc = "update" /\ Running(w)
  BY DEF Update, Running
<1>2. CASE worker[w].fresh
  BY <1>1, <1>2, WriteFacts DEF Update
<1>3. CASE ~worker[w].fresh
  BY <1>1, <1>3, GotoFacts DEF Update, WorkerStates
<1> QED
  BY <1>2, <1>3

LEMMA FailFacts ==
  ASSUME IInv, NEW w \in Workers, Fail(w)
  PROVE  ~calm /\ live' = live /\ GoesTo(w, "failed")
  BY GotoFacts DEF Fail, WorkerStates

LEMMA DiscoveryFailsFacts ==
  ASSUME IInv, NEW w \in Workers, DiscoveryFails(w)
  PROVE  ~calm /\ live' = live /\ PassesOn(w, worker[w].known)
  BY PassesOnFacts DEF DiscoveryFails, Running

-----------------------------------------------------------------------------
(* The invariant is inductive.                                             *)

LEMMA BecomesKeepsWorkers ==
  ASSUME NEW w \in Workers, NEW pc, NEW todo, NEW known, Becomes(w, pc, todo, known)
  PROVE  WorkersGood' /\ worker' \in [Workers -> WorkerRecords]
  BY DEF Becomes, Others, WorkersGood

\* A write of a document to its key, or of anything else, keeps objects apart.
LEMMA PutKeepsTargets ==
  ASSUME IInv, NEW k \in Keys, NEW x \in Documents \cup {Foreign},
         x \in Documents => TargetKey(x) = k,
         live' = [live EXCEPT ![k] = x]
  PROVE  live' \in Objects /\ TargetsKept'
<1>1. live' \in Objects
  BY DEF IInv, Objects
<1>2. live'[k] = x /\ \A y \in Keys \ {k} : live'[y] = live[y]
  BY DEF IInv, Objects
<1> QED
  BY <1>1, <1>2 DEF IInv, TargetsKept

LEMMA ForeignIsNoDocument == Foreign \notin Documents /\ Nobody \notin Documents
  BY ApplyAssumption

LEMMA WorkerKeepsIInv ==
  ASSUME IInv, NEW w \in Workers, WorkerStep(w), UNCHANGED calm
  PROVE  IInv'
<1>1. live' = live => live' \in Objects /\ TargetsKept'
  BY DEF IInv, TargetsKept
<1>2. ASSUME live' = [live EXCEPT ![Key(w)] = Doc(w)], Running(w)
      PROVE  live' \in Objects /\ TargetsKept'
  BY <1>2, RunningFacts, PutKeepsTargets DEF Key
<1>3. ASSUME WorkersGood' /\ worker' \in [Workers -> WorkerRecords],
             live' \in Objects /\ TargetsKept'
      PROVE  IInv'
  BY <1>3 DEF IInv
<1>4. ASSUME NEW pc, GoesTo(w, pc)
      PROVE  WorkersGood' /\ worker' \in [Workers -> WorkerRecords]
  BY <1>4, BecomesKeepsWorkers DEF GoesTo
<1>5. ASSUME NEW known, PassesOn(w, known)
      PROVE  WorkersGood' /\ worker' \in [Workers -> WorkerRecords]
  BY <1>5, BecomesKeepsWorkers DEF PassesOn
<1>6. CASE Start(w)
  BY <1>1, <1>3, <1>6, StartFacts, BecomesKeepsWorkers
<1>7. CASE GetNamespace(w)
  BY <1>1, <1>3, <1>4, <1>7, GetNamespaceFacts
<1>8. CASE CreateNamespace(w)
  <2> DEFINE k == NamespaceKey(Key(w).namespace)
  <2>1. worker[w].pc = "makeNamespace" /\ Running(w)
    BY <1>8, CreateNamespaceFacts
  <2>2. CASE Present(k)
    BY <1>1, <1>3, <1>4, <1>8, <2>2, CreateNamespaceFacts
  <2>3. CASE ~Present(k)
    <3>1. live' = [live EXCEPT ![k] = Foreign] /\ GoesTo(w, "mapping")
      BY <1>8, <2>3, CreateNamespaceFacts
    <3>2. CASE k \in Keys
      BY <1>3, <1>4, <3>1, <3>2, PutKeepsTargets, ForeignIsNoDocument
    <3>3. CASE k \notin Keys
      <4>1. live' = live
        BY <3>1, <3>3 DEF IInv, Objects
      <4> QED
        BY <1>1, <1>3, <1>4, <3>1, <4>1
    <3> QED
      BY <3>2, <3>3
  <2> QED
    BY <2>2, <2>3
<1>9. CASE MapKind(w)
  <2>1. live' = live
    BY <1>9, MapKindFacts
  <2>2. PICK known : IF Doc(w).kind \in known
                       THEN Becomes(w, "create", worker[w].todo, known)
                       ELSE PassesOn(w, known)
    BY <1>9, MapKindFacts
  <2> QED
    BY <1>1, <1>3, <1>5, <2>1, <2>2, BecomesKeepsWorkers
<1>10. CASE DiscoveryFails(w)
  BY <1>1, <1>3, <1>5, <1>10, DiscoveryFailsFacts
<1>11. CASE Create(w)
  BY <1>1, <1>2, <1>3, <1>4, <1>5, <1>11, CreateFacts
<1>12. CASE Get(w)
  BY <1>1, <1>3, <1>4, <1>12, GetFacts
<1>13. CASE Update(w)
  BY <1>1, <1>2, <1>3, <1>4, <1>5, <1>13, UpdateFacts
<1>14. CASE Fail(w)
  BY <1>1, <1>3, <1>4, <1>14, FailFacts
<1> QED
  BY <1>6, <1>7, <1>8, <1>9, <1>10, <1>11, <1>12, <1>13, <1>14 DEF WorkerStep

LEMMA OthersKeepIInv ==
  ASSUME IInv, NEW k \in Keys, OtherWrites(k) \/ OtherDeletes(k), UNCHANGED calm
  PROVE  IInv'
<1>1. ASSUME NEW keys, worker' = Outdated(keys)
      PROVE  WorkersGood' /\ worker' \in [Workers -> WorkerRecords]
  BY <1>1, OutdatedGood DEF WorkersGood
<1>2. CASE OtherWrites(k)
  <2>1. live' \in Objects /\ TargetsKept'
    BY <1>2, PutKeepsTargets, ForeignIsNoDocument DEF OtherWrites
  <2> QED
    BY <1>1, <1>2, <2>1 DEF OtherWrites, IInv
<1>3. CASE OtherDeletes(k)
  <2>1. live' = [x \in Keys |-> IF x \in Dependents(k) THEN Nobody ELSE live[x]]
    BY <1>3 DEF OtherDeletes
  <2>2. live' \in Objects /\ TargetsKept'
    BY <2>1, ForeignIsNoDocument DEF IInv, Objects, TargetsKept
  <2> QED
    BY <1>1, <1>3, <2>2 DEF OtherDeletes, IInv
<1> QED
  BY <1>2, <1>3

LEMMA NextKeepsIInv == IInv /\ [Next]_vars => IInv'
<1> SUFFICES ASSUME IInv, [Next]_vars PROVE IInv'
  OBVIOUS
<1>1. CASE \E w \in Workers : WorkerStep(w) /\ UNCHANGED calm
  BY <1>1, WorkerKeepsIInv
<1>2. CASE \E k \in Keys : (OtherWrites(k) \/ OtherDeletes(k)) /\ UNCHANGED calm
  BY <1>2, OthersKeepIInv
<1>3. CASE UNCHANGED vars
  BY <1>3 DEF vars, IInv, WorkersGood, TargetsKept
<1> QED
  BY <1>1, <1>2, <1>3 DEF Next

LEMMA InductiveInvariant == Spec => []IInv
  BY InitIInv, NextKeepsIInv, PTL DEF Spec

\* Workers are in one of their states, have a suffix of the sorted documents
\* left exactly while they run, know the built-in kinds once they have discovered
\* any, and rely on what they read only between Get and Update.
THEOREM TypeCorrect == Spec => []TypeOK
  BY InductiveInvariant, IInvGivesTypeOK, PTL

LEMMA IInvGivesScope == IInv => StaysInScope
<1> SUFFICES ASSUME IInv, NEW k \in Keys, live[k] \in Documents
             PROVE  /\ k.kind = live[k].kind /\ k.name = live[k].name
                    /\ k.namespace = NoNamespace <=> live[k].namespace = NoNamespace
                    /\ \/ k.namespace \in {NoNamespace, DefaultNamespace}
                       \/ /\ live[k].namespace \in DOMAIN Mapping
                          /\ k.namespace = Mapping[live[k].namespace]
                       \/ DefaultNamespace = NoNamespace /\ k.namespace = live[k].namespace
  BY DEF StaysInScope
<1>1. k = TargetKey(live[k])
  BY DEF IInv, TargetsKept
<1>2. /\ k.kind = live[k].kind /\ k.name = live[k].name
      /\ k.namespace = IF live[k].namespace = NoNamespace THEN NoNamespace
                       ELSE TargetNamespace(live[k].namespace)
  BY <1>1, DocumentFacts
<1> QED
  BY <1>2, TargetNamespaceFacts

\* Only the mapping and the namespace of the Restore decide where the documents
\* of an archive go: a worker writes each under its own kind and name, into the
\* namespace it is mapped to, whatever other workers and other writers do.
THEOREM DocumentsStayInScope == Spec => []StaysInScope
  BY InductiveInvariant, IInvGivesScope, PTL

-----------------------------------------------------------------------------
(* While calls work and nobody else writes: what a worker has left behind  *)
(* is in its target, in order, and the kinds it knows are served.          *)

Progressing ==
  \A w \in Workers : worker[w].pc \notin {"waiting", "failed"} =>
    \A d \in Applicable : d \in ToSet(worker[w].todo) \/ Reached(d)

InOrder ==
  \A d, e \in Applicable :
    ResourcePriority(e.kind) < ResourcePriority(d.kind) /\ Reached(d) => Reached(e)

KnownServed == \A w \in Workers : worker[w].known \subseteq Served

\* What no worker has left any more is there, if it is the last in its target.
Settled ==
  \A d \in Applicable \cap LastThere :
    /\ \E w \in Workers : worker[w].pc # "waiting"
    /\ \A v \in Workers : d \notin ToSet(worker[v].todo)
    => live[TargetKey(d)] = d

CalmInv == calm => Progressing /\ InOrder /\ KnownServed /\ Settled

\* What a worker does to the cluster: it writes its document, or makes the
\* namespace that is not there.
LEMMA LiveCases ==
  ASSUME IInv, NEW w \in Workers, WorkerStep(w)
  PROVE  \/ live' = live
         \/ /\ worker[w].pc \in {"create", "update"} /\ Running(w)
            /\ live' = [live EXCEPT ![Key(w)] = Doc(w)]
            /\ PassesOn(w, worker[w].known)
         \/ /\ worker[w].pc = "makeNamespace" /\ Running(w)
            /\ ~Present(NamespaceKey(Key(w).namespace))
            /\ live' = [live EXCEPT ![NamespaceKey(Key(w).namespace)] = Foreign]
            /\ GoesTo(w, "mapping")
<1>1. CASE CreateNamespace(w)
  BY <1>1, CreateNamespaceFacts
<1>2. CASE Create(w)
  BY <1>2, CreateFacts
<1>3. CASE Update(w)
  BY <1>3, UpdateFacts
<1> QED
  BY <1>1, <1>2, <1>3, StartFacts, GetNamespaceFacts, MapKindFacts, DiscoveryFailsFacts,
     GetFacts, FailFacts DEF WorkerStep

\* No object is lost, and no document is written over by something else.
Grows ==
  /\ \A k \in Keys : /\ live[k] # Nobody => live'[k] # Nobody
                     /\ live[k] \in Documents => live'[k] \in Documents
  /\ Served \subseteq Served'

LEMMA WorkerGrows ==
  ASSUME IInv, NEW w \in Workers, WorkerStep(w)
  PROVE  Grows
<1>1. \A k \in Keys : /\ live[k] # Nobody => live'[k] # Nobody
                      /\ live[k] \in Documents => live'[k] \in Documents
  <2>1. CASE live' = live
    BY <2>1
  <2>2. CASE Running(w) /\ live' = [live EXCEPT ![Key(w)] = Doc(w)]
    <3>1. Doc(w) \in Documents /\ Doc(w) # Nobody
      BY <2>2, RunningFacts, ForeignIsNoDocument
    <3> QED
      BY <2>2, <3>1 DEF IInv, Objects
  <2>3. CASE /\ ~Present(NamespaceKey(Key(w).namespace))
             /\ live' = [live EXCEPT ![NamespaceKey(Key(w).namespace)] = Foreign]
    <3>1. Foreign # Nobody
      BY DEF Foreign, Nobody
    <3> QED
      BY <2>3, <3>1, ForeignIsNoDocument DEF IInv, Objects, Present
  <2> QED
    BY <2>1, <2>2, <2>3, LiveCases
<1>2. Served \subseteq Served'
  BY <1>1 DEF Served, ServedWith
<1> QED
  BY <1>1, <1>2 DEF Grows

LEMMA ReachedKept ==
  ASSUME Grows, NEW d \in Documents, Reached(d)
  PROVE  Reached(d)'
  BY DocumentFacts DEF Grows, Reached

LEMMA HeadAndTail ==
  ASSUME NEW D, NEW s \in Seq(D), s # <<>>
  PROVE  ToSet(s) = {Head(s)} \cup ToSet(Tail(s))
<1>1. /\ Len(s) \in Nat /\ Len(s) # 0 /\ Tail(s) \in Seq(D) /\ Len(Tail(s)) = Len(s) - 1
      /\ Head(s) = s[1] /\ \A k \in 1..(Len(s) - 1) : Tail(s)[k] = s[k + 1]
  OBVIOUS
<1>2. ToSet(s) \subseteq {Head(s)} \cup ToSet(Tail(s))
  <2> SUFFICES ASSUME NEW x \in ToSet(s), x # Head(s) PROVE x \in ToSet(Tail(s))
    OBVIOUS
  <2>1. PICK k \in 1..Len(s) : s[k] = x
    BY ToSetFacts
  <2>2. k - 1 \in 1..Len(Tail(s)) /\ Tail(s)[k - 1] = x
    BY <1>1, <2>1
  <2> QED
    BY <1>1, <2>2, ToSetFacts
<1>3. \A x \in ToSet(Tail(s)) : x \in ToSet(s)
  <2> SUFFICES ASSUME NEW x \in ToSet(Tail(s)) PROVE x \in ToSet(s)
    OBVIOUS
  <2>1. PICK k \in 1..Len(Tail(s)) : Tail(s)[k] = x
    BY <1>1, ToSetFacts
  <2>2. k + 1 \in 1..Len(s) /\ s[k + 1] = x
    BY <1>1, <2>1
  <2> QED
    BY <2>2, ToSetFacts
<1>4. Head(s) \in ToSet(s)
  BY <1>1, ToSetFacts
<1> QED
  BY <1>2, <1>3, <1>4

\* The next document is of the earliest kind that is left.
LEMMA HeadIsFirst ==
  ASSUME IInv, NEW w \in Workers, Running(w), NEW e \in ToSet(worker[w].todo)
  PROVE  ResourcePriority(Doc(w).kind) <= ResourcePriority(e.kind)
<1>1. PICK i \in Positions : worker[w].todo = Rest(i)
  BY DEF IInv, WorkersGood, Good
<1>2. i \in 1..Len(DocumentsToApply) /\ Doc(w) = DocumentsToApply[i]
  BY <1>1, RunningFacts, RestFacts DEF Doc
<1>3. PICK k \in i..Len(DocumentsToApply) : e = DocumentsToApply[k]
  BY <1>1, RestFacts
<1>4. Len(DocumentsToApply) \in Nat
  BY DocumentsToApplyFacts
<1>5. k \in 1..Len(DocumentsToApply) /\ i <= k
  BY <1>2, <1>4
<1> QED
  BY <1>2, <1>3, <1>5, DocumentsToApplyFacts

LEMMA InitCalmInv == Init => CalmInv
<1> SUFFICES ASSUME Init PROVE CalmInv
  OBVIOUS
<1>1. Progressing
  BY DEF Init, Progressing, NewWorker
<1>2. InOrder
  <2> SUFFICES ASSUME NEW d \in Documents PROVE ~Reached(d)
    BY DEF InOrder, Applicable
  <2> QED
    BY DocumentFacts, ForeignIsNoDocument DEF Init, Reached
<1>3. KnownServed
  BY DEF Init, KnownServed, NewWorker, Undiscovered
<1>4. Settled
  BY DEF Init, Settled, NewWorker
<1> QED
  BY <1>1, <1>2, <1>3, <1>4 DEF CalmInv

LEMMA ProgressingKept ==
  ASSUME IInv, Progressing, calm, NEW w \in Workers, WorkerStep(w)
  PROVE  Progressing'
<1>1. \A d \in Applicable : Reached(d) => Reached(d)'
  BY WorkerGrows, ReachedKept DEF Applicable
<1>2. ASSUME NEW v \in Workers \ {w}, Others(w), worker'[v].pc \notin {"waiting", "failed"},
             NEW d \in Applicable
      PROVE  d \in ToSet(worker'[v].todo) \/ Reached(d)'
  BY <1>1, <1>2 DEF Others, Progressing
<1>3. ASSUME Others(w),
             worker'[w].pc \notin {"waiting", "failed"} =>
               \A d \in Applicable : d \in ToSet(worker'[w].todo) \/ Reached(d)'
      PROVE  Progressing'
  BY <1>2, <1>3 DEF Progressing, Applicable
<1>4. ASSUME NEW pc, GoesTo(w, pc), Running(w)
      PROVE  Progressing'
  BY <1>1, <1>3, <1>4 DEF GoesTo, Becomes, Progressing, Running
<1>5. ASSUME NEW known, PassesOn(w, known), Running(w),
             \A d \in Applicable : d = Doc(w) => Reached(d)'
      PROVE  Progressing'
  <2>1. ToSet(worker[w].todo) = {Doc(w)} \cup ToSet(Tail(worker[w].todo))
    BY <1>5, RunningFacts, HeadAndTail DEF Doc
  <2>2. \A d \in Applicable : d \in ToSet(worker[w].todo) \/ Reached(d)
    BY <1>5 DEF Progressing, Running
  <2>3. worker'[w].todo = Tail(worker[w].todo) /\ Others(w)
    BY <1>5 DEF PassesOn, Becomes
  <2>4. \A d \in Applicable : d \in ToSet(worker'[w].todo) \/ Reached(d)'
    BY <1>1, <1>5, <2>1, <2>2, <2>3
  <2> QED
    BY <1>3, <2>3, <2>4
<1>6. CASE live' = [live EXCEPT ![Key(w)] = Doc(w)] /\ Running(w)
           /\ PassesOn(w, worker[w].known)
  <2>1. live'[Key(w)] = Doc(w) /\ Doc(w) \in Documents
    BY <1>6, RunningFacts DEF IInv, Objects
  <2>2. \A d \in Applicable : d = Doc(w) => Reached(d)'
    BY <2>1 DEF Reached, Key
  <2> QED
    BY <1>5, <1>6, <2>2
<1>7. CASE Start(w)
  <2>1. Applicable \subseteq ToSet(DocumentsToApply)
    BY DocumentsToApplyFacts DEF Applicable
  <2> QED
    BY <1>3, <1>7, <2>1, StartFacts DEF Becomes
<1>8. CASE GetNamespace(w)
  BY <1>4, <1>8, GetNamespaceFacts
<1>9. CASE CreateNamespace(w)
  BY <1>4, <1>9, CreateNamespaceFacts
<1>10. CASE MapKind(w)
  <2>1. Running(w)
    BY <1>10, MapKindFacts
  <2>2. PICK known : /\ BuiltinKinds \subseteq known
                     /\ IF Doc(w).kind \in known
                          THEN Becomes(w, "create", worker[w].todo, known)
                          ELSE PassesOn(w, known)
    BY <1>10, MapKindFacts
  <2>3. CASE Doc(w).kind \in known
    BY <1>1, <1>3, <2>1, <2>2, <2>3 DEF Becomes, Progressing, Running
  <2>4. CASE Doc(w).kind \notin known
    BY <1>5, <2>1, <2>2, <2>4 DEF Applicable
  <2> QED
    BY <2>3, <2>4
<1>11. CASE DiscoveryFails(w) \/ Fail(w)
  BY <1>11 DEF DiscoveryFails, Fail
<1>12. CASE Create(w)
  BY <1>4, <1>6, <1>12, CreateFacts
<1>13. CASE Get(w)
  BY <1>4, <1>13, GetFacts
<1>14. CASE Update(w)
  BY <1>4, <1>6, <1>14, UpdateFacts
<1> QED
  BY <1>7, <1>8, <1>9, <1>10, <1>11, <1>12, <1>13, <1>14 DEF WorkerStep

LEMMA InOrderKept ==
  ASSUME IInv, Progressing, InOrder, NEW w \in Workers, WorkerStep(w)
  PROVE  InOrder'
<1>1. \A d \in Applicable : Reached(d) => Reached(d)'
  BY WorkerGrows, ReachedKept DEF Applicable
<1>2. SUFFICES ASSUME NEW d \in Applicable, NEW e \in Applicable,
                      ResourcePriority(e.kind) < ResourcePriority(d.kind), Reached(d)'
               PROVE  Reached(e)'
  BY DEF InOrder, Applicable
<1>3. CASE Reached(d)
  BY <1>1, <1>2, <1>3 DEF InOrder
<1>4. CASE ~Reached(d)
  <2>1. d \in Documents /\ TargetKey(d) \in Keys /\ TargetKey(d).kind = d.kind
    BY DocumentFacts DEF Applicable
  <2>2. live'[TargetKey(d)] \in Documents /\ live[TargetKey(d)] \notin Documents
    BY <1>2, <1>4 DEF Reached
  <2>3. /\ worker[w].pc \in {"create", "update"} /\ Running(w)
        /\ live' = [live EXCEPT ![Key(w)] = Doc(w)]
    BY <2>1, <2>2, LiveCases, ForeignIsNoDocument DEF IInv, Objects
  <2>4. TargetKey(d) = Key(w)
    BY <2>1, <2>2, <2>3 DEF IInv, Objects
  <2>5. Key(w).kind = Doc(w).kind
    BY <2>3, RunningFacts, DocumentFacts DEF Key
  <2>6. ResourcePriority(e.kind) < ResourcePriority(Doc(w).kind)
    BY <1>2, <2>1, <2>4, <2>5
  <2>7. e \notin ToSet(worker[w].todo)
    <3>1. ResourcePriority(e.kind) \in Nat /\ ResourcePriority(Doc(w).kind) \in Nat
      <4>1. LastPriority \in Nat
        BY DEF LastPriority, KindOrder
      <4> QED
        BY <4>1, PriorityRange
    <3> QED
      BY <2>3, <2>6, <3>1, HeadIsFirst
  <2> QED
    BY <1>1, <2>3, <2>7 DEF Progressing
<1> QED
  BY <1>3, <1>4

LEMMA KnownServedKept ==
  ASSUME IInv, KnownServed, calm, NEW w \in Workers, WorkerStep(w)
  PROVE  KnownServed'
<1>1. Served \subseteq Served'
  BY WorkerGrows DEF Grows
<1>2. ASSUME Others(w), worker'[w].known \in {Served, worker[w].known}
      PROVE  KnownServed'
  BY <1>1, <1>2 DEF KnownServed, Others
<1>3. ASSUME NEW pc, GoesTo(w, pc)
      PROVE  KnownServed'
  BY <1>2, <1>3 DEF GoesTo, Becomes
<1>4. ASSUME PassesOn(w, worker[w].known)
      PROVE  KnownServed'
  BY <1>2, <1>4 DEF PassesOn, Becomes
<1>5. CASE Start(w)
  BY <1>2, <1>5, StartFacts DEF Becomes
<1>6. CASE GetNamespace(w)
  BY <1>3, <1>6, GetNamespaceFacts
<1>7. CASE CreateNamespace(w)
  BY <1>3, <1>7, CreateNamespaceFacts
<1>8. CASE MapKind(w)
  <2>1. PICK known : /\ known = Served \/ known = worker[w].known
                     /\ IF Doc(w).kind \in known
                          THEN Becomes(w, "create", worker[w].todo, known)
                          ELSE PassesOn(w, known)
    BY <1>8, MapKindFacts
  <2>2. Others(w) /\ worker'[w].known = known
    BY <2>1 DEF Becomes, PassesOn
  <2> QED
    BY <1>2, <2>1, <2>2
<1>9. CASE DiscoveryFails(w) \/ Fail(w)
  BY <1>9 DEF DiscoveryFails, Fail
<1>10. CASE Create(w)
  BY <1>3, <1>4, <1>10, CreateFacts
<1>11. CASE Get(w)
  BY <1>3, <1>11, GetFacts
<1>12. CASE Update(w)
  BY <1>3, <1>4, <1>12, UpdateFacts
<1> QED
  BY <1>5, <1>6, <1>7, <1>8, <1>9, <1>10, <1>11, <1>12 DEF WorkerStep

\* A worker that has something left for a target has the last for it left.
LEMMA LastIsLeft ==
  ASSUME IInv, NEW w \in Workers, NEW d \in LastThere, NEW e \in ToSet(worker[w].todo),
         TargetKey(e) = TargetKey(d)
  PROVE  d \in ToSet(worker[w].todo)
<1>1. PICK i \in Positions : worker[w].todo = Rest(i)
  BY DEF IInv, WorkersGood, Good
<1>2. Len(DocumentsToApply) \in Nat /\ DOMAIN DocumentsToApply = 1..Len(DocumentsToApply)
  BY DocumentsToApplyFacts
<1>3. PICK k \in i..Len(DocumentsToApply) : e = DocumentsToApply[k]
  BY <1>1, RestFacts
<1>4. PICK l \in 1..Len(DocumentsToApply) :
        /\ d = DocumentsToApply[l]
        /\ \A j \in 1..Len(DocumentsToApply) :
             j > l => TargetKey(DocumentsToApply[j]) # TargetKey(DocumentsToApply[l])
  BY <1>2 DEF LastThere
<1>5. l \in i..Len(DocumentsToApply)
  BY <1>2, <1>3, <1>4 DEF Positions
<1> QED
  BY <1>1, <1>4, <1>5, RestFacts

LEMMA SettledKept ==
  ASSUME IInv, Settled, calm, NEW w \in Workers, WorkerStep(w)
  PROVE  Settled'
<1>1. SUFFICES ASSUME NEW d \in Applicable \cap LastThere,
                      \A v \in Workers : d \notin ToSet(worker'[v].todo)
               PROVE  live'[TargetKey(d)] = d
  BY DEF Settled, Applicable, LastThere
<1>2. d \in Documents /\ TargetKey(d) \in Keys
  BY DocumentFacts DEF Applicable
<1>3. CASE Start(w)
  <2>1. d \in ToSet(DocumentsToApply)
    BY DocumentsToApplyFacts DEF Applicable
  <2> QED
    BY <1>1, <1>3, <2>1, StartFacts DEF Becomes
<1>4. ASSUME Running(w), Others(w), d \notin ToSet(worker[w].todo)
      PROVE  live'[TargetKey(d)] = d
  <2>1. live[TargetKey(d)] = d
    BY <1>1, <1>4 DEF Settled, Others, Running
  <2>2. CASE live' = [live EXCEPT ![Key(w)] = Doc(w)]
    <3>1. Doc(w) \in ToSet(worker[w].todo)
      BY <1>4, RunningFacts, HeadAndTail DEF Doc
    <3>2. Key(w) # TargetKey(d)
      BY <1>4, <3>1, LastIsLeft DEF Key
    <3> QED
      BY <1>2, <2>1, <2>2, <3>2 DEF IInv, Objects
  <2>3. CASE /\ ~Present(NamespaceKey(Key(w).namespace))
             /\ live' = [live EXCEPT ![NamespaceKey(Key(w).namespace)] = Foreign]
    BY <1>2, <2>1, <2>3, ForeignIsNoDocument DEF IInv, Objects, Present
  <2> QED
    BY <2>1, <2>2, <2>3, LiveCases
<1>5. ASSUME Running(w), Others(w), worker'[w].todo = worker[w].todo
      PROVE  live'[TargetKey(d)] = d
  BY <1>1, <1>4, <1>5
<1>6. ASSUME NEW pc, NEW known, Becomes(w, pc, worker[w].todo, known), Running(w)
      PROVE  live'[TargetKey(d)] = d
  BY <1>5, <1>6 DEF Becomes
<1>7. ASSUME NEW pc, GoesTo(w, pc), Running(w)
      PROVE  live'[TargetKey(d)] = d
  BY <1>6, <1>7 DEF GoesTo
<1>8. ASSUME NEW known, PassesOn(w, known), Running(w),
             d = Doc(w) => live'[TargetKey(d)] = d
      PROVE  live'[TargetKey(d)] = d
  <2>1. ToSet(worker[w].todo) = {Doc(w)} \cup ToSet(Tail(worker[w].todo))
    BY <1>8, RunningFacts, HeadAndTail DEF Doc
  <2>2. worker'[w].todo = Tail(worker[w].todo) /\ Others(w)
    BY <1>8 DEF PassesOn, Becomes
  <2> QED
    BY <1>1, <1>4, <1>8, <2>1, <2>2
<1>9. CASE live' = [live EXCEPT ![Key(w)] = Doc(w)] /\ Running(w)
           /\ PassesOn(w, worker[w].known)
  <2>1. live'[Key(w)] = Doc(w)
    BY <1>9, RunningFacts DEF IInv, Objects
  <2>2. d = Doc(w) => live'[TargetKey(d)] = d
    BY <2>1 DEF Key
  <2> QED
    BY <1>8, <1>9, <2>2
<1>10. CASE GetNamespace(w)
  BY <1>7, <1>10, GetNamespaceFacts
<1>11. CASE CreateNamespace(w)
  BY <1>7, <1>11, CreateNamespaceFacts
<1>12. CASE MapKind(w)
  <2>1. Running(w)
    BY <1>12, MapKindFacts
  <2>2. PICK known : /\ BuiltinKinds \subseteq known
                     /\ IF Doc(w).kind \in known
                          THEN Becomes(w, "create", worker[w].todo, known)
                          ELSE PassesOn(w, known)
    BY <1>12, MapKindFacts
  <2>3. CASE Doc(w).kind \in known
    BY <1>6, <2>1, <2>2, <2>3
  <2>4. CASE Doc(w).kind \notin known
    BY <1>8, <2>1, <2>2, <2>4 DEF Applicable
  <2> QED
    BY <2>3, <2>4
<1>13. CASE DiscoveryFails(w) \/ Fail(w)
  BY <1>13 DEF DiscoveryFails, Fail
<1>14. CASE Create(w)
  BY <1>7, <1>9, <1>14, CreateFacts
<1>15. CASE Get(w)
  BY <1>7, <1>15, GetFacts
<1>16. CASE Update(w)
  BY <1>7, <1>9, <1>16, UpdateFacts
<1> QED
  BY <1>3, <1>10, <1>11, <1>12, <1>13, <1>14, <1>15, <1>16 DEF WorkerStep

LEMMA NextKeepsCalmInv == IInv /\ CalmInv /\ [Next]_vars => CalmInv'
<1> SUFFICES ASSUME IInv, CalmInv, [Next]_vars, calm'
             PROVE  (Progressing /\ InOrder /\ KnownServed /\ Settled)'
  BY DEF CalmInv
<1>1. CASE \E w \in Workers : WorkerStep(w) /\ UNCHANGED calm
  BY <1>1, ProgressingKept, InOrderKept, KnownServedKept, SettledKept DEF CalmInv
<1>2. CASE \E k \in Keys : (OtherWrites(k) \/ OtherDeletes(k)) /\ UNCHANGED calm
  BY <1>2 DEF OtherWrites, OtherDeletes
<1>3. CASE UNCHANGED vars
  BY <1>3 DEF vars, CalmInv, Progressing, InOrder, KnownServed, Settled, Reached, Served
<1> QED
  BY <1>1, <1>2, <1>3 DEF Next

LEMMA CalmInvariant == Spec => []CalmInv
  BY InductiveInvariant, InitCalmInv, NextKeepsCalmInv, PTL DEF Spec

LEMMA CalmInvGivesDone == IInv /\ CalmInv => DoneMeansRestored
<1> SUFFICES ASSUME IInv, CalmInv, calm, NEW w \in Workers, worker[w].pc = "done"
             PROVE  /\ \A d \in Applicable : Reached(d)
                    /\ (\A v \in Workers : worker[v].pc \in {"waiting", "done"}) =>
                         \A d \in Applicable \cap LastThere : live[TargetKey(d)] = d
  BY DEF DoneMeansRestored
<1>1. \A v \in Workers : worker[v].pc \in {"waiting", "done"} => worker[v].todo = <<>>
  BY DEF IInv, WorkersGood, Good
<1>2. \A v \in Workers : worker[v].pc \in {"waiting", "done"} => ToSet(worker[v].todo) = {}
  BY <1>1 DEF ToSet
<1> QED
  BY <1>2 DEF CalmInv, Progressing, Settled

\* A worker that is done has brought every document of a built-in kind to its target,
\* over whatever was there, even when other restores of the archive run at the same
\* time, and when none is under way and none failed each target holds the last of the
\* documents that meet in it, provided that nobody else writes and no call fails.
THEOREM DoneIsRestored == Spec => []DoneMeansRestored
  BY InductiveInvariant, CalmInvariant, CalmInvGivesDone, PTL

\* Under the same provisos no document is brought to its target before those of earlier
\* kinds are: a workload finds its namespace, service account and configuration.
THEOREM PrerequisitesComeFirst == Spec => []PrerequisitesFirst
<1>1. CalmInv => PrerequisitesFirst
  BY DEF CalmInv, InOrder, PrerequisitesFirst
<1> QED
  BY <1>1, CalmInvariant, PTL

-----------------------------------------------------------------------------
(* A worker that nobody disturbs finds what it relies on.                  *)

Alone(w) == \A v \in Workers \ {w} : worker[v].pc = "waiting"

HasNamespace(w) ==
  Key(w).namespace # NoNamespace => Present(NamespaceKey(Key(w).namespace))

Undisturbed(w) ==
  /\ worker[w].pc # "failed"
  /\ worker[w].pc \in {"namespace", "makeNamespace"} => Key(w).namespace # NoNamespace
  /\ worker[w].pc = "makeNamespace" => ~Present(NamespaceKey(Key(w).namespace))
  /\ worker[w].pc \in {"mapping", "create", "get", "update"} => HasNamespace(w)
  /\ worker[w].pc \in {"create", "get", "update"} => Doc(w).kind \in Served
  /\ worker[w].pc \in {"get", "update"} => Present(Key(w))
  /\ worker[w].pc = "update" => worker[w].fresh

AloneInv == calm => \A w \in Workers : Alone(w) => Undisturbed(w)

LEMMA ProceedNamespace ==
  ASSUME NEW todo \in Seq(Documents)
  PROVE  /\ Proceed(todo) = "mapping" =>
              todo # <<>> /\ TargetKey(Head(todo)).namespace = NoNamespace
         /\ Proceed(todo) = "namespace" =>
              todo # <<>> /\ TargetKey(Head(todo)).namespace # NoNamespace
<1>1. CASE todo = <<>>
  BY <1>1 DEF Proceed
<1>2. CASE todo # <<>>
  <2>1. Head(todo) \in Documents
    BY <1>2
  <2>2. TargetKey(Head(todo)).namespace =
          IF Head(todo).namespace = NoNamespace THEN NoNamespace
          ELSE TargetNamespace(Head(todo).namespace)
    BY <2>1, DocumentFacts
  <2> QED
    BY <1>2, <2>2, TargetNamespaceFacts DEF Proceed
<1> QED
  BY <1>1, <1>2

\* Where a worker goes on, with new documents, it relies on nothing yet.
LEMMA ProceedsUndisturbed ==
  ASSUME NEW w \in Workers, NEW todo \in Seq(Documents), NEW known,
         Becomes(w, Proceed(todo), todo, known)
  PROVE  Undisturbed(w)' /\ worker'[w].pc # "waiting"
<1>1. /\ worker'[w].pc = Proceed(todo) /\ worker'[w].todo = todo
      /\ Proceed(todo) \in {"done", "mapping", "namespace"}
  BY ProceedFacts DEF Becomes
<1>2. Key(w)' = TargetKey(Head(todo))
  BY <1>1 DEF Key, Doc
<1> QED
  BY <1>1, <1>2, ProceedNamespace DEF Undisturbed, HasNamespace

LEMMA StaysStarted ==
  ASSUME IInv, NEW w \in Workers, WorkerStep(w)
  PROVE  worker'[w].pc # "waiting" /\ Others(w)
<1>1. ASSUME NEW pc, GoesTo(w, pc), pc # "waiting"
      PROVE  worker'[w].pc # "waiting" /\ Others(w)
  BY <1>1 DEF GoesTo, Becomes
<1>2. ASSUME NEW known, PassesOn(w, known)
      PROVE  worker'[w].pc # "waiting" /\ Others(w)
  BY <1>2, ProceedFacts DEF PassesOn, Becomes
<1>3. CASE Start(w)
  BY <1>3, StartFacts, ProceedFacts DEF Becomes
<1>4. CASE GetNamespace(w)
  BY <1>1, <1>4, GetNamespaceFacts
<1>5. CASE CreateNamespace(w)
  BY <1>1, <1>5, CreateNamespaceFacts
<1>6. CASE MapKind(w)
  <2>1. PICK known : IF Doc(w).kind \in known
                       THEN Becomes(w, "create", worker[w].todo, known)
                       ELSE PassesOn(w, known)
    BY <1>6, MapKindFacts
  <2> QED
    BY <1>2, <2>1 DEF Becomes
<1>7. CASE DiscoveryFails(w)
  BY <1>2, <1>7, DiscoveryFailsFacts
<1>8. CASE Create(w)
  BY <1>1, <1>2, <1>8, CreateFacts
<1>9. CASE Get(w)
  BY <1>1, <1>9, GetFacts
<1>10. CASE Update(w)
  BY <1>1, <1>2, <1>10, UpdateFacts
<1>11. CASE Fail(w)
  BY <1>1, <1>11, FailFacts
<1> QED
  BY <1>3, <1>4, <1>5, <1>6, <1>7, <1>8, <1>9, <1>10, <1>11 DEF WorkerStep

LEMMA UndisturbedKept ==
  ASSUME IInv, KnownServed, calm, NEW w \in Workers, WorkerStep(w), Undisturbed(w)
  PROVE  Undisturbed(w)'
<1>1. ASSUME NEW pc, GoesTo(w, pc)
      PROVE  worker'[w].pc = pc /\ Key(w)' = Key(w) /\ Doc(w)' = Doc(w)
  BY <1>1 DEF GoesTo, Becomes, Key, Doc
<1>2. ASSUME NEW known, PassesOn(w, known), Running(w)
      PROVE  Undisturbed(w)'
  <2>1. Tail(worker[w].todo) \in Seq(Documents)
    BY <1>2, RunningFacts
  <2> QED
    BY <1>2, <2>1, ProceedsUndisturbed DEF PassesOn
<1>3. CASE Start(w)
  BY <1>3, StartFacts, DocumentsToApplyFacts, ProceedsUndisturbed
<1>4. CASE GetNamespace(w)
  BY <1>1, <1>4, GetNamespaceFacts DEF Undisturbed, HasNamespace, Present
<1>5. CASE CreateNamespace(w)
  <2> DEFINE k == NamespaceKey(Key(w).namespace)
  <2>1. worker[w].pc = "makeNamespace" /\ Running(w) /\ ~Present(k)
        /\ Key(w).namespace # NoNamespace
    BY <1>5, CreateNamespaceFacts DEF Undisturbed
  <2>2. live' = [live EXCEPT ![k] = Foreign] /\ GoesTo(w, "mapping")
    BY <1>5, <2>1, CreateNamespaceFacts
  <2>3. k \in Keys
    BY <2>1, RunningFacts
  <2>4. live'[k] # Nobody
    <3>1. Foreign # Nobody
      BY DEF Foreign, Nobody
    <3> QED
      BY <2>2, <2>3, <3>1 DEF IInv, Objects
  <2> QED
    BY <1>1, <2>2, <2>4 DEF Undisturbed, HasNamespace, Present
<1>6. CASE MapKind(w)
  <2>1. worker[w].pc = "mapping" /\ Running(w) /\ live' = live
    BY <1>6, MapKindFacts
  <2>2. PICK known : /\ known = Served \/ known = worker[w].known
                     /\ IF Doc(w).kind \in known
                          THEN Becomes(w, "create", worker[w].todo, known)
                          ELSE PassesOn(w, known)
    BY <1>6, MapKindFacts
  <2>3. CASE Doc(w).kind \in known
    <3>1. worker'[w].pc = "create" /\ Key(w)' = Key(w) /\ Doc(w)' = Doc(w)
      BY <2>2, <2>3 DEF Becomes, Key, Doc
    <3>2. Doc(w).kind \in Served
      BY <2>2, <2>3 DEF KnownServed
    <3> QED
      BY <2>1, <3>1, <3>2 DEF Undisturbed, HasNamespace, Present, Served
  <2>4. CASE Doc(w).kind \notin known
    BY <1>2, <2>1, <2>2, <2>4
  <2> QED
    BY <2>3, <2>4
<1>7. CASE DiscoveryFails(w) \/ Fail(w)
  BY <1>7 DEF DiscoveryFails, Fail
<1>8. CASE Create(w)
  <2>1. worker[w].pc = "create" /\ Running(w)
    BY <1>8, CreateFacts
  <2>2. Accepted(Key(w))
    <3>1. Key(w).kind = Doc(w).kind
      BY <2>1, RunningFacts, DocumentFacts DEF Key
    <3> QED
      BY <2>1, <3>1 DEF Undisturbed, HasNamespace, Accepted, AcceptedWith, Present, Served
  <2>3. CASE Present(Key(w)) /\ live' = live /\ GoesTo(w, "get")
    BY <1>1, <2>1, <2>3 DEF Undisturbed, HasNamespace, Present, Served
  <2> QED
    BY <1>2, <1>8, <2>1, <2>2, <2>3, CreateFacts
<1>9. CASE Get(w)
  <2>1. worker[w].pc = "get" /\ live' = live /\ Present(Key(w))
    BY <1>9, GetFacts DEF Undisturbed
  <2>2. GoesTo(w, "update") /\ worker'[w].fresh
    BY <1>9, <2>1, GetFacts
  <2> QED
    BY <1>1, <2>1, <2>2 DEF Undisturbed, HasNamespace, Present, Served
<1>10. CASE Update(w)
  BY <1>2, <1>10, UpdateFacts DEF Undisturbed
<1> QED
  BY <1>3, <1>4, <1>5, <1>6, <1>7, <1>8, <1>9, <1>10 DEF WorkerStep

LEMMA InitAloneInv == Init => AloneInv
  BY DEF Init, AloneInv, NewWorker, Undisturbed

LEMMA NextKeepsAloneInv == IInv /\ CalmInv /\ AloneInv /\ [Next]_vars => AloneInv'
<1> SUFFICES ASSUME IInv, CalmInv, AloneInv, [Next]_vars, calm', NEW w \in Workers, Alone(w)'
             PROVE  Undisturbed(w)'
  BY DEF AloneInv
<1>1. ASSUME NEW u \in Workers, WorkerStep(u), UNCHANGED calm
      PROVE  Undisturbed(w)'
  <2>1. worker'[u].pc # "waiting" /\ Others(u)
    BY <1>1, StaysStarted
  <2>2. u = w
    BY <2>1 DEF Alone
  <2>3. Alone(w)
    BY <2>1, <2>2 DEF Alone, Others
  <2> QED
    BY <1>1, <2>2, <2>3, UndisturbedKept DEF CalmInv, AloneInv
<1>2. CASE \E k \in Keys : (OtherWrites(k) \/ OtherDeletes(k)) /\ UNCHANGED calm
  BY <1>2 DEF OtherWrites, OtherDeletes
<1>3. CASE UNCHANGED vars
  <2>1. Alone(w) /\ calm
    BY <1>3 DEF vars, Alone
  <2>2. Undisturbed(w)
    BY <2>1 DEF AloneInv
  <2> QED
    BY <1>3, <2>2 DEF vars, Undisturbed, HasNamespace, Present, Key, Doc, Served
<1> QED
  BY <1>1, <1>2, <1>3 DEF Next

\* A worker that nobody disturbs, no other restore either, does not fail, whatever
\* the target cluster held before: it waits for no namespace it did not find or
\* make, and updates only what it has just read.
THEOREM UndisturbedDoesNotFail == Spec => []UndisturbedSucceeds
<1>1. AloneInv => UndisturbedSucceeds
  BY DEF AloneInv, UndisturbedSucceeds, Alone, Undisturbed
<1>2. Spec => []AloneInv
  BY InductiveInvariant, CalmInvariant, InitAloneInv, NextKeepsAloneInv, PTL DEF Spec
<1> QED
  BY <1>1, <1>2, PTL

===============================================================================

------------------------ MODULE PackageManagerProofs -------------------------
(***************************************************************************)
(* resolver.solve (internal/pkgmgr/resolve.go) is right: what it returns is *)
(* a solution, it fails only when there is none, and it keeps the lock.     *)
(* The proofs go by the invariant IInv of PackageManager: the graph being   *)
(* built and the copies kept for other candidates are sound, and every      *)
(* solution extends one of them.                                            *)
(* The second part, by OrderInv, goes from the solved graph to its order,   *)
(* the vendor directory and the lockfile.                                   *)
(***************************************************************************)
EXTENDS PackageManager, TLAPS, FiniteSetTheorems, WellFoundedInduction,
        SequenceTheorems

\* What is needed and what is a solution depends on the manifests and the index
\* only, which no step of a search changes.
LEMMA SolutionFrame ==
    ASSUME world' = world, offered' = offered, NEW a
    PROVE  /\ Needed(a)' = Needed(a)
           /\ Solution(a)' <=> Solution(a)
  <1>1. Needed(a)' = Needed(a)
    BY DEF Needed, Closed, Wanted, Targets
  <1>2. Solution(a)' <=> Solution(a)
    BY <1>1, SMT DEF Solution, Fits, Wanted, Targets
  <1> QED BY <1>1, <1>2

\* The graph after a step.
Later == [pending |-> pending', nodes |-> nodes', deps |-> deps']

\* The invariant of the graph after a step may be shown with the manifests and
\* the index of before.
LEMMA SoundFrame ==
    ASSUME world' = world, offered' = offered
    PROVE  Sound(Current)' <=> Sound(Later)
  <1>1. NodesSound(Current)' <=> NodesSound(Later)
    BY DEF NodesSound, Current, Later, In, Declared, Targets, Needed, Closed, Wanted
  <1>2. PendingSound(Current)' <=> PendingSound(Later)
    BY DEF PendingSound, RequestSound, Current, Later, In, Declared, Targets
  <1>3. NothingForgotten(Current)' <=> NothingForgotten(Later)
    BY DEF NothingForgotten, MetOrPending, Current, Later, In, Declared
  <1> QED BY <1>1, <1>2, <1>3 DEF Sound

\* The same for the copies the calls of solve keep (resolveState.cloneWithPending).
LEMMA KeptFrame ==
    ASSUME world' = world, offered' = offered
    PROVE  KeptSound' <=> \A i \in DOMAIN choices' : Sound(choices'[i]) /\ ChoiceSound(choices'[i])
  BY DEF KeptSound, Sound, NodesSound, PendingSound, RequestSound, NothingForgotten, MetOrPending,
         ChoiceSound, In, Declared, Targets, Needed, Closed, Wanted

\* The same for the locked versions Resolve has read.
LEMMA PinsFrame ==
    ASSUME world' = world, offered' = offered, pins' = pins
    PROVE  Solution(pins)' <=> Solution(pins)
  <1>1. Needed(pins)' = Needed(pins)
    BY DEF Needed, Closed, Wanted, Targets
  <1> QED BY <1>1, SMT DEF Solution, Fits, Wanted, Targets

\* A copy of a graph is as sound as the graph (cloneGraph).
LEMMA SameGraph ==
    ASSUME NEW st, NEW st2,
           st2.pending = st.pending, st2.nodes = st.nodes, st2.deps = st.deps
    PROVE  Sound(st2) <=> Sound(st)
  <1>1. In(st2) = In(st) /\ \A p : Declared(st2, p) = Declared(st, p)
    BY DEF In, Declared
  <1>2. NodesSound(st2) <=> NodesSound(st)
    BY <1>1 DEF NodesSound
  <1>3. PendingSound(st2) <=> PendingSound(st)
    BY <1>1 DEF PendingSound, RequestSound
  <1>4. NothingForgotten(st2) <=> NothingForgotten(st)
    BY <1>1 DEF NothingForgotten, MetOrPending
  <1> QED BY <1>2, <1>3, <1>4 DEF Sound

\* There is a largest and a smallest one among finitely many numbers: a minimal
\* set without one would stay without one when any member is taken away.
LEMMA Bounds ==
    ASSUME NEW N \in SUBSET Nat, IsFiniteSet(N), NEW vs \in SUBSET N, vs # {}
    PROVE  /\ \E v \in vs : \A w \in vs : w =< v
           /\ \E v \in vs : \A w \in vs : v =< w
  <1> DEFINE Bounded(U) == /\ \E v \in U : \A w \in U : w =< v
                           /\ \E v \in U : \A w \in U : v =< w
             Bad == {U \in SUBSET N : U # {} /\ ~Bounded(U)}
  <1>1. Bad = {}
    <2> SUFFICES ASSUME Bad # {} PROVE FALSE
      OBVIOUS
    <2>1. IsWellFoundedOn(StrictSubsetOrdering(N), SUBSET N)
      BY FS_FiniteSubsetsOfFinite, FS_StrictSubsetOrderingWellFounded
    <2>2. PICK U \in Bad : \A W \in Bad : ~(<<W, U>> \in StrictSubsetOrdering(N))
      <3>1. Bad \subseteq SUBSET N
        OBVIOUS
      <3> HIDE DEF Bad
      <3> QED BY <2>1, <3>1, WFMin
    <2>3. PICK v \in U : TRUE
      OBVIOUS
    <2>4. U \ {v} \notin Bad
      BY <2>2, <2>3 DEF StrictSubsetOrdering
    <2>5. U \subseteq Nat
      OBVIOUS
    <2>6. CASE U \ {v} = {}
      <3>1. \A w \in U : w = v /\ v \in Nat
        BY <2>3, <2>5, <2>6
      <3> QED BY <2>3, <3>1
    <2>7. CASE U \ {v} # {}
      <3>1. PICK m \in U \ {v} : \A w \in U \ {v} : w =< m
        BY <2>4, <2>7
      <3>2. PICK l \in U \ {v} : \A w \in U \ {v} : l =< w
        BY <2>4, <2>7
      <3>3. \E u \in U : \A w \in U : w =< u
        <4>1. CASE m =< v
          BY <2>3, <2>5, <3>1, <4>1
        <4>2. CASE ~(m =< v)
          BY <2>3, <2>5, <3>1, <4>2
        <4> QED BY <4>1, <4>2
      <3>4. \E u \in U : \A w \in U : u =< w
        <4>1. CASE v =< l
          BY <2>3, <2>5, <3>2, <4>1
        <4>2. CASE ~(v =< l)
          BY <2>3, <2>5, <3>2, <4>2
        <4> QED BY <4>1, <4>2
      <3> QED BY <3>3, <3>4
    <2> QED BY <2>6, <2>7
  <1> QED BY <1>1

\* The candidate solve tries next is one of those left
\* (prioritizeLockedRegistryCandidate).
LEMMA FirstIn ==
    ASSUME NEW vs \in SUBSET Version, vs # {}
    PROVE  FirstOf(vs) \in vs
  <1>1. Version \in SUBSET Nat /\ IsFiniteSet(Version)
    BY PackageAssumption
  <1>2. \E v \in vs : \A w \in vs : w =< v
    BY <1>1, Bounds
  <1> QED BY <1>2 DEF FirstOf, Newest

\* The dependencies of a manifest have names and sets of versions.
LEMMA TargetsType ==
    ASSUME NEW ds \in Seq(Dependency)
    PROVE  /\ Targets(ds) \subseteq Name
           /\ DOMAIN ds = 1 .. Len(ds) /\ Len(ds) \in Nat
           /\ \A i \in DOMAIN ds : ds[i].name \in Name /\ ds[i].ok \in SUBSET Version
  <1>1. \A i \in DOMAIN ds : ds[i] \in Dependency
    OBVIOUS
  <1>2. \A i \in DOMAIN ds : ds[i].name \in Name /\ ds[i].ok \in SUBSET Version
    BY <1>1 DEF Dependency
  <1> QED BY <1>2 DEF Targets

\* The manifests of a behaviour have their types.
LEMMA WorldType ==
    ASSUME TypeOK
    PROVE  /\ world.root \in Seq(Dependency)
           /\ world.manifest \in [Name \X Version -> Seq(Dependency)]
  BY PackageAssumption DEF TypeOK

\* The types of a graph with its pending requests.
Typed(st) == /\ st.pending \in Seq(Request)
             /\ st.nodes \in Assignment
             /\ st.deps \in [Name -> SUBSET Name]

\* So have the dependencies of the root and of each node.
LEMMA DeclaredType ==
    ASSUME TypeOK, NEW st, Typed(st), NEW p \in In(st) \union {None}
    PROVE  /\ Declared(st, p) \in Seq(Dependency)
           /\ Targets(Declared(st, p)) \subseteq Name
  <1>1. Declared(st, p) \in Seq(Dependency)
    BY WorldType DEF Declared, In, Typed, Assignment
  <1> QED BY <1>1, TargetsType

\* What is needed is closed under the dependencies of what is needed.
LEMMA NeededClosed ==
    ASSUME TypeOK, NEW a \in Assignment
    PROVE  Closed(Needed(a), a)
  <1>1. Targets(world.root) \subseteq Needed(a)
    BY WorldType, TargetsType DEF Needed, Closed
  <1>2. ASSUME NEW m \in Needed(a), a[m] # None
        PROVE  Targets(Wanted(m, a)) \subseteq Needed(a)
    <2>1. m \in Name /\ a[m] \in Version
      BY <1>2 DEF Needed, Assignment
    <2>2. Targets(Wanted(m, a)) \subseteq Name
      BY <2>1, WorldType, TargetsType DEF Wanted
    <2> QED BY <1>2, <2>1, <2>2 DEF Needed, Closed
  <1> QED BY <1>1, <1>2 DEF Closed

\* Choosing more versions can only add to what is needed.
LEMMA NeededMono ==
    ASSUME NEW a \in Assignment, NEW nd \in Assignment, Extends(a, nd)
    PROVE  Needed(nd) \subseteq Needed(a)
  <1>1. ASSUME NEW S \in SUBSET Name, Closed(S, a) PROVE Closed(S, nd)
    BY <1>1 DEF Closed, Extends, Wanted
  <1> QED BY <1>1 DEF Needed

\* The request solve looks at satisfies the invariant of requests.
LEMMA HeadSound ==
    ASSUME NEW st, Typed(st), Sound(st), st.pending # << >>
    PROVE  /\ Head(st.pending) \in Request
           /\ Head(st.pending) = st.pending[1]
           /\ RequestSound(st, Head(st.pending))
           /\ Head(st.pending).parent \in In(st) \union {None}
  <1>1. Head(st.pending) \in Request /\ Head(st.pending) = st.pending[1] /\ 1 \in DOMAIN st.pending
    BY DEF Typed
  <1>2. RequestSound(st, Head(st.pending))
    BY <1>1 DEF Sound, PendingSound
  <1> QED BY <1>1, <1>2 DEF RequestSound

\* A solution that extends the graph answers the next request of solve: it is
\* no circle, and the version fits and is in the index.  A circle would be one
\* of the solution, since the ancestors are a path in it.
LEMMA Answerable ==
    ASSUME TypeOK, NEW st, Typed(st), Sound(st), st.pending # << >>,
           NEW a \in Assignment, Solution(a), Extends(a, st.nodes)
    PROVE  LET r == Head(st.pending)
           IN /\ r.name \notin r.ancestors
              /\ a[r.name] \in r.ok
              /\ <<r.name, a[r.name]>> \in offered
  <1> DEFINE r == Head(st.pending)
             ds == Declared(st, r.parent)
  <1>1. r \in Request /\ RequestSound(st, r) /\ r.parent \in In(st) \union {None}
    BY HeadSound
  <1>2. In(st) \subseteq Needed(a)
    BY NeededMono DEF Sound, NodesSound, Typed
  <1>3. PICK i \in DOMAIN ds : ds[i] = [name |-> r.name, ok |-> r.ok]
    BY <1>1 DEF RequestSound
  <1>4. \A n \in In(st) : Declared(st, n) = Wanted(n, a) /\ a[n] # None
    BY PackageAssumption DEF Declared, Wanted, Extends, In, None
  <1>5. a[r.name] \in r.ok
    <2>1. CASE r.parent = None
      BY <1>3, <2>1 DEF Solution, Fits, Declared
    <2>2. CASE r.parent # None
      BY <1>1, <1>2, <1>3, <1>4, <2>2 DEF Solution, Fits
    <2> QED BY <2>1, <2>2
  <1>6. r.name \in Needed(a)
    <2>1. r.name \in Targets(ds)
      BY <1>3 DEF Targets
    <2>2. CASE r.parent = None
      BY <2>1, <2>2, NeededClosed DEF Closed, Declared
    <2>3. CASE r.parent # None
      BY <1>1, <1>2, <1>4, <2>1, <2>3, NeededClosed DEF Closed
    <2> QED BY <2>2, <2>3
  <1>7. <<r.name, a[r.name]>> \in offered
    BY <1>6 DEF Solution
  <1>8. r.name \notin r.ancestors
    <2> SUFFICES ASSUME r.name \in r.ancestors PROVE FALSE
      OBVIOUS
    <2>1. r.ancestors \in (SUBSET Needed(a)) \ {{}} /\ r.ancestors \subseteq In(st)
      BY <1>1, <1>2 DEF RequestSound
    <2>2. r.parent # None /\ r.parent \in r.ancestors
      BY <1>1 DEF RequestSound
    <2>3. ASSUME NEW n \in r.ancestors PROVE Targets(Wanted(n, a)) \intersect r.ancestors # {}
      <3>1. CASE n = r.parent
        BY <1>3, <1>4, <2>1, <2>2, <3>1 DEF Targets
      <3>2. CASE n # r.parent
        BY <1>1, <1>4, <2>1, <3>2 DEF RequestSound
      <3> QED BY <3>1, <3>2
    <2> QED BY <2>1, <2>3 DEF Solution
  <1> QED BY <1>5, <1>7, <1>8

\* What is left of the pending requests when the first is taken.
LEMMA TailFacts ==
    ASSUME NEW st, Typed(st), st.pending # << >>
    PROVE  /\ Tail(st.pending) \in Seq(Request)
           /\ Len(st.pending) \in Nat \ {0}
           /\ DOMAIN st.pending = 1 .. Len(st.pending)
           /\ DOMAIN Tail(st.pending) = 1 .. Len(st.pending) - 1
           /\ Len(Tail(st.pending)) = Len(st.pending) - 1
           /\ \A i \in 1 .. Len(st.pending) - 1 : Tail(st.pending)[i] = st.pending[i + 1]
  BY DEF Typed

\* The edges after request r has been answered (addDepEdge).
Answered(st, r) == IF r.parent = None THEN st.deps
                   ELSE [st.deps EXCEPT ![r.parent] = @ \union {r.name}]

\* One edge is new: from who asked to what was asked for.
LEMMA AnsweredFacts ==
    ASSUME NEW st, Typed(st), NEW r \in Request
    PROVE  /\ Answered(st, r) \in [Name -> SUBSET Name]
           /\ \A n \in Name : n # r.parent => Answered(st, r)[n] = st.deps[n]
           /\ r.parent # None => Answered(st, r)[r.parent] = st.deps[r.parent] \union {r.name}
           /\ \A n \in Name : st.deps[n] \subseteq Answered(st, r)[n]
           /\ \A n \in Name : \A k \in Answered(st, r)[n] :
                k \in st.deps[n] \/ (n = r.parent /\ k = r.name)
  <1>1. r.name \in Name /\ r.parent \in Name \union {None} /\ None \notin Name
    BY PackageAssumption DEF Request, None
  <1>2. CASE r.parent = None
    BY <1>1, <1>2 DEF Answered, Typed
  <1>3. CASE r.parent # None
    BY <1>1, <1>3 DEF Answered, Typed
  <1> QED BY <1>2, <1>3

\* A request answered by a node that is there keeps the graph sound.  The new
\* edge closes no circle: from what is not an ancestor no ancestor is reached.
LEMMA ReuseSound ==
    ASSUME TypeOK, NEW st, Typed(st), Sound(st), st.pending # << >>,
           NEW r, r = Head(st.pending), r.name \notin r.ancestors, st.nodes[r.name] \in r.ok,
           NEW st2, st2.nodes = st.nodes, st2.deps = Answered(st, r),
           st2.pending = Tail(st.pending)
    PROVE  Typed(st2) /\ Sound(st2)
  <1>1. /\ r \in Request /\ r = st.pending[1] /\ RequestSound(st, r)
        /\ r.parent \in In(st) \union {None} /\ In(st) \subseteq Name
    BY HeadSound DEF In
  <1>2. /\ r.name \in Name /\ r.parent \in Name \union {None} /\ None \notin Name
        /\ r.ancestors \subseteq Name /\ r.ok \subseteq Version /\ None \notin Version
    BY <1>1, PackageAssumption DEF Request, None
  <1>3. In(st2) = In(st) /\ r.name \in In(st)
    BY <1>2 DEF In
  <1>4. ASSUME NEW p PROVE Declared(st2, p) = Declared(st, p)
    BY DEF Declared
  <1>5. /\ st2.deps \in [Name -> SUBSET Name]
        /\ \A n \in Name : n # r.parent => st2.deps[n] = st.deps[n]
        /\ r.parent # None => st2.deps[r.parent] = st.deps[r.parent] \union {r.name}
        /\ \A n \in Name : st.deps[n] \subseteq st2.deps[n]
        /\ \A n \in Name : \A k \in st2.deps[n] : k \in st.deps[n] \/ (n = r.parent /\ k = r.name)
    BY <1>1, AnsweredFacts
  <1>6. Typed(st2)
    BY <1>5, TailFacts DEF Typed
  <1>7. NodesSound(st2)
    <2>1. /\ \A n \in In(st2) : <<n, st2.nodes[n]>> \in offered
          /\ In(st2) \subseteq Needed(st2.nodes)
      BY <1>3 DEF Sound, NodesSound
    <2>2. \A n \in Name : st2.deps[n] \subseteq In(st2)
      <3>1. \A n \in Name : st.deps[n] \subseteq In(st)
        BY DEF Sound, NodesSound
      <3> QED BY <1>3, <1>5, <3>1
    <2>3. ASSUME NEW n \in In(st2) PROVE st2.deps[n] \subseteq Targets(Declared(st2, n))
      <3>1. st.deps[n] \subseteq Targets(Declared(st, n))
        BY <1>3 DEF Sound, NodesSound
      <3>2. n = r.parent => r.name \in Targets(Declared(st, n))
        BY <1>1, <1>2 DEF RequestSound, Targets
      <3> QED BY <1>1, <1>3, <1>4, <1>5, <3>1, <3>2
    <2>4. \A n \in Name \ In(st2) : st2.deps[n] = {}
      <3>1. \A n \in Name \ In(st) : st.deps[n] = {}
        BY DEF Sound, NodesSound
      <3> QED BY <1>1, <1>2, <1>3, <1>5, <3>1
    <2>5. ASSUME NEW S \in (SUBSET Name) \ {{}} PROVE \E n \in S : st2.deps[n] \intersect S = {}
      <3>1. CASE r.name \notin S
        <4>1. PICK n \in S : st.deps[n] \intersect S = {}
          BY DEF Sound, NodesSound
        <4> QED BY <1>5, <3>1, <4>1
      <3>2. CASE r.name \in S
        <4> DEFINE T == S \ r.ancestors
        <4>1. T \in (SUBSET Name) \ {{}}
          BY <3>2
        <4>2. PICK n \in T : st.deps[n] \intersect T = {}
          BY <4>1 DEF Sound, NodesSound
        <4>3. st2.deps[n] = st.deps[n]
          BY <1>1, <1>2, <1>5 DEF RequestSound
        <4>4. st.deps[n] \intersect r.ancestors = {}
          BY <1>1 DEF RequestSound
        <4> QED BY <4>2, <4>3, <4>4
      <3> QED BY <3>1, <3>2
    <2> QED BY <2>1, <2>2, <2>3, <2>4, <2>5 DEF NodesSound
  <1>8. PendingSound(st2)
    <2>1. ASSUME NEW i \in DOMAIN st2.pending PROVE RequestSound(st2, st2.pending[i])
      <3> DEFINE q == st2.pending[i]
      <3>1. /\ i + 1 \in DOMAIN st.pending /\ q = st.pending[i + 1]
            /\ 1 \in DOMAIN st.pending /\ 1 < i + 1
        BY TailFacts
      <3>2. RequestSound(st, q) /\ q.ancestors \subseteq r.ancestors
        BY <1>1, <3>1 DEF Sound, PendingSound
      <3> HIDE DEF q
      <3>3. \A n \in Name : st2.deps[n] \intersect q.ancestors # {} => n \in q.ancestors
        <4>1. \A n \in Name : st.deps[n] \intersect q.ancestors # {} => n \in q.ancestors
          BY <3>2 DEF RequestSound
        <4> QED BY <1>5, <3>2, <4>1
      <3>4. RequestSound(st2, q)
        BY <1>3, <1>4, <3>2, <3>3 DEF RequestSound
      <3> QED BY <3>4 DEF q
    <2>2. ASSUME NEW i \in DOMAIN st2.pending, NEW j \in DOMAIN st2.pending, i < j
          PROVE  st2.pending[j].ancestors \subseteq st2.pending[i].ancestors
      <3>1. /\ i + 1 \in DOMAIN st.pending /\ st2.pending[i] = st.pending[i + 1]
            /\ j + 1 \in DOMAIN st.pending /\ st2.pending[j] = st.pending[j + 1]
            /\ i + 1 < j + 1
        BY <2>2, TailFacts
      <3> QED BY <3>1 DEF Sound, PendingSound
    <2> QED BY <2>1, <2>2 DEF PendingSound
  <1>9. NothingForgotten(st2)
    <2> SUFFICES ASSUME NEW p \in In(st) \union {None}, NEW k \in DOMAIN Declared(st, p)
                 PROVE  MetOrPending(st2, p, Declared(st, p)[k])
      BY <1>3, <1>4 DEF NothingForgotten, MetOrPending
    <2> DEFINE d == Declared(st, p)[k]
    <2>0. MetOrPending(st, p, d)
      BY DEF Sound, NothingForgotten, MetOrPending
    <2> SUFFICES MetOrPending(st2, p, d)
      OBVIOUS
    <2> HIDE DEF d
    <2>1. CASE st.nodes[d.name] \in d.ok /\ (p # None => d.name \in st.deps[p])
      BY <1>1, <1>5, <2>1 DEF MetOrPending
    <2>2. CASE \E j \in DOMAIN st.pending : /\ st.pending[j].parent = p
                                            /\ st.pending[j].name = d.name
                                            /\ st.pending[j].ok = d.ok
      <3>1. PICK j \in DOMAIN st.pending : /\ st.pending[j].parent = p
                                           /\ st.pending[j].name = d.name
                                           /\ st.pending[j].ok = d.ok
        BY <2>2
      <3>2. CASE j = 1
        BY <1>1, <1>2, <1>5, <3>1, <3>2 DEF MetOrPending
      <3>3. CASE j # 1
        <4>1. j - 1 \in DOMAIN st2.pending /\ st2.pending[j - 1] = st.pending[j]
          BY <3>3, TailFacts
        <4> QED BY <3>1, <4>1 DEF MetOrPending
      <3> QED BY <3>2, <3>3
    <2> QED BY <2>0, <2>1, <2>2 DEF MetOrPending
  <1> QED BY <1>6, <1>7, <1>8, <1>9 DEF Sound

\* q is the request for dependency d of n (childRequests).
Child(q, d, n, anc) == q.name = d.name /\ q.ok = d.ok /\ q.parent = n /\ q.ancestors = anc

\* childRequests makes one request of every dependency of a manifest.
LEMMA RequestsFacts ==
    ASSUME NEW ms \in Seq(Dependency), NEW n \in Name \union {None}, NEW anc \in SUBSET Name
    PROVE  /\ Requests(ms, n, anc) \in Seq(Request)
           /\ Len(Requests(ms, n, anc)) = Len(ms)
           /\ \A i \in 1 .. Len(ms) : Child(Requests(ms, n, anc)[i], ms[i], n, anc)
  <1> DEFINE new == Requests(ms, n, anc)
  <1>1. /\ DOMAIN ms = 1 .. Len(ms) /\ Len(ms) \in Nat
        /\ \A i \in DOMAIN ms : ms[i].name \in Name /\ ms[i].ok \in SUBSET Version
    BY TargetsType
  <1>2. new = [i \in 1 .. Len(ms) |-> [name |-> ms[i].name, ok |-> ms[i].ok, parent |-> n,
                                       ancestors |-> anc]]
    BY <1>1 DEF Requests
  <1>3. \A i \in 1 .. Len(ms) : new[i] \in Request
    BY <1>1, <1>2 DEF Request
  <1>4. new \in [1 .. Len(ms) -> Request]
    BY <1>2, <1>3
  <1>5. new \in Seq(Request) /\ Len(new) = Len(ms)
    BY <1>1, <1>4
  <1>6. \A i \in 1 .. Len(ms) : Child(new[i], ms[i], n, anc)
    BY <1>2 DEF Child
  <1> QED BY <1>5, <1>6

\* t has the requests of manifest ms of n, and then those of s but the first.
Prepended(t, s, ms, n, anc) ==
    /\ t \in Seq(Request)
    /\ \A i \in DOMAIN t : \/ i \in DOMAIN ms /\ Child(t[i], ms[i], n, anc)
                           \/ \E j \in DOMAIN s \ {1} : t[i] = s[j]
    /\ \A i \in DOMAIN ms : i \in DOMAIN t /\ Child(t[i], ms[i], n, anc)
    /\ \A j \in DOMAIN s \ {1} : \E i \in DOMAIN t : t[i] = s[j]
    /\ \A i, k \in DOMAIN t : i < k =>
         \/ t[i].ancestors = anc /\ t[k].ancestors = anc
         \/ t[i].ancestors = anc /\ \E j \in DOMAIN s \ {1} : t[k] = s[j]
         \/ \E j1, j2 \in DOMAIN s : j1 < j2 /\ t[i] = s[j1] /\ t[k] = s[j2]

\* The pending requests after a fetch are of this form.
LEMMA PrependFacts ==
    ASSUME NEW ms \in Seq(Dependency), NEW n \in Name, NEW anc \in SUBSET Name,
           NEW s \in Seq(Request), s # << >>,
           NEW t, t = Requests(ms, n, anc) \o Tail(s)
    PROVE  Prepended(t, s, ms, n, anc)
  <1> DEFINE new == Requests(ms, n, anc)
             rest == Tail(s)
             k0 == Len(ms)
  <1>1. /\ new \in Seq(Request) /\ Len(new) = k0 /\ k0 \in Nat /\ DOMAIN ms = 1 .. k0
        /\ \A i \in 1 .. k0 : Child(new[i], ms[i], n, anc)
    BY RequestsFacts, TargetsType
  <1>2. /\ rest \in Seq(Request) /\ Len(s) \in Nat \ {0} /\ Len(rest) = Len(s) - 1
        /\ DOMAIN s = 1 .. Len(s)
        /\ \A i \in 1 .. Len(s) - 1 : rest[i] = s[i + 1]
    OBVIOUS
  <1>3. t = new \o rest
    OBVIOUS
  <1> HIDE DEF new, rest, k0
  <1>4. /\ t \in Seq(Request) /\ Len(t) = k0 + Len(rest) /\ DOMAIN t = 1 .. Len(t)
        /\ \A i \in 1 .. Len(t) : t[i] = IF i =< Len(new) THEN new[i] ELSE rest[i - Len(new)]
    <2>1. /\ t \in Seq(Request) /\ Len(t) = Len(new) + Len(rest)
          /\ \A i \in 1 .. Len(new) + Len(rest) :
               t[i] = IF i =< Len(new) THEN new[i] ELSE rest[i - Len(new)]
      <3>1. new \in Seq(Request) /\ rest \in Seq(Request)
        BY <1>1, <1>2
      <3>2. /\ new \o rest \in Seq(Request) /\ Len(new \o rest) = Len(new) + Len(rest)
            /\ \A i \in 1 .. Len(new) + Len(rest) :
                 (new \o rest)[i] = IF i <= Len(new) THEN new[i] ELSE rest[i - Len(new)]
        BY <3>1, ConcatProperties
      <3> QED BY <1>3, <3>2, Zenon
    <2>2. DOMAIN t = 1 .. Len(t)
      BY <2>1
    <2> QED BY <1>1, <2>1, <2>2
  <1>5. ASSUME NEW i \in 1 .. k0 PROVE i \in DOMAIN t /\ Child(t[i], ms[i], n, anc)
    BY <1>1, <1>2, <1>4
  <1>6. ASSUME NEW i \in DOMAIN t, ~(i \in 1 .. k0)
        PROVE  t[i] = s[i - k0 + 1] /\ i - k0 + 1 \in DOMAIN s \ {1} /\ i \in Nat
    BY <1>1, <1>2, <1>4, <1>6
  <1>7. ASSUME NEW j \in DOMAIN s \ {1} PROVE \E i \in DOMAIN t : t[i] = s[j]
    <2>1. k0 + j - 1 \in DOMAIN t /\ t[k0 + j - 1] = s[j]
      BY <1>1, <1>2, <1>4
    <2> QED BY <2>1
  <1>8. ASSUME NEW i \in DOMAIN t, NEW k \in DOMAIN t, i < k
        PROVE  \/ t[i].ancestors = anc /\ t[k].ancestors = anc
               \/ t[i].ancestors = anc /\ \E j \in DOMAIN s \ {1} : t[k] = s[j]
               \/ \E j1, j2 \in DOMAIN s : j1 < j2 /\ t[i] = s[j1] /\ t[k] = s[j2]
    <2>1. CASE k \in 1 .. k0
      <3>1. i \in 1 .. k0
        BY <1>1, <1>4, <1>8, <2>1
      <3> QED BY <1>5, <2>1, <3>1 DEF Child
    <2>2. CASE i \in 1 .. k0 /\ ~(k \in 1 .. k0)
      BY <1>5, <1>6, <2>2 DEF Child
    <2>3. CASE ~(i \in 1 .. k0) /\ ~(k \in 1 .. k0)
      <3>1. i - k0 + 1 < k - k0 + 1
        BY <1>1, <1>4, <1>8
      <3>2. /\ i - k0 + 1 \in DOMAIN s /\ t[i] = s[i - k0 + 1]
            /\ k - k0 + 1 \in DOMAIN s /\ t[k] = s[k - k0 + 1]
        BY <1>6, <2>3
      <3> QED BY <3>1, <3>2
    <2> QED BY <2>1, <2>2, <2>3
  <1> QED BY <1>1, <1>4, <1>5, <1>6, <1>7, <1>8 DEF Prepended

\* st2 is st with version v fetched for request r.
Fetched(st, r, v, st2) ==
    /\ st2.nodes = [st.nodes EXCEPT ![r.name] = v]
    /\ st2.deps = Answered(st, r)
    /\ st2.pending = Requests(world.manifest[<<r.name, v>>], r.name, r.ancestors \union {r.name})
                       \o Tail(st.pending)

\* A fetched version keeps the graph sound: the new node has no edges yet, its
\* requests have it as their parent and the request's path as their ancestors.
LEMMA FetchSound ==
    ASSUME TypeOK, NEW st, Typed(st), Sound(st), st.pending # << >>,
           NEW r, r = Head(st.pending), r.name \notin r.ancestors, st.nodes[r.name] = None,
           NEW v \in Version, v \in r.ok, <<r.name, v>> \in offered,
           NEW st2, Fetched(st, r, v, st2)
    PROVE  Typed(st2) /\ Sound(st2)
  <1> DEFINE ms == world.manifest[<<r.name, v>>]
  <1>1. /\ r \in Request /\ r = st.pending[1] /\ RequestSound(st, r)
        /\ r.parent \in In(st) \union {None} /\ In(st) \subseteq Name
    BY HeadSound DEF In
  <1>2. /\ r.name \in Name /\ r.parent \in Name \union {None} /\ None \notin Name
        /\ r.ancestors \subseteq Name /\ r.ok \subseteq Version /\ None \notin Version
    BY <1>1, PackageAssumption DEF Request, None
  <1>3. /\ st2.nodes \in Assignment /\ st2.nodes[r.name] = v
        /\ \A n \in Name \ {r.name} : st2.nodes[n] = st.nodes[n]
    BY <1>2 DEF Typed, Assignment, Fetched
  <1>4. In(st2) = In(st) \union {r.name} /\ r.name \notin In(st)
    BY <1>2, <1>3 DEF In
  <1>5. r.name # r.parent /\ r.ancestors \subseteq In(st)
    BY <1>1, <1>2, <1>4 DEF RequestSound
  <1>6. /\ \A p \in In(st) \union {None} : Declared(st2, p) = Declared(st, p)
        /\ Declared(st2, r.name) = ms
    BY <1>1, <1>2, <1>3, <1>4 DEF Declared
  <1>7. ms \in Seq(Dependency)
    BY <1>2, WorldType
  <1> DEFINE anc == r.ancestors \union {r.name}
  <1> HIDE DEF ms
  <1>8. Prepended(st2.pending, st.pending, ms, r.name, anc)
    <2>1. st2.pending = Requests(ms, r.name, anc) \o Tail(st.pending) /\ anc \in SUBSET Name
      BY <1>2 DEF ms, Fetched
    <2>2. st.pending \in Seq(Request)
      BY DEF Typed
    <2> HIDE DEF anc
    <2> QED BY <1>2, <1>7, <2>1, <2>2, PrependFacts
  <1>9. /\ st2.pending \in Seq(Request)
        /\ \A i \in DOMAIN st2.pending :
             \/ i \in DOMAIN ms /\ Child(st2.pending[i], ms[i], r.name, anc)
             \/ \E j \in DOMAIN st.pending \ {1} : st2.pending[i] = st.pending[j]
    BY <1>8 DEF Prepended
  <1>10. /\ \A i \in DOMAIN ms : i \in DOMAIN st2.pending /\ Child(st2.pending[i], ms[i], r.name, anc)
         /\ \A j \in DOMAIN st.pending \ {1} : \E i \in DOMAIN st2.pending : st2.pending[i] = st.pending[j]
    BY <1>8 DEF Prepended
  <1>11. /\ st2.deps \in [Name -> SUBSET Name]
         /\ \A n \in Name : n # r.parent => st2.deps[n] = st.deps[n]
         /\ r.parent # None => st2.deps[r.parent] = st.deps[r.parent] \union {r.name}
         /\ \A n \in Name : st.deps[n] \subseteq st2.deps[n]
         /\ \A n \in Name : \A k \in st2.deps[n] : k \in st.deps[n] \/ (n = r.parent /\ k = r.name)
    BY <1>1, AnsweredFacts DEF Fetched
  <1>12. Typed(st2)
    BY <1>3, <1>9, <1>11 DEF Typed
  <1>13. /\ \A n \in Name : st.deps[n] \subseteq In(st)
         /\ \A n \in Name \ In(st) : st.deps[n] = {}
         /\ \A n \in In(st) : st.deps[n] \subseteq Targets(Declared(st, n))
         /\ \A S \in (SUBSET Name) \ {{}} : \E n \in S : st.deps[n] \intersect S = {}
         /\ \A n \in In(st) : <<n, st.nodes[n]>> \in offered
         /\ In(st) \subseteq Needed(st.nodes)
    BY DEF Sound, NodesSound
  <1>14. r.name \in Targets(Declared(st, r.parent))
    BY <1>1 DEF RequestSound, Targets
  <1>15. NodesSound(st2)
    <2>1. \A n \in In(st2) : <<n, st2.nodes[n]>> \in offered
      BY <1>1, <1>3, <1>4, <1>13
    <2>2. In(st2) \subseteq Needed(st2.nodes)
      <3>1. Extends(st2.nodes, st.nodes)
        BY <1>2, <1>3 DEF Extends
      <3>2. In(st) \subseteq Needed(st2.nodes)
        BY <1>3, <1>13, <3>1, NeededMono DEF Typed
      <3>3. Closed(Needed(st2.nodes), st2.nodes)
        BY <1>3, NeededClosed
      <3>4. r.name \in Needed(st2.nodes)
        <4>1. CASE r.parent = None
          BY <1>14, <3>3, <4>1 DEF Closed, Declared
        <4>2. CASE r.parent # None
          <5>1. r.parent \in In(st) /\ Declared(st2, r.parent) = Declared(st, r.parent)
            BY <1>1, <1>6, <4>2
          <5>2. Wanted(r.parent, st2.nodes) = Declared(st, r.parent) /\ st2.nodes[r.parent] # None
            BY <1>4, <4>2, <5>1 DEF Wanted, Declared, In
          <5> QED BY <1>14, <3>2, <3>3, <5>1, <5>2 DEF Closed
        <4> QED BY <4>1, <4>2
      <3> QED BY <1>4, <3>2, <3>4
    <2>3. \A n \in Name : st2.deps[n] \subseteq In(st2)
      BY <1>4, <1>11, <1>13
    <2>4. ASSUME NEW n \in In(st2) PROVE st2.deps[n] \subseteq Targets(Declared(st2, n))
      <3>1. CASE n = r.name
        BY <1>2, <1>4, <1>5, <1>11, <1>13, <3>1
      <3>2. CASE n # r.name
        BY <1>1, <1>4, <1>6, <1>11, <1>13, <1>14, <3>2
      <3> QED BY <3>1, <3>2
    <2>5. \A n \in Name \ In(st2) : st2.deps[n] = {}
      BY <1>1, <1>2, <1>4, <1>11, <1>13
    <2>6. ASSUME NEW S \in (SUBSET Name) \ {{}} PROVE \E n \in S : st2.deps[n] \intersect S = {}
      <3>1. CASE r.name \in S
        BY <1>2, <1>4, <1>5, <1>11, <1>13, <3>1
      <3>2. CASE r.name \notin S
        <4>1. PICK n \in S : st.deps[n] \intersect S = {}
          BY <1>13
        <4> QED BY <1>11, <3>2, <4>1
      <3> QED BY <3>1, <3>2
    <2> QED BY <2>1, <2>2, <2>3, <2>4, <2>5, <2>6 DEF NodesSound
  <1>16. ASSUME NEW q, NEW i \in DOMAIN ms, Child(q, ms[i], r.name, anc)
         PROVE  RequestSound(st2, q)
    <2>1. /\ q.name = ms[i].name /\ q.ok = ms[i].ok /\ q.parent = r.name
          /\ q.ancestors = r.ancestors \union {r.name} /\ ms[i] \in Dependency
      BY <1>7, <1>16 DEF Child
    <2>2. Declared(st2, q.parent)[i] = [name |-> q.name, ok |-> q.ok]
      BY <1>6, <2>1 DEF Dependency
    <2>3. ASSUME NEW n \in q.ancestors \ {q.parent}
          PROVE  Targets(Declared(st2, n)) \intersect q.ancestors # {}
      <3>1. n \in r.ancestors /\ n \in In(st) /\ Declared(st2, n) = Declared(st, n)
        BY <1>5, <1>6, <2>1
      <3>2. CASE n = r.parent
        BY <1>14, <2>1, <3>1, <3>2
      <3>3. CASE n # r.parent
        BY <1>1, <2>1, <3>1, <3>3 DEF RequestSound
      <3> QED BY <3>2, <3>3
    <2>4. ASSUME NEW n \in Name, st2.deps[n] \intersect q.ancestors # {} PROVE n \in q.ancestors
      <3>1. CASE n = r.parent
        BY <1>1, <1>2, <2>1, <3>1 DEF RequestSound
      <3>2. CASE n # r.parent
        <4>1. st.deps[n] \intersect r.ancestors # {}
          BY <1>4, <1>11, <1>13, <2>1, <2>4, <3>2
        <4> QED BY <1>1, <2>1, <4>1 DEF RequestSound
      <3> QED BY <3>1, <3>2
    <2> QED BY <1>2, <1>4, <1>5, <1>6, <2>1, <2>2, <2>3, <2>4 DEF RequestSound
  <1>17. ASSUME NEW j \in DOMAIN st.pending \ {1}
         PROVE  /\ RequestSound(st2, st.pending[j])
                /\ st.pending[j].ancestors \subseteq r.ancestors
    <2> DEFINE q == st.pending[j]
    <2>1. RequestSound(st, q) /\ q.ancestors \subseteq r.ancestors
      BY <1>1, TailFacts DEF Sound, PendingSound
    <2> HIDE DEF q
    <2>2. q.ancestors \subseteq In(st) /\ q.parent \in In(st) \union {None}
      BY <2>1 DEF RequestSound
    <2>3. \A n \in Name : st2.deps[n] \intersect q.ancestors # {} => n \in q.ancestors
      <3>1. \A n \in Name : st.deps[n] \intersect q.ancestors # {} => n \in q.ancestors
        BY <2>1 DEF RequestSound
      <3> QED BY <1>4, <1>11, <2>2, <3>1
    <2>4. \A n \in q.ancestors \ {q.parent} : Targets(Declared(st2, n)) \intersect q.ancestors # {}
      BY <1>6, <2>1, <2>2 DEF RequestSound
    <2>5. RequestSound(st2, q)
      BY <1>4, <1>6, <2>1, <2>2, <2>3, <2>4 DEF RequestSound
    <2> QED BY <2>1, <2>5 DEF q
  <1>18. PendingSound(st2)
    <2>1. ASSUME NEW i \in DOMAIN st2.pending PROVE RequestSound(st2, st2.pending[i])
      BY <1>9, <1>16, <1>17
    <2>2. ASSUME NEW i \in DOMAIN st2.pending, NEW k \in DOMAIN st2.pending, i < k
          PROVE  st2.pending[k].ancestors \subseteq st2.pending[i].ancestors
      <3>1. \A j1, j2 \in DOMAIN st.pending :
              j1 < j2 => st.pending[j2].ancestors \subseteq st.pending[j1].ancestors
        BY DEF Sound, PendingSound
      <3>2. \/ st2.pending[i].ancestors = anc /\ st2.pending[k].ancestors = anc
            \/ /\ st2.pending[i].ancestors = anc
               /\ \E j \in DOMAIN st.pending \ {1} : st2.pending[k] = st.pending[j]
            \/ \E j1, j2 \in DOMAIN st.pending :
                 j1 < j2 /\ st2.pending[i] = st.pending[j1] /\ st2.pending[k] = st.pending[j2]
        BY <1>8, <2>2 DEF Prepended
      <3> QED BY <1>17, <3>1, <3>2
    <2> QED BY <2>1, <2>2 DEF PendingSound
  <1>19. NothingForgotten(st2)
    <2>1. ASSUME NEW i \in DOMAIN ms PROVE MetOrPending(st2, r.name, ms[i])
      BY <1>10 DEF MetOrPending, Child
    <2>2. ASSUME NEW p \in In(st) \union {None}, NEW k \in DOMAIN Declared(st, p)
          PROVE  MetOrPending(st2, p, Declared(st, p)[k])
      <3> DEFINE d == Declared(st, p)[k]
      <3>0. MetOrPending(st, p, d)
        BY DEF Sound, NothingForgotten
      <3>1. d.name \in Name /\ d.ok \in SUBSET Version
        BY DeclaredType, TargetsType
      <3> SUFFICES MetOrPending(st2, p, d)
        OBVIOUS
      <3> HIDE DEF d
      <3>2. CASE st.nodes[d.name] \in d.ok /\ (p # None => d.name \in st.deps[p])
        <4>1. d.name # r.name
          BY <1>2, <3>1, <3>2
        <4> QED BY <1>1, <1>3, <1>11, <3>1, <3>2, <4>1 DEF MetOrPending
      <3>3. CASE \E j \in DOMAIN st.pending : /\ st.pending[j].parent = p
                                              /\ st.pending[j].name = d.name
                                              /\ st.pending[j].ok = d.ok
        <4>1. PICK j \in DOMAIN st.pending : /\ st.pending[j].parent = p
                                             /\ st.pending[j].name = d.name
                                             /\ st.pending[j].ok = d.ok
          BY <3>3
        <4>2. CASE j = 1
          <5>1. p = r.parent /\ d.name = r.name /\ d.ok = r.ok
            BY <1>1, <4>1, <4>2
          <5> QED BY <1>2, <1>3, <1>11, <5>1 DEF MetOrPending
        <4>3. CASE j # 1
          <5>1. PICK i \in DOMAIN st2.pending : st2.pending[i] = st.pending[j]
            BY <1>10, <4>3
          <5> QED BY <4>1, <5>1 DEF MetOrPending
        <4> QED BY <4>2, <4>3
      <3> QED BY <3>0, <3>2, <3>3 DEF MetOrPending
    <2> QED BY <1>4, <1>6, <2>1, <2>2 DEF NothingForgotten
  <1> QED BY <1>12, <1>15, <1>18, <1>19 DEF Sound

\* The empty graph with the root's requests, with which Resolve starts, is sound.
LEMMA StartSound ==
    ASSUME TypeOK, NEW st, st.pending = Requests(world.root, None, {}),
           st.nodes = Unset, st.deps = NoDeps
    PROVE  Typed(st) /\ Sound(st)
  <1>1. In(st) = {} /\ None \notin Name
    BY PackageAssumption DEF In, Unset, None
  <1>2. world.root \in Seq(Dependency)
    BY WorldType
  <1> DEFINE ds == world.root
  <1> HIDE DEF ds
  <1>3. /\ ds \in Seq(Dependency) /\ DOMAIN ds = 1 .. Len(ds) /\ Len(ds) \in Nat
        /\ Declared(st, None) = ds
    BY <1>2, TargetsType DEF ds, Declared
  <1>4. /\ st.pending \in Seq(Request) /\ DOMAIN st.pending = DOMAIN ds
        /\ \A i \in DOMAIN ds : Child(st.pending[i], ds[i], None, {})
    <2>1. /\ st.pending \in Seq(Request) /\ Len(st.pending) = Len(ds)
          /\ \A i \in 1 .. Len(ds) : Child(st.pending[i], ds[i], None, {})
      <3>1. st.pending = Requests(ds, None, {}) /\ {} \in SUBSET Name /\ None \in Name \union {None}
        BY DEF ds
      <3>2. /\ Requests(ds, None, {}) \in Seq(Request) /\ Len(Requests(ds, None, {})) = Len(ds)
            /\ \A i \in 1 .. Len(ds) : Child(Requests(ds, None, {})[i], ds[i], None, {})
        BY <1>3, <3>1, RequestsFacts, Zenon
      <3> QED BY <3>1, <3>2, Zenon
    <2> QED BY <1>3, <2>1
  <1>5. Typed(st)
    BY <1>4 DEF Typed, Unset, NoDeps, Assignment
  <1>6. NodesSound(st)
    BY <1>1 DEF NodesSound, NoDeps
  <1>7. PendingSound(st)
    <2>1. ASSUME NEW i \in DOMAIN ds PROVE RequestSound(st, st.pending[i])
      <3>1. /\ st.pending[i].name = ds[i].name /\ st.pending[i].ok = ds[i].ok
            /\ st.pending[i].parent = None /\ st.pending[i].ancestors = {} /\ ds[i] \in Dependency
        BY <1>3, <1>4 DEF Child
      <3>2. ds[i] = [name |-> st.pending[i].name, ok |-> st.pending[i].ok]
        BY <3>1 DEF Dependency
      <3> QED BY <1>3, <3>1, <3>2 DEF RequestSound
    <2>2. \A i, j \in DOMAIN st.pending : st.pending[j].ancestors \subseteq st.pending[i].ancestors
      BY <1>4 DEF Child
    <2> QED BY <1>4, <2>1, <2>2 DEF PendingSound
  <1>8. NothingForgotten(st)
    BY <1>1, <1>3, <1>4 DEF NothingForgotten, MetOrPending, Child
  <1> QED BY <1>5, <1>6, <1>7, <1>8 DEF Sound

\* When nothing is pending every dependency of the root and of each node is in
\* the graph and fits, and the edges are the dependencies.
LEMMA FinalGraph ==
    ASSUME TypeOK, NEW st, Typed(st), Sound(st), st.pending = << >>
    PROVE  /\ \A p \in In(st) \union {None} : \A i \in DOMAIN Declared(st, p) :
                /\ st.nodes[Declared(st, p)[i].name] \in Declared(st, p)[i].ok
                /\ Declared(st, p)[i].name \in In(st)
                /\ p # None => Declared(st, p)[i].name \in st.deps[p]
           /\ \A a \in Assignment : Extends(a, st.nodes) => Closed(In(st), a)
           /\ \A n \in In(st) : st.deps[n] = Targets(Declared(st, n))
  <1>1. ASSUME NEW p \in In(st) \union {None}, NEW i \in DOMAIN Declared(st, p)
        PROVE  LET d == Declared(st, p)[i]
               IN st.nodes[d.name] \in d.ok /\ d.name \in In(st) /\ (p # None => d.name \in st.deps[p])
    <2> DEFINE d == Declared(st, p)[i]
    <2>1. MetOrPending(st, p, d)
      BY DEF Sound, NothingForgotten
    <2>2. d.name \in Name /\ d.ok \subseteq Version /\ None \notin Version
      BY DeclaredType, TargetsType, PackageAssumption DEF None
    <2> HIDE DEF d
    <2>3. st.nodes[d.name] \in d.ok /\ d.name \in In(st) /\ (p # None => d.name \in st.deps[p])
      BY <2>1, <2>2 DEF MetOrPending, In
    <2> QED BY <2>3 DEF d
  <1>2. ASSUME NEW a \in Assignment, Extends(a, st.nodes) PROVE Closed(In(st), a)
    <2>1. Targets(world.root) \subseteq In(st)
      BY <1>1 DEF Targets, Declared
    <2>2. ASSUME NEW n \in In(st) PROVE Targets(Wanted(n, a)) \subseteq In(st)
      <3>1. Wanted(n, a) = Declared(st, n)
        BY <1>2, PackageAssumption DEF Wanted, Declared, In, Extends, None
      <3> QED BY <1>1, <3>1 DEF Targets
    <2> QED BY <2>1, <2>2 DEF Closed
  <1>3. ASSUME NEW n \in In(st) PROVE st.deps[n] = Targets(Declared(st, n))
    <2>1. st.deps[n] \subseteq Targets(Declared(st, n)) /\ n # None
      BY PackageAssumption DEF Sound, NodesSound, In, None
    <2> QED BY <1>1, <2>1 DEF Targets
  <1> QED BY <1>1, <1>2, <1>3

\* A sound graph with nothing pending is a solution and has no other nodes than
\* those needed.
LEMMA FinalSolution ==
    ASSUME TypeOK, NEW st, Typed(st), Sound(st), st.pending = << >>
    PROVE  /\ Solution(st.nodes)
           /\ In(st) = Needed(st.nodes)
           /\ \A n \in Needed(st.nodes) : st.deps[n] = Targets(Wanted(n, st.nodes))
           /\ st.nodes = Only(st.nodes, Needed(st.nodes))
  <1>1. st.nodes \in Assignment /\ Extends(st.nodes, st.nodes) /\ In(st) \in SUBSET Name
    BY DEF Typed, Extends, In
  <1>2. In(st) = Needed(st.nodes)
    <2>1. Closed(In(st), st.nodes)
      BY <1>1, FinalGraph
    <2>2. In(st) \subseteq Needed(st.nodes)
      BY DEF Sound, NodesSound
    <2> QED BY <1>1, <2>1, <2>2 DEF Needed
  <1>3. \A n \in In(st) : Wanted(n, st.nodes) = Declared(st, n)
    BY PackageAssumption DEF Wanted, Declared, In, None
  <1>4. \A n \in In(st) : st.deps[n] = Targets(Wanted(n, st.nodes))
    BY <1>3, FinalGraph
  <1>5. Solution(st.nodes)
    <2>1. Fits(world.root, st.nodes)
      BY FinalGraph DEF Fits, Declared
    <2>2. \A n \in In(st) : st.nodes[n] # None /\ <<n, st.nodes[n]>> \in offered
      BY DEF In, Sound, NodesSound
    <2>3. \A n \in In(st) : Fits(Wanted(n, st.nodes), st.nodes)
      BY <1>3, FinalGraph DEF Fits
    <2>4. ASSUME NEW S \in (SUBSET In(st)) \ {{}}
          PROVE  ~\A n \in S : Targets(Wanted(n, st.nodes)) \intersect S # {}
      <3>1. S \in (SUBSET Name) \ {{}}
        BY <1>1
      <3>2. PICK n \in S : st.deps[n] \intersect S = {}
        BY <3>1 DEF Sound, NodesSound
      <3> QED BY <1>4, <3>2
    <2> QED BY <1>2, <2>1, <2>2, <2>3, <2>4 DEF Solution
  <1>6. st.nodes = Only(st.nodes, Needed(st.nodes))
    <2>1. \A n \in Name : st.nodes[n] = Only(st.nodes, Needed(st.nodes))[n]
      BY <1>2 DEF Only, In
    <2> QED BY <1>1, <2>1 DEF Only, Assignment
  <1> QED BY <1>2, <1>4, <1>5, <1>6

\* If it also agrees with an assignment, such as the lock, it is that
\* assignment's needed part.
LEMMA FinalPins ==
    ASSUME TypeOK, NEW st, Typed(st), Sound(st), st.pending = << >>,
           NEW a \in Assignment, Extends(a, st.nodes)
    PROVE  st.nodes = Only(a, Needed(a))
  <1>1. In(st) \in SUBSET Name /\ st.nodes \in Assignment
    BY DEF In, Typed
  <1>2. In(st) = Needed(a)
    <2>1. Closed(In(st), a)
      BY FinalGraph
    <2>2. In(st) \subseteq Needed(a)
      BY <1>1, NeededMono DEF Sound, NodesSound
    <2> QED BY <1>1, <2>1, <2>2 DEF Needed
  <1>3. \A n \in Name : st.nodes[n] = Only(a, Needed(a))[n]
    BY <1>2 DEF Only, In, Extends
  <1> QED BY <1>1, <1>3 DEF Only, Assignment

\* The graph being built has its types.
LEMMA CurrentTyped ==
    ASSUME TypeOK
    PROVE  Typed(Current)
  BY DEF TypeOK, Typed, Current

\* So has every copy that is kept.
LEMMA ChoiceTyped ==
    ASSUME TypeOK, NEW i \in DOMAIN choices
    PROVE  choices[i] \in Choice /\ Typed(choices[i])
  <1>1. choices[i] \in Choice
    BY DEF TypeOK
  <1> QED BY <1>1 DEF Choice, Typed

\* The innermost call of solve with candidates is the last one.
LEMMA ChoicesFacts ==
    ASSUME TypeOK, choices # << >>
    PROVE  /\ Len(choices) \in Nat \ {0} /\ DOMAIN choices = 1 .. Len(choices)
           /\ Len(choices) \in DOMAIN choices /\ Innermost = choices[Len(choices)]
  BY DEF TypeOK, Innermost

\* Every assignment extends the empty graph.
LEMMA EmptyExtends ==
    ASSUME NEW a
    PROVE  Extends(a, Unset)
  BY DEF Extends, Unset

\* A command that starts to resolve establishes the invariant for its search.
LEMMA StartInv ==
    ASSUME IInv, at = "idle", NEW l \in Assignment, StartResolve(l),
           UNCHANGED <<world, offered>>, lock' \in Assignment
    PROVE  IInv'
  <1>1. Typed(Later) /\ Sound(Later)
    <2>1. Later.pending = Requests(world.root, None, {}) /\ Later.nodes = Unset /\ Later.deps = NoDeps
      BY DEF StartResolve, Later
    <2> QED BY <2>1, StartSound DEF IInv
  <1>2. TypeOK'
    BY <1>1 DEF IInv, TypeOK, StartResolve, Typed, Later
  <1>3. Sound(Current)'
    BY <1>1, SoundFrame
  <1>4. KeptSound'
    BY DEF KeptSound, StartResolve
  <1>5. Complete'
    BY EmptyExtends DEF Complete, PassedOver, StartResolve, Extends, Unset
  <1>6. PinsFollowed'
    BY DEF PinsFollowed, StartResolve, Extends, Unset
  <1> QED BY <1>2, <1>3, <1>4, <1>5, <1>6 DEF IInv, StartResolve

\* A command that returns leaves no search behind.
LEMMA EndInv ==
    ASSUME IInv, NEW r, End(r), UNCHANGED <<world, offered>>, lock' \in Assignment
    PROVE  IInv'
  <1>1. TypeOK'
    BY DEF IInv, TypeOK, End, Unset, NoDeps, Assignment
  <1> QED BY <1>1 DEF IInv, End, KeptSound, Complete, PinsFollowed

\* The index changes only between commands, when there is no search.
LEMMA RegistryInv ==
    ASSUME IInv, RegistryChanges
    PROVE  IInv'
  <1>1. at = "idle" /\ choices = << >>
    BY DEF RegistryChanges, IInv, TypeOK
  <1>2. TypeOK'
    BY DEF IInv, TypeOK, RegistryChanges, searchVars, commandVars, diskVars
  <1> QED BY <1>1, <1>2 DEF IInv, KeptSound, Complete, PinsFollowed, RegistryChanges, searchVars, commandVars

\* The invariant is kept when a request is answered by the graph.
LEMMA ReuseInv ==
    ASSUME IInv, Reuse
    PROVE  IInv'
  <1>1. /\ at = "look" /\ pending # << >> /\ Req.name \notin Req.ancestors /\ nodes[Req.name] \in Req.ok
        /\ UNCHANGED <<world, offered, at, lock, pins, nodes, choices, lost>>
    BY DEF Reuse, Cyclic, Compatible, commandVars, diskVars
  <1>2. Typed(Later) /\ Sound(Later)
    <2>1. /\ TypeOK /\ Typed(Current) /\ Sound(Current) /\ Current.pending # << >>
          /\ Req = Head(Current.pending) /\ Current.nodes[Req.name] \in Req.ok
      BY <1>1, CurrentTyped DEF IInv, Current, Req
    <2>2. /\ Later.nodes = Current.nodes /\ Later.pending = Tail(Current.pending)
          /\ Later.deps = Answered(Current, Req)
      BY <1>1 DEF Later, Current, Answered, Reuse, AddDepEdge
    <2> QED BY <1>1, <2>1, <2>2, ReuseSound
  <1>3. TypeOK'
    BY <1>1, <1>2 DEF IInv, TypeOK, Typed, Later
  <1>4. Sound(Current)'
    BY <1>1, <1>2, SoundFrame
  <1>5. KeptSound'
    BY <1>1, KeptFrame DEF IInv, KeptSound
  <1>6. Complete'
    BY <1>1, SolutionFrame DEF IInv, Complete, PassedOver, LeadsTo, Extends
  <1>7. PinsFollowed'
    BY <1>1, PinsFrame DEF IInv, PinsFollowed, Extends
  <1> QED BY <1>1, <1>3, <1>4, <1>5, <1>6, <1>7 DEF IInv

\* While a solution extends the graph solve cannot return an error.
LEMMA OnlyWayOn ==
    ASSUME IInv, at = "look", pending # << >>, NEW a \in Assignment, Solution(a), Extends(a, nodes)
    PROVE  ~Cyclic /\ a[Req.name] \in Matching /\ (nodes[Req.name] # None => Compatible)
  <1>1. /\ TypeOK /\ Typed(Current) /\ Sound(Current) /\ Current.pending # << >>
        /\ Req = Head(Current.pending) /\ Extends(a, Current.nodes)
    BY CurrentTyped DEF IInv, Current, Req
  <1>2. Req.name \notin Req.ancestors /\ a[Req.name] \in Req.ok /\ <<Req.name, a[Req.name]>> \in offered
    BY <1>1, Answerable
  <1>3. Req.name \in Name
    BY <1>1, HeadSound DEF Request
  <1> QED BY <1>2, <1>3 DEF Cyclic, Matching, Compatible, Extends

\* The invariant is kept when solve returns an error: no solution is lost by it.
LEMMA RejectInv ==
    ASSUME IInv, Reject
    PROVE  IInv'
  <1>1. /\ at = "look" /\ at' = "try" /\ pending # << >>
        /\ UNCHANGED <<world, offered, lock, pins, pending, nodes, deps, choices, lost>>
    BY DEF Reject, searchVars, commandVars, diskVars
  <1>2. ASSUME NEW a \in Assignment, Solution(a), Extends(a, nodes) PROVE FALSE
    BY <1>1, <1>2, OnlyWayOn DEF Reject
  <1>3. TypeOK'
    BY <1>1 DEF IInv, TypeOK
  <1>4. Sound(Current)'
    BY <1>1, SoundFrame DEF IInv, Current, Later
  <1>5. KeptSound'
    BY <1>1, KeptFrame DEF IInv, KeptSound
  <1>6. Complete'
    BY <1>1, <1>2, SolutionFrame DEF IInv, Complete, PassedOver, LeadsTo, Extends
  <1>7. PinsFollowed'
    BY <1>1, <1>2, PinsFrame DEF IInv, PinsFollowed, TypeOK
  <1> QED BY <1>1, <1>3, <1>4, <1>5, <1>6, <1>7 DEF IInv

\* The invariant is kept when the candidates of a new name are listed.
LEMMA OpenInv ==
    ASSUME IInv, Open
    PROVE  IInv'
  <1> DEFINE c == [pending |-> pending, nodes |-> nodes, deps |-> deps, left |-> Matching]
  <1>1. /\ at = "look" /\ at' = "try" /\ pending # << >> /\ nodes[Req.name] = None
        /\ choices' = Append(choices, c) /\ ~Cyclic
        /\ UNCHANGED <<world, offered, lock, pins, pending, nodes, deps, lost>>
    BY DEF Open, commandVars, diskVars
  <1>2. Matching \in SUBSET Version
    <2>1. Req \in Request
      BY <1>1 DEF IInv, TypeOK, Req
    <2> QED BY <2>1 DEF Matching, Request
  <1>3. c \in Choice
    BY <1>2 DEF Choice, IInv, TypeOK
  <1>4. /\ choices \in Seq(Choice) /\ choices' \in Seq(Choice) /\ choices' # << >>
        /\ Len(choices) \in Nat /\ DOMAIN choices = 1 .. Len(choices)
        /\ DOMAIN choices' = 1 .. Len(choices) + 1 /\ Len(choices') = Len(choices) + 1
        /\ choices'[Len(choices) + 1] = c
        /\ \A i \in DOMAIN choices : i \in DOMAIN choices' /\ choices'[i] = choices[i]
    <2> HIDE DEF c
    <2> QED BY <1>1, <1>3 DEF IInv, TypeOK
  <1>5. TypeOK'
    BY <1>1, <1>4 DEF IInv, TypeOK
  <1>6. Sound(Current)'
    BY <1>1, SoundFrame DEF IInv, Current, Later
  <1>7. KeptSound'
    <2>1. Sound(c)
      BY <1>1, SameGraph DEF IInv, Current
    <2>2. ChoiceSound(c)
      BY <1>1 DEF ChoiceSound, Matching, Req
    <2> HIDE DEF c
    <2> SUFFICES ASSUME NEW i \in DOMAIN choices'
                 PROVE  Sound(choices'[i]) /\ ChoiceSound(choices'[i])
      BY <1>1, KeptFrame
    <2>3. i \in DOMAIN choices \/ i = Len(choices) + 1
      BY <1>4
    <2> QED BY <1>4, <2>1, <2>2, <2>3 DEF IInv, KeptSound
  <1>8. ASSUME NEW a \in Assignment, Solution(a), Extends(a, nodes) PROVE LeadsTo(c, a)
    <2>1. a[Req.name] \in Matching
      BY <1>1, <1>8, OnlyWayOn
    <2> QED BY <1>8, <2>1 DEF LeadsTo, Req
  <1>9. Complete'
    <2> HIDE DEF c
    <2> SUFFICES ASSUME lost = 0, NEW a \in Assignment, Solution(a),
                        \A i \in DOMAIN choices' : ~LeadsTo(choices'[i], a)
                 PROVE  FALSE
      BY <1>1, SolutionFrame DEF Complete, PassedOver, LeadsTo, Extends
    <2>1. \A i \in DOMAIN choices : ~LeadsTo(choices[i], a)
      BY <1>4
    <2>2. Extends(a, nodes)
      BY <1>1, <2>1 DEF IInv, Complete, PassedOver
    <2>3. LeadsTo(choices'[Len(choices) + 1], a)
      BY <1>4, <1>8, <2>2
    <2> QED BY <1>4, <2>3
  <1>10. PinsFollowed'
    <2> HIDE DEF c
    <2>1. Innermost' = c
      BY <1>4 DEF Innermost
    <2> SUFFICES ASSUME lost = 0, Solution(pins) PROVE LeadsTo(c, pins)
      BY <1>1, <1>4, <2>1, PinsFrame DEF PinsFollowed, LeadsTo, Extends
    <2> QED BY <1>1, <1>8 DEF IInv, PinsFollowed, TypeOK
  <1> QED BY <1>1, <1>5, <1>6, <1>7, <1>9, <1>10 DEF IInv

\* The candidates that are left after the first one of the innermost call.
LEMMA OthersFacts ==
    ASSUME IInv, choices # << >>, Innermost.left # {}
    PROVE  /\ FirstOf(Innermost.left) \in Innermost.left
           /\ OthersLeft \in Seq(Choice) /\ DOMAIN OthersLeft = DOMAIN choices
           /\ \A i \in DOMAIN choices : i # Len(choices) => OthersLeft[i] = choices[i]
           /\ OthersLeft[Len(choices)].pending = Innermost.pending
           /\ OthersLeft[Len(choices)].nodes = Innermost.nodes
           /\ OthersLeft[Len(choices)].deps = Innermost.deps
           /\ OthersLeft[Len(choices)].left = Innermost.left \ {FirstOf(Innermost.left)}
           /\ \A i \in DOMAIN choices : Sound(OthersLeft[i]) /\ ChoiceSound(OthersLeft[i])
  <1> DEFINE k == Len(choices)
             v == FirstOf(Innermost.left)
             c == [choices[k] EXCEPT !.left = @ \ {v}]
  <1>1. /\ k \in Nat \ {0} /\ DOMAIN choices = 1 .. k /\ k \in DOMAIN choices
        /\ Innermost = choices[k] /\ Innermost \in Choice
    BY ChoicesFacts, ChoiceTyped DEF IInv
  <1>2. v \in Innermost.left
    BY <1>1, FirstIn DEF Choice
  <1> HIDE DEF v
  <1>3. /\ c \in Choice /\ c.pending = Innermost.pending /\ c.nodes = Innermost.nodes
        /\ c.deps = Innermost.deps /\ c.left = Innermost.left \ {v}
    BY <1>1 DEF Choice
  <1>4. OthersLeft = [choices EXCEPT ![k] = c]
    BY <1>1 DEF OthersLeft, v
  <1> HIDE DEF c
  <1>5. /\ OthersLeft \in Seq(Choice) /\ DOMAIN OthersLeft = DOMAIN choices
        /\ \A i \in DOMAIN choices : i # k => OthersLeft[i] = choices[i]
        /\ OthersLeft[k] = c
    BY <1>1, <1>3, <1>4 DEF IInv, TypeOK
  <1>6. Sound(c) /\ ChoiceSound(c)
    <2>1. Sound(Innermost) /\ ChoiceSound(Innermost)
      BY <1>1 DEF IInv, KeptSound
    <2>2. Sound(c)
      BY <1>3, <2>1, SameGraph
    <2>3. ChoiceSound(c)
      BY <1>3, <2>1 DEF ChoiceSound
    <2> QED BY <2>2, <2>3
  <1>7. \A i \in DOMAIN choices : Sound(OthersLeft[i]) /\ ChoiceSound(OthersLeft[i])
    BY <1>5, <1>6 DEF IInv, KeptSound
  <1> QED BY <1>2, <1>3, <1>5, <1>7 DEF v

\* The invariant is kept when the next candidate is fetched: a solution it came
\* from extends the new graph or is among the candidates left.
LEMMA FetchInv ==
    ASSUME IInv, Fetch
    PROVE  IInv'
  <1> DEFINE k == Len(choices)
             v == FirstOf(Innermost.left)
             r == Head(Innermost.pending)
  <1>1. /\ at = "try" /\ at' = "look" /\ choices # << >> /\ Innermost.left # {}
        /\ choices' = OthersLeft
        /\ UNCHANGED <<world, offered, lock, pins, lost>>
    BY DEF Fetch, commandVars, diskVars
  <1>2. /\ k \in DOMAIN choices /\ Innermost = choices[k] /\ TypeOK
        /\ Typed(Innermost) /\ Sound(Innermost) /\ ChoiceSound(Innermost) /\ Innermost \in Choice
    BY <1>1, ChoicesFacts, ChoiceTyped DEF IInv, KeptSound
  <1>3. v \in Innermost.left /\ v \in Version
    BY <1>1, <1>2, OthersFacts DEF Choice
  <1>4. Fetched(Innermost, r, v, Later)
    BY DEF Fetch, Later, Answered, Fetched
  <1> HIDE DEF v
  <1>5. /\ Innermost.pending # << >> /\ Innermost.nodes[r.name] = None
        /\ v \in r.ok /\ <<r.name, v>> \in offered
    BY <1>2, <1>3 DEF ChoiceSound
  <1>6. r \in Request /\ r.name \in Name /\ r.name \notin r.ancestors
    <2>1. r \in Request /\ RequestSound(Innermost, r)
      BY <1>2, <1>5, HeadSound
    <2> QED BY <1>5, <2>1 DEF RequestSound, In, Request
  <1> HIDE DEF r
  <1>7. Typed(Later) /\ Sound(Later)
    <2>1. r = Head(Innermost.pending)
      BY DEF r
    <2> QED BY <1>2, <1>3, <1>4, <1>5, <1>6, <2>1, FetchSound
  <1>8. TypeOK'
    BY <1>1, <1>2, <1>7, OthersFacts DEF TypeOK, Typed, Later
  <1>9. Sound(Current)'
    BY <1>1, <1>7, SoundFrame
  <1>10. KeptSound'
    BY <1>1, KeptFrame, OthersFacts
  <1>11. ASSUME NEW a \in Assignment, Extends(a, Innermost.nodes), a[r.name] = v
         PROVE  Extends(a, nodes')
    <2>1. nodes' = [Innermost.nodes EXCEPT ![r.name] = v] /\ Innermost.nodes \in Assignment
      BY <1>2, <1>4 DEF Later, Typed, Fetched
    <2> QED BY <1>6, <1>11, <2>1 DEF Extends, Assignment
  <1>12. Complete'
    <2> SUFFICES ASSUME lost = 0, NEW a \in Assignment, Solution(a),
                        ~Extends(a, nodes'),
                        \A i \in DOMAIN choices' : ~LeadsTo(choices'[i], a)
                 PROVE  FALSE
      BY <1>1, SolutionFrame DEF Complete, PassedOver, LeadsTo, Extends
    <2>1. PICK i \in DOMAIN choices : LeadsTo(choices[i], a)
      BY <1>1 DEF IInv, Complete, PassedOver
    <2>2. i = k
      BY <1>1, <2>1, OthersFacts
    <2>3. Extends(a, Innermost.nodes) /\ a[r.name] \in Innermost.left
      BY <1>2, <2>1, <2>2 DEF LeadsTo, r
    <2>4. a[r.name] # v
      BY <1>11, <2>3
    <2>5. LeadsTo(choices'[k], a)
      BY <1>1, <2>3, <2>4, OthersFacts DEF LeadsTo, r, v
    <2> QED BY <1>1, <1>2, <2>5, OthersFacts
  <1>13. PinsFollowed'
    <2> SUFFICES ASSUME lost = 0, Solution(pins) PROVE Extends(pins, nodes')
      BY <1>1, PinsFrame DEF PinsFollowed, Extends
    <2>1. LeadsTo(Innermost, pins) /\ pins \in Assignment
      BY <1>1 DEF IInv, PinsFollowed, TypeOK
    <2>2. v = pins[r.name]
      BY <2>1 DEF LeadsTo, FirstOf, v, r
    <2> QED BY <1>11, <2>1, <2>2 DEF LeadsTo
  <1> QED BY <1>1, <1>8, <1>9, <1>10, <1>12, <1>13 DEF IInv

\* The invariant is kept when a fetch fails; then it promises no solution.
LEMMA FetchFailsInv ==
    ASSUME IInv, FetchFails
    PROVE  IInv'
  <1>1. /\ at = "try" /\ choices # << >> /\ Innermost.left # {}
        /\ choices' = OthersLeft /\ lost' = lost + 1
        /\ UNCHANGED <<world, offered, lock, at, pins, pending, nodes, deps>>
    BY DEF FetchFails, commandVars, diskVars
  <1>2. TypeOK' /\ lost' # 0
    BY <1>1, OthersFacts DEF IInv, TypeOK
  <1>3. Sound(Current)'
    BY <1>1, SoundFrame DEF IInv, Current, Later
  <1>4. KeptSound'
    BY <1>1, KeptFrame, OthersFacts
  <1> QED BY <1>1, <1>2, <1>3, <1>4 DEF IInv, Complete, PinsFollowed

\* The invariant is kept when a call of solve has no candidate left.
LEMMA ExhaustedInv ==
    ASSUME IInv, Exhausted
    PROVE  IInv'
  <1> DEFINE k == Len(choices)
  <1>1. /\ at = "try" /\ choices # << >> /\ Innermost.left = {}
        /\ choices' = SubSeq(choices, 1, k - 1)
        /\ UNCHANGED <<world, offered, lock, at, pins, pending, nodes, deps, lost>>
    BY DEF Exhausted, BackToCaller, commandVars, diskVars
  <1>2. /\ k \in Nat \ {0} /\ DOMAIN choices = 1 .. k /\ Innermost = choices[k]
        /\ choices \in Seq(Choice)
    BY <1>1, ChoicesFacts DEF IInv, TypeOK
  <1>3. /\ choices' \in Seq(Choice) /\ DOMAIN choices' = 1 .. k - 1
        /\ \A i \in 1 .. k - 1 : choices'[i] = choices[i] /\ i \in DOMAIN choices
    BY <1>1, <1>2
  <1>4. TypeOK'
    BY <1>1, <1>3 DEF IInv, TypeOK
  <1>5. Sound(Current)'
    BY <1>1, SoundFrame DEF IInv, Current, Later
  <1>6. KeptSound'
    BY <1>1, <1>3, KeptFrame DEF IInv, KeptSound
  <1>7. Complete'
    <2> SUFFICES ASSUME lost = 0, NEW a \in Assignment, Solution(a),
                        \A i \in DOMAIN choices' : ~LeadsTo(choices'[i], a)
                 PROVE  FALSE
      BY <1>1, SolutionFrame DEF Complete, PassedOver, LeadsTo, Extends
    <2>1. PICK i \in DOMAIN choices : LeadsTo(choices[i], a)
      BY <1>1 DEF IInv, Complete, PassedOver
    <2>2. i # k
      BY <1>1, <1>2, <2>1 DEF LeadsTo
    <2> QED BY <1>2, <1>3, <2>1, <2>2
  <1>8. PinsFollowed'
    BY <1>1, PinsFrame DEF IInv, PinsFollowed, LeadsTo
  <1> QED BY <1>1, <1>4, <1>5, <1>6, <1>7, <1>8 DEF IInv

\* The invariant is kept by steps that do not touch the search.
LEMMA SameInv ==
    ASSUME IInv, UNCHANGED <<world, offered, lock, pins, searchVars>>,
           \/ at' = at
           \/ at = "look" /\ at' = "order" /\ pending = << >>
           \/ at = "order" /\ at' = "vendor"
    PROVE  IInv'
  <1>1. UNCHANGED <<world, offered, lock, pins, pending, nodes, deps, choices, lost>>
    BY DEF searchVars
  <1>2. TypeOK'
    BY <1>1 DEF IInv, TypeOK
  <1>3. at' # "idle" => Sound(Current)'
    BY <1>1, SoundFrame DEF IInv, Current, Later
  <1>4. KeptSound'
    BY <1>1, KeptFrame DEF IInv, KeptSound
  <1>5. Complete'
    BY <1>1, SolutionFrame DEF IInv, Complete, PassedOver, LeadsTo, Extends
  <1>6. PinsFollowed'
    BY <1>1, PinsFrame DEF IInv, PinsFollowed, LeadsTo, Extends, Innermost
  <1> QED BY <1>1, <1>2, <1>3, <1>4, <1>5, <1>6 DEF IInv

\* Every step keeps the invariant.
LEMMA PackageStep ==
    ASSUME IInv, [Next]_vars
    PROVE  IInv'
  <1>0. lock \in Assignment /\ nodes \in Assignment
    BY DEF IInv, TypeOK
  <1>1. ASSUME NEW l \in BOOLEAN, Build(l) PROVE IInv'
    BY <1>0, <1>1, StartInv DEF Build, diskVars
  <1>2. ASSUME NEW T, Update(T) PROVE IInv'
    <2>1. lock' \in Assignment
      BY <1>0, <1>2 DEF Update, Assignment
    <2> QED BY <1>2, <2>1, StartInv DEF Update
  <1>3. CASE GiveUp
    BY <1>0, <1>3, EndInv DEF GiveUp, diskVars
  <1>4. CASE CheckLock
    <2>1. CASE End("changed")
      BY <1>0, <1>4, <2>1, EndInv DEF CheckLock, diskVars
    <2>2. CASE ~End("changed")
      BY <1>4, <2>2, SameInv DEF CheckLock, diskVars, commandVars
    <2> QED BY <2>1, <2>2
  <1>5. CASE VendorOne
    BY <1>5, SameInv DEF VendorOne, commandVars
  <1>10. CASE VendorFails
    BY <1>0, <1>10, EndInv DEF VendorFails
  <1>11. CASE LockFails
    <2>1. lock' \in Assignment
      BY <1>0, <1>11 DEF LockFails, Unset, Assignment
    <2> QED BY <1>11, <2>1, EndInv DEF LockFails
  <1>6. CASE Done
    <2>1. lock' \in Assignment
      BY <1>0, <1>6 DEF Done
    <2> QED BY <1>6, <2>1, EndInv DEF Done
  <1>7. CASE UNCHANGED vars
    BY <1>7, SameInv DEF vars, diskVars, commandVars
  <1>8. CASE Solved
    BY <1>8, SameInv DEF Solved, diskVars, commandVars
  <1>9. CASE TopoVisit
    BY <1>9, SameInv DEF TopoVisit, diskVars, commandVars
  <1> QED
    BY <1>1, <1>2, <1>3, <1>4, <1>5, <1>6, <1>7, <1>8, <1>9, <1>10, <1>11, RegistryInv, ReuseInv,
       RejectInv, OpenInv, FetchInv, FetchFailsInv, ExhaustedInv DEF Next, Rest

\* The invariant holds at first.
LEMMA PackageInit ==
    ASSUME Init
    PROVE  IInv
  <1>1. TypeOK
    BY PackageAssumption DEF Init, TypeOK, Unset, NoDeps, Assignment
  <1> QED BY <1>1 DEF Init, IInv, KeptSound, Complete, PinsFollowed

\* The invariant of the search holds at every step of every command, for all
\* manifests and however often commands are run and the index changes.
THEOREM PackageInvariant == Spec => []IInv
  <1>1. Init => IInv
    BY PackageInit
  <1>2. IInv /\ [Next]_vars => IInv'
    BY PackageStep
  <1> QED BY <1>1, <1>2, PTL DEF Spec

\* What is vendored is a sound graph with nothing pending.
LEMMA VendorGraph ==
    ASSUME IInv, at = "vendor"
    PROVE  TypeOK /\ Typed(Current) /\ Sound(Current) /\ Current.pending = << >>
           /\ Current.nodes = nodes /\ Current.deps = deps
  BY CurrentTyped DEF IInv, Current

\* The graph Resolve returns is a solution, has no node that nobody needs, and
\* its edges are the declared dependencies.
THEOREM PackageSolvedIsSolution == Spec => []SolvedIsSolution
  <1>1. IInv => SolvedIsSolution
    BY VendorGraph, FinalSolution DEF SolvedIsSolution
  <1> QED BY <1>1, PackageInvariant, PTL

\* resolver.solve is complete: with no failed fetch it returns an error only if
\* no choice of versions is a solution.
THEOREM PackageUnsolvedMeansNone == Spec => []UnsolvedMeansNone
  <1>1. IInv => UnsolvedMeansNone
    BY DEF IInv, UnsolvedMeansNone, Complete, PassedOver
  <1> QED BY <1>1, PackageInvariant, PTL

\* A lockfile that is still a solution is kept, whatever has been published.
THEOREM PackagePinsKept == Spec => []PinsKept
  <1>1. ASSUME IInv, at = "vendor", lost = 0, Solution(pins)
        PROVE  nodes = Only(pins, Needed(pins))
    <2>1. Extends(pins, nodes) /\ pins \in Assignment
      BY <1>1 DEF IInv, PinsFollowed, TypeOK
    <2> QED BY <1>1, <2>1, VendorGraph, FinalPins
  <1>2. IInv => PinsKept
    BY <1>1 DEF PinsKept
  <1> QED BY <1>2, PackageInvariant, PTL

------------------------------------------------------------------------------
(* The order of the graph, the vendor directory and the lockfile *)

\* The name visited next is one of those left (selfPkgInsertStringSorted).
LEMMA FirstNameIn ==
    ASSUME NEW S \in SUBSET Name, S # {}
    PROVE  FirstName(S) \in S
  <1>1. Name \in SUBSET Nat /\ IsFiniteSet(Name)
    BY PackageAssumption
  <1>2. \E n \in S : \A m \in S : n =< m
    BY <1>1, Bounds
  <1> QED BY <1>2 DEF FirstName

\* Edges lead to nodes of the graph while the order is made.
LEMMA EdgesPresent ==
    ASSUME IInv, at \in {"order", "vendor"}
    PROVE  /\ \A n \in Name : deps[n] \subseteq Present
           /\ Present \subseteq Name
           /\ nodes \in Assignment /\ deps \in [Name -> SUBSET Name]
  BY DEF IInv, TypeOK, Sound, NodesSound, In, Current, Present

\* selfPkgTopoOrder starts with an empty order and every name to visit.
LEMMA SolvedOrder ==
    ASSUME IInv, OrderInv, Solved
    PROVE  OrderInv'
  <1>1. /\ visits' = <<[name |-> None, left |-> Present]>> /\ order' = << >> /\ at' = "order"
        /\ UNCHANGED <<nodes, deps, vendor>>
    BY DEF Solved, searchVars, diskVars
  <1>2. Present' = Present /\ Present \in SUBSET Name
    BY <1>1 DEF Present
  <1>3. visits' \in Seq([name : Name \union {None}, left : SUBSET Name])
    BY <1>1, <1>2
  <1>4. DOMAIN visits' = {1} /\ visits'[1].name = None /\ visits'[1].left = Present
    BY <1>1
  <1>5. \A i \in DOMAIN visits' : VisitSound(i)'
    BY <1>1, <1>2, <1>4 DEF VisitSound
  <1>6. OrderMade'
    BY <1>1, <1>3, <1>5 DEF OrderMade
  <1> QED BY <1>1, <1>6 DEF OrderInv

\* The stack of calls with one name taken from the innermost.
LEMMA TakenFacts ==
    ASSUME OrderMade, visits # << >>, NEW n
    PROVE  LET k == Len(visits)
               rest == [visits EXCEPT ![k].left = @ \ {n}]
           IN /\ k \in Nat \ {0} /\ DOMAIN visits = 1 .. k /\ k \in DOMAIN visits
              /\ rest \in Seq([name : Name \union {None}, left : SUBSET Name])
              /\ Len(rest) = k /\ DOMAIN rest = 1 .. k
              /\ \A i \in 1 .. k - 1 : rest[i] = visits[i]
              /\ rest[k].name = visits[k].name /\ rest[k].left = visits[k].left \ {n}
              /\ visits[k].left \in SUBSET Name
  <1> DEFINE k == Len(visits)
             F == [name : Name \union {None}, left : SUBSET Name]
             f == [visits[k] EXCEPT !.left = @ \ {n}]
  <1>1. k \in Nat \ {0} /\ DOMAIN visits = 1 .. k /\ k \in DOMAIN visits /\ visits \in Seq(F)
    BY DEF OrderMade
  <1> HIDE DEF F
  <1>2. visits[k] \in F
    BY <1>1
  <1>3. /\ f \in F /\ f.name = visits[k].name /\ f.left = visits[k].left \ {n}
        /\ visits[k].left \in SUBSET Name
    BY <1>2 DEF F
  <1>4. [visits EXCEPT ![k].left = @ \ {n}] = [visits EXCEPT ![k] = f]
    BY <1>1
  <1> HIDE DEF f
  <1>5. [visits EXCEPT ![k] = f] \in Seq(F) /\ Len([visits EXCEPT ![k] = f]) = k
    BY <1>1, <1>3
  <1> QED BY <1>1, <1>3, <1>4, <1>5 DEF F

\* A dependency is taken: it is in the order already, or a call for it is made.
LEMMA VisitNext ==
    ASSUME IInv, OrderInv, TopoVisit, Visit.left # {}
    PROVE  OrderMade'
  <1> DEFINE k == Len(visits)
             n == FirstName(Visit.left)
             rest == [visits EXCEPT ![k].left = @ \ {n}]
             F == [name : Name \union {None}, left : SUBSET Name]
  <1>1. /\ at = "order" /\ visits # << >> /\ order' = order /\ UNCHANGED <<nodes, deps>>
        /\ visits' = IF Has(order, n) \/ nodes[n] = None THEN rest ELSE Append(rest, Call(n))
    BY DEF TopoVisit, searchVars
  <1>2. OrderMade /\ order \in Seq(Name)
    BY <1>1 DEF OrderInv
  <1>3. /\ k \in Nat \ {0} /\ DOMAIN visits = 1 .. k /\ k \in DOMAIN visits
        /\ rest \in Seq(F) /\ Len(rest) = k /\ DOMAIN rest = 1 .. k
        /\ \A i \in 1 .. k - 1 : rest[i] = visits[i]
        /\ rest[k].name = visits[k].name /\ rest[k].left = visits[k].left \ {n}
        /\ visits[k].left \in SUBSET Name /\ Visit = visits[k]
    BY <1>1, <1>2, TakenFacts DEF Visit
  <1>4. /\ \A x \in Name : deps[x] \subseteq Present
        /\ Present \subseteq Name /\ deps \in [Name -> SUBSET Name] /\ None \notin Name
    BY <1>1, EdgesPresent, PackageAssumption DEF None
  <1>5. \A i \in 1 .. k : VisitSound(i)
    BY <1>2, <1>3 DEF OrderMade
  <1>6. n \in visits[k].left /\ n \in Present /\ n \in Name /\ nodes[n] # None
    <2>1. n \in Visit.left
      BY <1>3, FirstNameIn
    <2>2. visits[k].left \subseteq Present
      BY <1>3, <1>5 DEF VisitSound
    <2> QED BY <1>3, <1>4, <2>1, <2>2 DEF Present
  <1>7. Present' = Present
    BY <1>1 DEF Present
  <1> HIDE DEF n, rest, F
  <1>8. /\ visits' \in Seq(F) /\ visits' # << >>
        /\ \A i \in 1 .. k - 1 : visits'[i] = visits[i]
        /\ visits'[k].name = visits[k].name /\ visits'[k].left = visits[k].left \ {n}
        /\ \/ DOMAIN visits' = 1 .. k /\ Has(order, n)
           \/ DOMAIN visits' = 1 .. k + 1 /\ visits'[k + 1] = Call(n)
    <2>1. CASE Has(order, n)
      BY <1>1, <1>3, <2>1
    <2>2. CASE ~Has(order, n)
      <3>1. visits' = Append(rest, Call(n)) /\ Call(n) \in F
        BY <1>1, <1>4, <1>6, <2>2 DEF Call, F
      <3> HIDE DEF F
      <3>2. /\ visits' \in Seq(F) /\ DOMAIN visits' = 1 .. k + 1 /\ visits'[k + 1] = Call(n)
            /\ \A i \in 1 .. k : visits'[i] = rest[i]
        BY <1>3, <3>1
      <3> QED BY <1>3, <3>2
    <2> QED BY <2>1, <2>2
  <1>9. \A m : Has(order', m) <=> Has(order, m)
    BY <1>1 DEF Has
  <1>10. ASSUME NEW i \in DOMAIN visits' PROVE VisitSound(i)'
    <2>1. CASE i \in 1 .. k - 1
      <3>1. i \in 1 .. k /\ i + 1 \in 1 .. k /\ visits'[i] = visits[i]
            /\ i + 1 \in DOMAIN visits' /\ visits'[i + 1].name = visits[i + 1].name
        <4>1. i + 1 = k \/ i + 1 \in 1 .. k - 1
          BY <1>3, <2>1
        <4> QED BY <1>3, <1>8, <2>1, <4>1
      <3>2. VisitSound(i) /\ DOMAIN visits = 1 .. k
        BY <1>3, <1>5, <3>1
      <3> QED BY <1>1, <1>7, <1>9, <3>1, <3>2 DEF VisitSound
    <2>2. CASE i = k
      <3>1. VisitSound(k) /\ k + 1 \notin DOMAIN visits
        BY <1>3, <1>5
      <3>2. \A m \in visits[k].left :
              \/ m \in visits'[k].left
              \/ Has(order, m)
              \/ k + 1 \in DOMAIN visits' /\ visits'[k + 1].name = m
        <4>1. \/ Has(order, n)
              \/ k + 1 \in DOMAIN visits' /\ visits'[k + 1].name = n
          BY <1>3, <1>8 DEF Call
        <4>2. visits'[k].left = visits[k].left \ {n}
          BY <1>8
        <4> TAKE m \in visits[k].left
        <4>3. CASE m = n
          BY <4>1, <4>3
        <4>4. CASE m # n
          BY <4>2, <4>4
        <4> QED BY <4>3, <4>4
      <3>3. visits'[k].left \subseteq visits[k].left
        BY <1>8
      <3> QED BY <1>1, <1>7, <1>8, <1>9, <2>2, <3>1, <3>2, <3>3 DEF VisitSound
    <2>3. CASE i \notin 1 .. k
      <3>1. i = k + 1 /\ visits'[i].name = n /\ visits'[i].left = deps[n] /\ i # 1
        BY <1>3, <1>8, <2>3 DEF Call
      <3> QED BY <1>1, <1>4, <1>6, <1>7, <3>1 DEF VisitSound
    <2> QED BY <1>3, <2>1, <2>2, <2>3
  <1> QED BY <1>1, <1>2, <1>8, <1>10 DEF OrderMade, F

\* A call returns: all its dependencies are in the order, and now its node is.
LEMMA VisitReturns ==
    ASSUME IInv, OrderInv, TopoVisit, Visit.left = {}
    PROVE  OrderMade' /\ order' \in Seq(Name)
  <1> DEFINE k == Len(visits)
             n == Visit.name
             F == [name : Name \union {None}, left : SUBSET Name]
  <1>1. /\ at = "order" /\ visits # << >> /\ UNCHANGED <<nodes, deps>>
        /\ visits' = SubSeq(visits, 1, k - 1)
        /\ order' = IF n = None \/ Has(order, n) THEN order ELSE Append(order, n)
    BY DEF TopoVisit, searchVars, Returned
  <1>2. OrderMade /\ order \in Seq(Name)
    BY <1>1 DEF OrderInv
  <1>3. /\ k \in Nat \ {0} /\ DOMAIN visits = 1 .. k /\ k \in DOMAIN visits
        /\ Visit = visits[k] /\ visits \in Seq(F)
    BY <1>1, <1>2 DEF Visit, OrderMade
  <1>4. \A x \in Name : deps[x] \subseteq Present
    BY <1>1, EdgesPresent
  <1>5. \A i \in 1 .. k : VisitSound(i)
    BY <1>2, <1>3 DEF OrderMade
  <1>6. Present' = Present
    BY <1>1 DEF Present
  <1>7. /\ \A m \in IF n = None THEN Present ELSE deps[n] : Has(order, m)
        /\ n # None => n \in Name
        /\ (n = None) = (k = 1)
    BY <1>3, <1>5 DEF VisitSound, Present
  <1> HIDE DEF n, F
  <1>8. /\ visits' \in Seq(F) /\ DOMAIN visits' = 1 .. k - 1
        /\ \A i \in 1 .. k - 1 : visits'[i] = visits[i]
        /\ visits' = << >> => k = 1
    BY <1>1, <1>3
  <1>9. /\ order' \in Seq(Name)
        /\ \A m : Has(order, m) => Has(order', m)
        /\ n # None => Has(order', n)
    <2>1. CASE n = None \/ Has(order, n)
      BY <1>1, <1>2, <2>1 DEF Has
    <2>2. CASE ~(n = None \/ Has(order, n))
      <3>1. /\ order' \in Seq(Name) /\ DOMAIN order = 1 .. Len(order) /\ Len(order) \in Nat
            /\ DOMAIN order' = 1 .. Len(order) + 1 /\ order'[Len(order) + 1] = n
            /\ \A i \in DOMAIN order : i \in DOMAIN order' /\ order'[i] = order[i]
        BY <1>1, <1>2, <1>7, <2>2
      <3>2. Len(order) + 1 \in DOMAIN order'
        BY <3>1
      <3> QED BY <3>1, <3>2 DEF Has
    <2> QED BY <2>1, <2>2
  <1>10. ASSUME NEW i \in DOMAIN visits' PROVE VisitSound(i)'
    <2>1. /\ i \in 1 .. k - 1 /\ i \in 1 .. k /\ i + 1 \in 1 .. k
          /\ visits'[i] = visits[i] /\ i + 1 \in DOMAIN visits
          /\ i + 1 \in 1 .. k - 1 \/ i + 1 = k
      BY <1>3, <1>8
    <2>2. VisitSound(i)
      BY <1>5, <2>1
    <2>3. ASSUME NEW m, visits[i + 1].name = m, m # None
          PROVE  Has(order', m) \/ (i + 1 \in DOMAIN visits' /\ visits'[i + 1].name = m)
      <3>1. CASE i + 1 = k
        BY <1>3, <1>9, <2>3, <3>1 DEF n
      <3>2. CASE i + 1 \in 1 .. k - 1
        BY <1>8, <2>3, <3>2
      <3> QED BY <2>1, <3>1, <3>2
    <2>4. VisitSound(i + 1) /\ i + 1 # 1
      BY <1>3, <1>5, <2>1
    <2>5. visits[i + 1].name # None
      BY <2>4 DEF VisitSound
    <2>6. \A m \in IF visits[i].name = None THEN Present ELSE deps[visits[i].name] :
            Has(order, m) \/ m \in visits[i].left \/ visits[i + 1].name = m
      BY <2>2 DEF VisitSound
    <2>7. \A m \in IF visits[i].name = None THEN Present ELSE deps[visits[i].name] :
            \/ Has(order', m) \/ m \in visits[i].left
            \/ i + 1 \in DOMAIN visits' /\ visits'[i + 1].name = m
      BY <1>9, <2>3, <2>5, <2>6
    <2>8. /\ (visits[i].name = None) = (i = 1)
          /\ visits[i].name # None => visits[i].name \in Present
          /\ visits[i].left \subseteq Present
      BY <2>2 DEF VisitSound
    <2> QED BY <1>1, <1>6, <2>1, <2>7, <2>8 DEF VisitSound
  <1>11. /\ \A i \in DOMAIN order' : \A m \in deps[order'[i]] : \E j \in 1 .. i - 1 : order'[j] = m
         /\ \A i, j \in DOMAIN order' : order'[i] = order'[j] => i = j
    <2>0. /\ \A i \in DOMAIN order : \A m \in deps[order[i]] : \E j \in 1 .. i - 1 : order[j] = m
          /\ \A i, j \in DOMAIN order : order[i] = order[j] => i = j
      BY <1>2 DEF OrderMade
    <2>1. CASE n = None \/ Has(order, n)
      BY <1>1, <2>0, <2>1
    <2>2. CASE ~(n = None \/ Has(order, n))
      <3>1. /\ DOMAIN order = 1 .. Len(order) /\ Len(order) \in Nat
            /\ DOMAIN order' = 1 .. Len(order) + 1 /\ order'[Len(order) + 1] = n
            /\ \A i \in DOMAIN order : order'[i] = order[i]
        BY <1>1, <1>2, <1>7, <2>2
      <3>2. ASSUME NEW i \in DOMAIN order', NEW m \in deps[order'[i]]
            PROVE  \E j \in 1 .. i - 1 : order'[j] = m
        <4>1. CASE i \in DOMAIN order
          <5>1. PICK j \in 1 .. i - 1 : order[j] = m
            BY <2>0, <3>1, <4>1
          <5> QED BY <3>1, <4>1, <5>1
        <4>2. CASE i = Len(order) + 1
          <5>1. Has(order, m)
            BY <1>7, <2>2, <3>1, <4>2
          <5> QED BY <3>1, <4>2, <5>1 DEF Has
        <4> QED BY <3>1, <4>1, <4>2
      <3>3. ASSUME NEW i \in DOMAIN order', NEW j \in DOMAIN order', order'[i] = order'[j]
            PROVE  i = j
        <4>1. \A x \in DOMAIN order : order[x] # n
          BY <2>2 DEF Has
        <4> QED BY <2>0, <3>1, <3>3, <4>1
      <3> QED BY <3>2, <3>3
    <2> QED BY <2>1, <2>2
  <1>12. visits' = << >> => \A x \in Present : Has(order', x)
    BY <1>7, <1>8, <1>9
  <1> QED BY <1>1, <1>6, <1>8, <1>9, <1>10, <1>11, <1>12 DEF OrderMade, F

\* With the order complete, each name comes after what it depends on.
LEMMA CheckLockOrder ==
    ASSUME IInv, OrderInv, CheckLock
    PROVE  OrderInv'
  <1>1. CASE End("changed")
    BY <1>1 DEF CheckLock, End, OrderInv, diskVars
  <1>2. CASE ~End("changed")
    <2>1. /\ at = "order" /\ at' = "vendor" /\ visits = << >> /\ (isLocked => lock = nodes)
          /\ UNCHANGED <<lock, vendor, isLocked, nodes, deps, order>>
      BY <1>2 DEF CheckLock, diskVars, commandVars, searchVars, orderVars
    <2>2. OrderMade /\ order \in Seq(Name)
      BY <2>1 DEF OrderInv
    <2>3. ASSUME NEW i \in DOMAIN order, NEW j \in DOMAIN order, i < j
          PROVE  order[j] \notin deps[order[i]]
      <3> SUFFICES ASSUME order[j] \in deps[order[i]] PROVE FALSE
        OBVIOUS
      <3>1. PICK k \in 1 .. i - 1 : order[k] = order[j]
        BY <2>2 DEF OrderMade
      <3>2. DOMAIN order = 1 .. Len(order) /\ Len(order) \in Nat
        BY <2>2
      <3>3. k \in DOMAIN order /\ k < j
        BY <2>3, <3>2
      <3> QED BY <2>2, <3>1, <3>2, <3>3 DEF OrderMade
    <2>4. \A n \in Present : Has(order, n)
      BY <2>1, <2>2 DEF OrderMade
    <2>5. VendorLeft'
      BY <2>1, <2>3, <2>4 DEF VendorLeft, Present
    <2> QED BY <2>1, <2>5 DEF OrderInv
  <1> QED BY <1>1, <1>2

\* One entry is put in the vendor directory.
LEMMA VendorOrder ==
    ASSUME IInv, OrderInv, VendorOne
    PROVE  OrderInv'
  <1> DEFINE n == Head(order)
  <1>1. /\ at = "vendor" /\ at' = "vendor" /\ order # << >> /\ order' = Tail(order)
        /\ vendor' = [vendor EXCEPT ![n] = Vendored(n)]
        /\ UNCHANGED <<lock, isLocked, nodes, deps>>
    BY DEF VendorOne, commandVars, searchVars
  <1>2. VendorLeft /\ order \in Seq(Name) /\ DOMAIN vendor = Name
    BY <1>1 DEF OrderInv
  <1>3. /\ order' \in Seq(Name) /\ n \in Name /\ n = order[1] /\ Len(order) \in Nat \ {0}
        /\ DOMAIN order = 1 .. Len(order) /\ DOMAIN order' = 1 .. Len(order) - 1
        /\ \A i \in 1 .. Len(order) - 1 : order'[i] = order[i + 1]
    BY <1>1, <1>2
  <1> HIDE DEF n
  <1>4. /\ DOMAIN vendor' = Name /\ vendor'[n].ver = nodes[n]
        /\ \A m \in Name \ {n} : vendor'[m] = vendor[m]
    BY <1>1, <1>2, <1>3 DEF Vendored
  <1>5. ASSUME NEW i \in DOMAIN order', NEW j \in DOMAIN order', i < j
        PROVE  order'[j] \notin deps[order'[i]]
    <2>1. /\ i + 1 \in DOMAIN order /\ j + 1 \in DOMAIN order /\ i + 1 < j + 1
          /\ order'[i] = order[i + 1] /\ order'[j] = order[j + 1]
      BY <1>3, <1>5
    <2> QED BY <1>2, <2>1 DEF VendorLeft
  <1>6. ASSUME NEW m \in Present PROVE Has(order', m) \/ vendor'[m].ver = nodes[m]
    <2>1. CASE m = n
      BY <1>4, <2>1
    <2>2. CASE m # n /\ Has(order, m)
      <3>1. PICK i \in DOMAIN order : order[i] = m
        BY <2>2 DEF Has
      <3>2. i - 1 \in DOMAIN order' /\ order'[i - 1] = m
        BY <1>3, <2>2, <3>1
      <3> QED BY <3>2 DEF Has
    <2>3. CASE m # n /\ ~Has(order, m)
      BY <1>2, <1>4, <2>3 DEF VendorLeft, Present
    <2> QED BY <2>1, <2>2, <2>3
  <1>7. VendorLeft'
    BY <1>1, <1>2, <1>5, <1>6 DEF VendorLeft, Present
  <1> QED BY <1>1, <1>3, <1>4, <1>7 DEF OrderInv

\* The lockfile is written when everything it names is vendored.
LEMMA DoneOrder ==
    ASSUME IInv, OrderInv, Done
    PROVE  OrderInv'
  <1>1. /\ at = "vendor" /\ at' = "idle" /\ order = << >> /\ order' = << >>
        /\ lock' = (IF isLocked THEN lock ELSE nodes) /\ vendor' = vendor
    BY DEF Done, End
  <1>2. VendorLeft /\ DOMAIN vendor = Name
    BY <1>1 DEF OrderInv
  <1>3. lock' = nodes
    BY <1>1, <1>2 DEF VendorLeft
  <1>4. \A n \in Present : vendor[n].ver = nodes[n]
    BY <1>1, <1>2 DEF VendorLeft, Has
  <1> QED BY <1>1, <1>2, <1>3, <1>4 DEF OrderInv, Present

\* Every step keeps the invariant of the order and the vendor directory.
LEMMA OrderStep ==
    ASSUME IInv, OrderInv, [Next]_vars
    PROVE  OrderInv'
  <1>1. ASSUME UNCHANGED <<vendor, orderVars>>, at' \notin {"order", "vendor"},
               at' # "idle" \/ (at = "idle" /\ UNCHANGED <<lock, result>>)
        PROVE  OrderInv'
    BY <1>1 DEF OrderInv, orderVars
  <1>2. CASE \E l \in BOOLEAN : Build(l)
    BY <1>1, <1>2 DEF Build, StartResolve, diskVars
  <1>3. CASE \E T \in SUBSET {world.root[i].name : i \in DOMAIN world.root} : Update(T)
    BY <1>1, <1>3 DEF Update, StartResolve
  <1>4. CASE RegistryChanges
    BY <1>1, <1>4 DEF RegistryChanges, diskVars
  <1>5. CASE Reuse \/ Reject \/ Open \/ Fetch \/ FetchFails \/ Exhausted
    BY <1>1, <1>5 DEF Reuse, Reject, Open, Fetch, FetchFails, Exhausted, diskVars
  <1>6. CASE GiveUp
    BY <1>6 DEF GiveUp, End, OrderInv, diskVars
  <1>7. CASE TopoVisit
    <2>1. CASE Visit.left # {}
      BY <1>7, <2>1, VisitNext DEF TopoVisit, OrderInv, diskVars
    <2>2. CASE Visit.left = {}
      BY <1>7, <2>2, VisitReturns DEF TopoVisit, OrderInv, diskVars
    <2> QED BY <2>1, <2>2
  <1>8. CASE UNCHANGED vars
    <2>1. UNCHANGED <<vendor, lock, at, result, isLocked, nodes, deps, visits, order>>
      BY <1>8 DEF vars, diskVars, commandVars, searchVars, orderVars
    <2> QED BY <2>1 DEF OrderInv, OrderMade, VisitSound, VendorLeft, Present, Has
  <1>9. CASE VendorFails
    BY <1>9 DEF VendorFails, End, OrderInv
  <1>10. CASE LockFails
    BY <1>10 DEF LockFails, End, OrderInv
  <1> QED
    BY <1>2, <1>3, <1>4, <1>5, <1>6, <1>7, <1>8, <1>9, <1>10, SolvedOrder, CheckLockOrder, VendorOrder, DoneOrder
       DEF Next, Rest

\* The order, the vendor directory and the lockfile are as they should be at
\* every step of every command.
THEOREM PackageOrderInvariant == Spec => []OrderInv
  <1>1. Init => OrderInv
    BY DEF Init, OrderInv
  <1>2. IInv /\ OrderInv /\ [Next]_vars => OrderInv'
    BY OrderStep
  <1> QED BY <1>1, <1>2, PackageInvariant, PTL DEF Spec

\* GolegacyTopoOrder has every dependency before what depends on it.
THEOREM PackageLeavesFirst == Spec => []LeavesFirst
  <1>1. OrderInv => LeavesFirst
    BY DEF OrderInv, VendorLeft, LeavesFirst
  <1> QED BY <1>1, PackageOrderInvariant, PTL

\* After a command that succeeded the vendor directory holds what the lockfile
\* names, also when earlier ones stopped half way through Vendor or could not
\* write the lockfile.
THEOREM PackageProjectInStep == Spec => []ProjectInStep
  <1>1. OrderInv => ProjectInStep
    BY DEF OrderInv, ProjectInStep
  <1> QED BY <1>1, PackageOrderInvariant, PTL
==============================================================================

--------------------------- MODULE PackageManager ----------------------------
(***************************************************************************)
(* Dependency resolution, vendoring and the lockfile                       *)
(* (internal/pkgmgr/resolve.go and the commands of cmd/osty that call it)  *)
(* for registry dependencies.  Versions are numbers, higher is newer;      *)
(* names are numbers in the order of their spelling; a requirement is the  *)
(* set of versions it admits.  The registry may change between commands,   *)
(* not during one.                                                         *)
(***************************************************************************)
EXTENDS Integers, Sequences, FiniteSets

CONSTANTS Name, Version,   \* numbers from 1
          Worlds,          \* the manifests: of the root, and of each version
          InitialOffers,   \* what the index may hold at first
          MaxCommands, MaxChanges,
          MaxFailures      \* fetches that may fail in one command

None == 0
Dependency == [name : Name, ok : SUBSET Version]

ASSUME PackageAssumption ==
    /\ Name \subseteq Nat \ {None} /\ IsFiniteSet(Name)
    /\ Version \subseteq Nat \ {None} /\ IsFiniteSet(Version)
    /\ Worlds \subseteq [root : Seq(Dependency),
                         manifest : [Name \X Version -> Seq(Dependency)]]
    /\ InitialOffers \subseteq SUBSET (Name \X Version)

VARIABLES world,      \* the manifests of this behaviour
          links,      \* the file system has symbolic links
          offered,    \* versions in the index that are not yanked
          lock,       \* osty.lock: a version or None for each name
          vendor,     \* the vendor directory: what each entry holds, and how
          at,         \* where the command is
          result,     \* how the last command ended
          isLocked,   \* --locked
          pins,       \* the lock Resolve read
          pending,    \* resolveState.pending
          nodes, deps,  \* Graph.Nodes: the version and the edges of each node
          choices,    \* the calls of solve that still have candidates
          lost,       \* fetches that have failed
          visits,     \* the calls of selfPkgTopoVisit: a node, what is left of its deps
          order,      \* Graph.Order, then what is left to vendor
          commands, changes

diskVars == <<lock, vendor>>
searchVars == <<pending, nodes, deps, choices, lost>>
commandVars == <<isLocked, pins>>
orderVars == <<visits, order>>
vars == <<world, links, offered, diskVars, at, result, commandVars, searchVars, orderVars,
          commands, changes>>

Unset == [n \in Name |-> None]
NoDeps == [n \in Name |-> {}]
Nothing == [kind |-> "none", ver |-> None]

Init == /\ world \in Worlds
        /\ links \in BOOLEAN
        /\ offered \in InitialOffers
        /\ lock = Unset
        /\ vendor = [n \in Name |-> Nothing]
        /\ at = "idle"
        /\ result = "none"
        /\ isLocked = FALSE
        /\ pins = Unset
        /\ pending = << >>
        /\ nodes = Unset
        /\ deps = NoDeps
        /\ choices = << >>
        /\ lost = 0
        /\ visits = << >>
        /\ order = << >>
        /\ commands = 0
        /\ changes = 0

------------------------------------------------------------------------------
(* Commands, and what happens to the registry between them *)

Requests(ds, parent, ancestors) ==
    [i \in DOMAIN ds |-> [name |-> ds[i].name, ok |-> ds[i].ok,
                          parent |-> parent, ancestors |-> ancestors]]

\* Resolve reads the lockfile and starts with the root's dependencies.
StartResolve(l) ==
    /\ at' = "look"
    /\ pins' = l
    /\ pending' = Requests(world.root, None, {})
    /\ nodes' = Unset
    /\ deps' = NoDeps
    /\ choices' = << >>
    /\ lost' = 0
    /\ commands' = commands + 1

\* resolveAndVendorEnvOpts, with and without --locked.
Build(l) ==
    /\ at = "idle"
    /\ commands < MaxCommands
    /\ isLocked' = l
    /\ StartResolve(lock)
    /\ UNCHANGED <<world, links, offered, diskVars, result, orderVars, changes>>

\* osty update: the lock entries of the targets, or the whole file, go first.
Update(targets) ==
    /\ at = "idle"
    /\ commands < MaxCommands
    /\ isLocked' = FALSE
    /\ lock' = [n \in Name |-> IF targets = {} \/ n \in targets THEN None ELSE lock[n]]
    /\ StartResolve(lock')
    /\ UNCHANGED <<world, links, offered, vendor, result, orderVars, changes>>

\* A version is published, yanked or unyanked.
RegistryChanges ==
    /\ at = "idle"
    /\ changes < MaxChanges
    /\ \E nv \in Name \X Version :
         offered' = IF nv \in offered THEN offered \ {nv} ELSE offered \union {nv}
    /\ changes' = changes + 1
    /\ UNCHANGED <<world, links, diskVars, at, result, commandVars, searchVars, orderVars, commands>>

------------------------------------------------------------------------------
(* resolver.solve: the next request, and the calls that have candidates left *)

Req == Head(pending)

Matching == {v \in Req.ok : <<Req.name, v>> \in offered}

Cyclic == Req.name \in Req.ancestors

\* Mutant: what is already there is taken without a look at the requirement.
AlwaysCompatible == TRUE

\* ensureCompatible
Compatible == nodes[Req.name] \in Req.ok

AddDepEdge(d) == IF Req.parent = None THEN d
                 ELSE [d EXCEPT ![Req.parent] = @ \union {Req.name}]

\* The name is in the graph already.
Reuse ==
    /\ at = "look" /\ pending # << >>
    /\ ~Cyclic
    /\ nodes[Req.name] # None /\ Compatible
    /\ deps' = AddDepEdge(deps)
    /\ pending' = Tail(pending)
    /\ UNCHANGED <<world, links, offered, diskVars, at, result, commandVars, nodes, choices, lost,
                   orderVars, commands, changes>>

\* This call of solve returns an error.
Reject ==
    /\ at = "look" /\ pending # << >>
    /\ \/ Cyclic
       \/ ~Cyclic /\ nodes[Req.name] # None /\ ~Compatible
       \/ ~Cyclic /\ nodes[Req.name] = None /\ Matching = {}
    /\ at' = "try"
    /\ UNCHANGED <<world, links, offered, diskVars, result, commandVars, searchVars, orderVars,
                   commands, changes>>

\* A new name: the state is kept for each of its candidates.
Open ==
    /\ at = "look" /\ pending # << >>
    /\ ~Cyclic
    /\ nodes[Req.name] = None /\ Matching # {}
    /\ choices' = Append(choices, [pending |-> pending, nodes |-> nodes, deps |-> deps,
                                   left |-> Matching])
    /\ at' = "try"
    /\ UNCHANGED <<world, links, offered, diskVars, result, commandVars, pending, nodes, deps,
                   lost, orderVars, commands, changes>>

Innermost == choices[Len(choices)]

Newest(vs) == CHOOSE v \in vs : \A w \in vs : w =< v

\* Mutant: newest first, whatever is locked.
Unpinned(vs) == Newest(vs)

\* candidateRegistryVersions has them newest first; the locked one goes in front.
FirstOf(vs) ==
    LET pin == pins[Head(Innermost.pending).name]
    IN IF pin \in vs THEN pin ELSE Newest(vs)

OthersLeft == [choices EXCEPT ![Len(choices)].left = @ \ {FirstOf(@)}]

\* The next candidate of the innermost call, and its manifest's dependencies.
Fetch ==
    /\ at = "try" /\ choices # << >> /\ Innermost.left # {}
    /\ LET v == FirstOf(Innermost.left)
           r == Head(Innermost.pending)
       IN /\ nodes' = [Innermost.nodes EXCEPT ![r.name] = v]
          /\ deps' = IF r.parent = None THEN Innermost.deps
                     ELSE [Innermost.deps EXCEPT ![r.parent] = @ \union {r.name}]
          /\ pending' = Requests(world.manifest[<<r.name, v>>], r.name,
                                 r.ancestors \union {r.name}) \o Tail(Innermost.pending)
    /\ choices' = OthersLeft
    /\ at' = "look"
    /\ UNCHANGED <<world, links, offered, diskVars, result, commandVars, lost, orderVars, commands,
                   changes>>

\* The download, the checksum or the extraction fails: the next one is tried.
FetchFails ==
    /\ at = "try" /\ choices # << >> /\ Innermost.left # {}
    /\ lost < MaxFailures
    /\ choices' = OthersLeft
    /\ lost' = lost + 1
    /\ UNCHANGED <<world, links, offered, diskVars, at, result, commandVars, pending, nodes, deps,
                   orderVars, commands, changes>>

\* Mutant: an error ends the search instead of going back to the caller.
BackNowhere == << >>

\* The caller's loop goes on with its own candidates.
BackToCaller == SubSeq(choices, 1, Len(choices) - 1)

Exhausted ==
    /\ at = "try" /\ choices # << >> /\ Innermost.left = {}
    /\ choices' = BackToCaller
    /\ UNCHANGED <<world, links, offered, diskVars, at, result, commandVars, pending, nodes, deps,
                   lost, orderVars, commands, changes>>

\* The command returns; nothing but the disk outlives it.
End(r) ==
    /\ at' = "idle"
    /\ result' = r
    /\ isLocked' = FALSE
    /\ pins' = Unset
    /\ pending' = << >>
    /\ nodes' = Unset
    /\ deps' = NoDeps
    /\ choices' = << >>
    /\ lost' = 0
    /\ visits' = << >>
    /\ order' = << >>

\* Resolve returns the first error.
GiveUp ==
    /\ at = "try" /\ choices = << >>
    /\ End("unsolved")
    /\ UNCHANGED <<world, links, offered, diskVars, commands, changes>>

------------------------------------------------------------------------------
(* selfPkgTopoOrder, Vendor and the lockfile *)

Present == {n \in Name : nodes[n] # None}
FirstName(S) == CHOOSE n \in S : \A m \in S : n =< m
Has(out, n) == \E i \in DOMAIN out : out[i] = n

\* The search is over; selfPkgTopoOrder visits all nodes in the order of their names.
Solved ==
    /\ at = "look" /\ pending = << >>
    /\ at' = "order"
    /\ visits' = <<[name |-> None, left |-> Present]>>
    /\ order' = << >>
    /\ UNCHANGED <<world, links, offered, diskVars, result, commandVars, searchVars, commands,
                   changes>>

Visit == visits[Len(visits)]
Returned == SubSeq(visits, 1, Len(visits) - 1)

\* Mutant: a node does not wait for its dependencies.
CallAlone(n) == [name |-> n, left |-> {}]

\* A node's dependencies are visited before it is put in the order.
Call(n) == [name |-> n, left |-> deps[n]]

\* selfPkgTopoVisit: the next dependency, and once there is none the node itself.
TopoVisit ==
    /\ at = "order" /\ visits # << >>
    /\ \/ /\ Visit.left # {}
          /\ LET n == FirstName(Visit.left)
                 rest == [visits EXCEPT ![Len(visits)].left = @ \ {n}]
             IN visits' = IF Has(order, n) \/ nodes[n] = None THEN rest ELSE Append(rest, Call(n))
          /\ UNCHANGED order
       \/ /\ Visit.left = {}
          /\ visits' = Returned
          /\ order' = IF Visit.name = None \/ Has(order, Visit.name) THEN order
                      ELSE Append(order, Visit.name)
    /\ UNCHANGED <<world, links, offered, diskVars, at, result, commandVars, searchVars, commands,
                   changes>>

\* LockFromGraph; with --locked a lock that differs ends the command.
CheckLock ==
    /\ at = "order" /\ visits = << >>
    /\ \/ isLocked /\ lock # nodes /\ End("changed")
       \/ /\ ~(isLocked /\ lock # nodes)
          /\ at' = "vendor"
          /\ UNCHANGED <<result, commandVars, searchVars, orderVars>>
    /\ UNCHANGED <<world, links, offered, diskVars, commands, changes>>

\* removeIfSafe refuses a directory that is not empty.
Removable(n) == vendor[n].kind # "copy"

\* Mutant: an entry that is there already is left alone.
VendoredOnce(n) == IF vendor[n].kind = "none" THEN [kind |-> "link", ver |-> nodes[n]]
                   ELSE vendor[n]

\* A link to the fetched directory, or a copy of it where links fail.
Vendored(n) == [kind |-> IF links THEN "link" ELSE "copy", ver |-> nodes[n]]

\* Vendor replaces one entry: the old one is removed first.
VendorOne ==
    /\ at = "vendor" /\ order # << >>
    /\ Removable(Head(order))
    /\ vendor' = [vendor EXCEPT ![Head(order)] = Vendored(Head(order))]
    /\ order' = Tail(order)
    /\ UNCHANGED <<world, links, offered, lock, at, result, commandVars, searchVars, visits,
                   commands, changes>>

\* What an error leaves of the entry: the old one, which could not be removed;
\* nothing, or an empty directory, when the link or the copy could not be made;
\* or part of a copy, a directory that is no version and is not empty.
Remains(n) ==
    {vendor[n]} \union {e \in {Nothing, [kind |-> "copy", ver |-> None]} :
                         Removable(n) /\ (links => e = Nothing)}

\* The command ends there: earlier entries are new, later ones as they were.
VendorFails ==
    /\ at = "vendor" /\ order # << >>
    /\ \E e \in Remains(Head(order)) : vendor' = [vendor EXCEPT ![Head(order)] = e]
    /\ End("failed")
    /\ UNCHANGED <<world, links, offered, lock, commands, changes>>

\* lockfile.Write, unless --locked.
Done ==
    /\ at = "vendor" /\ order = << >>
    /\ lock' = IF isLocked THEN lock ELSE nodes
    /\ End("ok")
    /\ UNCHANGED <<world, links, offered, vendor, commands, changes>>

\* os.WriteFile cannot open the lockfile, or has emptied it and cannot write.
LockFails ==
    /\ at = "vendor" /\ order = << >> /\ ~isLocked
    /\ lock' \in {lock, Unset}
    /\ End("failed")
    /\ UNCHANGED <<world, links, offered, vendor, commands, changes>>

\* No command is left to run: only here may the system stop.
Rest == at = "idle" /\ commands = MaxCommands /\ UNCHANGED vars

Next == \/ \E l \in BOOLEAN : Build(l)
        \/ \E T \in SUBSET {world.root[i].name : i \in DOMAIN world.root} : Update(T)
        \/ RegistryChanges
        \/ Reuse \/ Reject \/ Open \/ Fetch \/ FetchFails \/ Exhausted \/ GiveUp
        \/ Solved \/ TopoVisit \/ CheckLock
        \/ VendorOne \/ VendorFails \/ Done \/ LockFails \/ Rest

Spec == Init /\ [][Next]_vars

------------------------------------------------------------------------------
(* Reference: what a solution is *)

Wanted(n, a) == world.manifest[<<n, a[n]>>]
Targets(ds) == {ds[i].name : i \in DOMAIN ds}
Fits(ds, a) == \A i \in DOMAIN ds : a[ds[i].name] \in ds[i].ok

\* S has what the root depends on, and what its members do with the versions of a.
Closed(S, a) == /\ Targets(world.root) \subseteq S
                /\ \A m \in S : a[m] # None => Targets(Wanted(m, a)) \subseteq S

\* The names the root needs when the versions are those of a.
Needed(a) == {n \in Name : \A S \in SUBSET Name : Closed(S, a) => n \in S}

\* Everything needed is there, fits every requirement, and is free of circles.
Solution(a) ==
    LET N == Needed(a)
    IN /\ Fits(world.root, a)
       /\ \A n \in N : a[n] # None /\ <<n, a[n]>> \in offered
       /\ \A n \in N : Fits(Wanted(n, a), a)
       /\ ~\E S \in (SUBSET N) \ {{}} : \A n \in S : Targets(Wanted(n, a)) \intersect S # {}

Assignment == [Name -> Version \union {None}]
Only(a, N) == [n \in Name |-> IF n \in N THEN a[n] ELSE None]

\* The graph Resolve returns is a solution, has no node that nobody needs, and
\* its edges are the declared dependencies, whatever was tried and undone before.
SolvedIsSolution ==
    at = "vendor" =>
      /\ Solution(nodes)
      /\ nodes = Only(nodes, Needed(nodes))
      /\ \A n \in Needed(nodes) : deps[n] = Targets(Wanted(n, nodes))

\* Resolve fails only when no choice of versions works, unless a fetch failed.
UnsolvedMeansNone ==
    at = "try" /\ choices = << >> /\ lost = 0 =>
      ~\E a \in Assignment : Solution(a)

\* When the lockfile is still a solution the versions stay as locked, even if
\* newer ones have been published, unless a fetch failed.
PinsKept ==
    at = "vendor" /\ lost = 0 /\ Solution(pins) => nodes = Only(pins, Needed(pins))

\* Graph.Order has every dependency before what depends on it.
LeavesFirst ==
    at = "vendor" => \A i, j \in DOMAIN order : i < j => order[j] \notin deps[order[i]]

\* After a command that succeeded the vendor directory holds what the lockfile
\* names, every entry of it complete: also when earlier commands stopped between
\* two entries, in an entry, or before the lockfile was written.
ProjectInStep ==
    at = "idle" /\ result = "ok" => \A n \in Name : lock[n] # None => vendor[n].ver = lock[n]

------------------------------------------------------------------------------
(* The inductive invariant.  It speaks of the graph being built and, in the   *)
(* same words, of every copy the calls of solve have kept.                    *)

Request == [name : Name, ok : SUBSET Version, parent : Name \union {None}, ancestors : SUBSET Name]
Choice == [pending : Seq(Request), nodes : Assignment, deps : [Name -> SUBSET Name],
           left : SUBSET Version]
Current == [pending |-> pending, nodes |-> nodes, deps |-> deps]

In(st) == {n \in Name : st.nodes[n] # None}

\* What the root (None) or a node of the graph depends on.
Declared(st, p) == IF p = None THEN world.root ELSE world.manifest[<<p, st.nodes[p]>>]

\* The nodes are offered and needed; the edges are declared and have no circle.
NodesSound(st) ==
    /\ \A n \in In(st) : <<n, st.nodes[n]>> \in offered
    /\ In(st) \subseteq Needed(st.nodes)
    /\ \A n \in Name : st.deps[n] \subseteq In(st)
    /\ \A n \in In(st) : st.deps[n] \subseteq Targets(Declared(st, n))
    /\ \A n \in Name \ In(st) : st.deps[n] = {}
    /\ \A S \in (SUBSET Name) \ {{}} : \E n \in S : st.deps[n] \intersect S = {}

\* A request is declared by its parent; the ancestors are a path in the graph
\* that ends in the parent, and that nothing else in the graph leads to.
RequestSound(st, q) ==
    /\ \E i \in DOMAIN Declared(st, q.parent) :
         Declared(st, q.parent)[i] = [name |-> q.name, ok |-> q.ok]
    /\ q.ancestors \subseteq In(st)
    /\ IF q.parent = None THEN q.ancestors = {} ELSE q.parent \in q.ancestors
    /\ \A n \in q.ancestors \ {q.parent} : Targets(Declared(st, n)) \intersect q.ancestors # {}
    /\ \A n \in Name : st.deps[n] \intersect q.ancestors # {} => n \in q.ancestors

\* Later requests come from higher up.
PendingSound(st) ==
    /\ \A i \in DOMAIN st.pending : RequestSound(st, st.pending[i])
    /\ \A i, j \in DOMAIN st.pending :
         i < j => st.pending[j].ancestors \subseteq st.pending[i].ancestors

MetOrPending(st, p, d) ==
    \/ st.nodes[d.name] \in d.ok /\ (p # None => d.name \in st.deps[p])
    \/ \E j \in DOMAIN st.pending : /\ st.pending[j].parent = p
                                    /\ st.pending[j].name = d.name
                                    /\ st.pending[j].ok = d.ok

\* Every declared dependency is in the graph and fits, or is still pending.
NothingForgotten(st) ==
    \A p \in In(st) \union {None} : \A i \in DOMAIN Declared(st, p) :
      MetOrPending(st, p, Declared(st, p)[i])

Sound(st) == NodesSound(st) /\ PendingSound(st) /\ NothingForgotten(st)

\* A kept copy is from before its request was answered, and offers are left.
ChoiceSound(c) ==
    /\ c.pending # << >>
    /\ c.nodes[Head(c.pending).name] = None
    /\ \A v \in c.left : v \in Head(c.pending).ok /\ <<Head(c.pending).name, v>> \in offered

KeptSound == \A i \in DOMAIN choices : Sound(choices[i]) /\ ChoiceSound(choices[i])

\* a differs from the graph only in what has not been chosen yet.
Extends(a, nd) == \A n \in Name : nd[n] # None => a[n] = nd[n]

\* The search may still come to the solution a by way of c.
LeadsTo(c, a) == Extends(a, c.nodes) /\ a[Head(c.pending).name] \in c.left

PassedOver(a) ==
    /\ ~(at = "look" /\ Extends(a, nodes))
    /\ \A i \in DOMAIN choices : ~LeadsTo(choices[i], a)

\* No solution has been passed over: the graph may become it, or a choice left may.
Complete ==
    at \in {"look", "try"} /\ lost = 0 =>
      \A a \in Assignment : PassedOver(a) => ~Solution(a)

\* While the locked versions are a solution they are the next to be tried.
PinsFollowed ==
    at # "idle" /\ lost = 0 /\ Solution(pins) =>
      IF at = "try" THEN choices # << >> /\ LeadsTo(Innermost, pins) ELSE Extends(pins, nodes)

\* Everything has its type, and a command leaves nothing but the disk behind.
TypeOK ==
    /\ world \in Worlds
    /\ offered \subseteq Name \X Version
    /\ lock \in Assignment /\ pins \in Assignment
    /\ at \in {"idle", "look", "try", "order", "vendor"}
    /\ lost \in Nat
    /\ pending \in Seq(Request)
    /\ nodes \in Assignment
    /\ deps \in [Name -> SUBSET Name]
    /\ choices \in Seq(Choice)
    /\ at = "idle" => choices = << >>

\* What makes the search right at every step of every command: the graph and all
\* kept copies are sound, no solution is lost, and the pins come first.
IInv ==
    /\ TypeOK
    /\ at # "idle" => Sound(Current)
    /\ KeptSound
    /\ at \in {"order", "vendor"} => pending = << >>
    /\ Complete
    /\ PinsFollowed

\* A call of selfPkgTopoVisit (the first one: of selfPkgTopoOrder) has each of its
\* names in the order already, still to visit, or in the call it has just made.
VisitSound(i) ==
    LET f == visits[i]
    IN /\ (f.name = None) = (i = 1)
       /\ f.name # None => f.name \in Present
       /\ f.left \subseteq Present
       /\ \A m \in IF f.name = None THEN Present ELSE deps[f.name] :
            \/ Has(order, m)
            \/ m \in f.left
            \/ i + 1 \in DOMAIN visits /\ visits[i + 1].name = m

\* While the order is made each name in it comes after all it depends on.
OrderMade ==
    /\ visits \in Seq([name : Name \union {None}, left : SUBSET Name])
    /\ \A i \in DOMAIN visits : VisitSound(i)
    /\ \A i \in DOMAIN order : \A m \in deps[order[i]] : \E k \in 1 .. i - 1 : order[k] = m
    /\ \A i, j \in DOMAIN order : order[i] = order[j] => i = j
    /\ visits = << >> => \A n \in Present : Has(order, n)

\* What is left to vendor, together with what has been vendored, is the graph.
VendorLeft ==
    /\ \A i, j \in DOMAIN order : i < j => order[j] \notin deps[order[i]]
    /\ \A n \in Present : Has(order, n) \/ vendor[n].ver = nodes[n]
    /\ isLocked => lock = nodes

\* From the solved graph to the vendor directory and the lockfile.
OrderInv ==
    /\ DOMAIN vendor = Name
    /\ order \in Seq(Name)
    /\ at = "order" => OrderMade
    /\ at = "vendor" => VendorLeft
    /\ at = "idle" /\ result = "ok" => \A n \in Name : lock[n] # None => vendor[n].ver = lock[n]
==============================================================================

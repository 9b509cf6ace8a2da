--------------------------- MODULE ProfileManager ---------------------------
(* ProfileManager: the profiles by name, the active one, the edits that can  *)
(* be undone, and the cache of effective views. A profile is the names it    *)
(* depends on, in order, and its rows; of a row only its value, the rows it  *)
(* excludes and those it applies to are kept. A call is one step. An edit    *)
(* that is refused is no step: what it rolls back to is the profile itself,  *)
(* as long as every tag is in the namespace that from_json() puts it in.     *)
EXTENDS Naturals, Sequences, SequencesExt, FiniteSets, TLC

CONSTANTS
  Names, Vanilla, \* profile keys, and "builtin:vanilla"
  RowsOf,         \* per key: the rows it may have, with fields val, excl, supp
  Files,          \* what load_directory() may find: name and profile
  Groups,         \* sequences of names that are looked at together
  Requests,       \* the dependencies that set_dependencies() is given
  MaxCalls        \* bound: calls that change something

VARIABLES
  profiles, \* _profiles
  active,   \* _active
  undoLog,  \* _undo_log
  depGraph, \* _dep_graph
  cache,    \* _effective_cache, by sequence of names
  sourced,  \* _datapack_sourced
  steps     \* bounded count of calls

managerVars == <<profiles, active, undoLog, depGraph, cache, sourced, steps>>

None == ""
Listed == DOMAIN profiles
EmptyProfile == [deps |-> <<>>, rows |-> <<>>]
Ids == DOMAIN RowsOf
Without(f, x) == [y \in DOMAIN f \ {x} |-> f[y]]

ManagerInit ==
  /\ profiles = <<>> /\ active = None /\ undoLog = <<>>
  /\ depGraph = <<>> /\ cache = <<>> /\ sourced = {} /\ steps = 0

-----------------------------------------------------------------------------
(* Dependencies and effective views, computed from the profiles.            *)
Graph(ps) == [n \in DOMAIN ps |-> ps[n].deps]
Deps(ps, n) == IF n \in DOMAIN ps THEN ToSet(ps[n].deps) ELSE {}
Reachable(ps, n) ==
  LET within[k \in 0 .. Cardinality(Names)] ==
        IF k = 0 THEN Deps(ps, n)
        ELSE within[k - 1] \cup UNION {Deps(ps, m) : m \in within[k - 1]}
  IN within[Cardinality(Names)]

\* _has_cycle(): a cycle that the profile leads to, not only one it is on.
IsCyclic(ps, n) == \E m \in {n} \cup Reachable(ps, n) : m \in Reachable(ps, m)

\* resolve_dependencies(): depth first, dependencies before their dependents.
RECURSIVE Visit(_, _, _)
Visit(ps, order, n) ==
  IF n \in ToSet(order) THEN order
  ELSE IF n \notin DOMAIN ps THEN Append(order, n)
  ELSE Append(FoldLeft(LAMBDA o, d : Visit(ps, o, d), order, ps[n].deps), n)
Chain(ps, n) == Visit(ps, <<>>, n)

\* RegistryHelper::merge: the upper layer wins.
Layered(ps, order) ==
  FoldLeft(LAMBDA rows, n : IF n \in DOMAIN ps THEN ps[n].rows @@ rows ELSE rows, <<>>, order)

\* Each name at its last place.
KeepLast(s) ==
  LET last == {i \in DOMAIN s : \A j \in DOMAIN s : j > i => s[j] # s[i]}
  IN [i \in 1 .. Cardinality(last) |->
        s[CHOOSE j \in last : Cardinality({k \in last : k <= j}) = i]]

\* resolve_effective() and resolve_effective_group(): vanilla lies below
\* everything, unless a group has it somewhere; an unknown name has no view
\* but the empty one.
View(ps, members) ==
  IF Len(members) = 1
  THEN IF members[1] \notin DOMAIN ps THEN <<>>
       ELSE Layered(ps, (IF members[1] = Vanilla THEN <<>> ELSE <<Vanilla>>) \o Chain(ps, members[1]))
  ELSE LET all == FlattenSeq([i \in DOMAIN members |-> Chain(ps, members[i])])
       IN Layered(ps, KeepLast((IF Vanilla \in ToSet(all) THEN <<>> ELSE <<Vanilla>>) \o all))

-----------------------------------------------------------------------------
Counts == steps < MaxCalls /\ steps' = steps + 1
Forget == cache' = <<>>

\* _build_graph() on the profiles ps: a changed graph empties the cache.
Built(ps, c) ==
  /\ depGraph' = Graph(ps)
  /\ cache' = IF depGraph # Graph(ps) THEN <<>> ELSE c

Resolve(members) ==
  /\ Len(members) > 1 => ToSet(members) \subseteq Listed
  /\ \A m \in ToSet(members) : ~IsCyclic(profiles, m)
  /\ LET kept == IF depGraph # Graph(profiles) THEN <<>> ELSE cache IN
     /\ members \notin DOMAIN kept
     /\ cache' = (members :> View(profiles, members)) @@ kept
  /\ depGraph' = Graph(profiles)
  /\ UNCHANGED <<profiles, active, undoLog, sourced, steps>>

Create(n) ==
  /\ n \notin Listed /\ Counts
  /\ profiles' = (n :> EmptyProfile) @@ profiles /\ sourced' = sourced \ {n} /\ Forget
  /\ UNCHANGED <<active, undoLog, depGraph>>

\* create_from(), snapshot() and branch().
Derive(source, n) ==
  /\ source \in Listed /\ n \notin Listed /\ Counts
  /\ profiles' = (n :> profiles[source]) @@ profiles /\ sourced' = sourced \ {n} /\ Forget
  /\ UNCHANGED <<active, undoLog, depGraph>>

\* The first of the others is any of them: the map has no order.
RemoveProfile(n) ==
  /\ n \in Listed /\ Counts
  /\ profiles' = Without(profiles, n) /\ undoLog' = Without(undoLog, n) /\ sourced' = sourced \ {n}
  /\ IF Listed = {n} THEN active' = None
     ELSE IF active = n THEN active' \in Listed \ {n}
     ELSE UNCHANGED active
  /\ Forget /\ UNCHANGED depGraph

\* The history of edits stays behind under the old name.
Rename(old, new) ==
  /\ old \in Listed /\ new \notin Listed /\ Counts
  /\ profiles' = (new :> profiles[old]) @@ Without(profiles, old)
  /\ active' = IF active = old THEN new ELSE active
  /\ sourced' = IF old \in sourced THEN (sourced \ {old}) \cup {new} ELSE sourced
  /\ depGraph' = Graph(profiles') /\ Forget /\ UNCHANGED undoLog

Activate(n) ==
  /\ n \in Listed /\ active # n /\ active' = n
  /\ UNCHANGED <<profiles, undoLog, depGraph, cache, sourced, steps>>

Merge(source, dest) ==
  /\ {source, dest} \subseteq Listed /\ source # dest /\ Counts
  /\ profiles' = [profiles EXCEPT ![dest].rows = profiles[source].rows @@ @] /\ Forget
  /\ UNCHANGED <<active, undoLog, depGraph, sourced>>

-----------------------------------------------------------------------------
(* Edits with validation and undo.                                          *)
\* RegistryHelper::validate: what a row excludes is there.
Valid(c) == \A id \in DOMAIN c.rows : c.rows[id].excl \subseteq DOMAIN c.rows

History(n) == IF n \in DOMAIN undoLog THEN undoLog[n] ELSE <<>>

\* _mutate(): an edit of a profile that is not valid, or that would not be
\* valid afterwards, is rolled back.
Mutate(n, after) ==
  /\ n \in Listed /\ Counts /\ Valid(profiles[n]) /\ Valid(after)
  /\ profiles' = [profiles EXCEPT ![n] = after]
  /\ undoLog' = (n :> Append(History(n), profiles[n])) @@ undoLog
  /\ UNCHANGED <<active, sourced>>

AddRow(n, id, row) ==
  /\ id \notin DOMAIN profiles[n].rows
  /\ Mutate(n, [profiles[n] EXCEPT !.rows = (id :> row) @@ @]) /\ Forget /\ UNCHANGED depGraph
UpdateRow(n, id, row) ==
  /\ id \in DOMAIN profiles[n].rows
  /\ Mutate(n, [profiles[n] EXCEPT !.rows[id] = row]) /\ Forget /\ UNCHANGED depGraph
RemoveRow(n, id) ==
  /\ id \in DOMAIN profiles[n].rows
  /\ Mutate(n, [profiles[n] EXCEPT !.rows = Without(@, id)]) /\ Forget /\ UNCHANGED depGraph

\* set_dependencies(): a cycle is refused, but the graph has been rebuilt.
SetDependencies(n, deps) ==
  LET after == [profiles EXCEPT ![n].deps = deps] IN
  IF IsCyclic(after, n)
  THEN /\ Valid(profiles[n]) /\ depGraph # Graph(profiles) /\ depGraph' = Graph(profiles) /\ Forget
       /\ UNCHANGED <<profiles, active, undoLog, sourced, steps>>
  ELSE Mutate(n, after[n]) /\ depGraph' = Graph(after) /\ Forget

\* Mutant: the views computed from the edit stay.
Undo_KeepsViews(n) ==
  /\ n \in Listed /\ History(n) # <<>> /\ Counts
  /\ profiles' = [profiles EXCEPT ![n] = Last(History(n))]
  /\ undoLog' = [undoLog EXCEPT ![n] = Front(@)]
  /\ UNCHANGED <<active, depGraph, sourced, cache>>

\* undo(): the snapshot is not validated, its dependencies are not checked.
Undo(n) ==
  /\ n \in Listed /\ History(n) # <<>> /\ Counts
  /\ profiles' = [profiles EXCEPT ![n] = Last(History(n))]
  /\ undoLog' = [undoLog EXCEPT ![n] = Front(@)] /\ Forget
  /\ UNCHANGED <<active, depGraph, sourced>>

-----------------------------------------------------------------------------
(* Loading.                                                                 *)
\* cross_validate(): items that neither the profile nor what lies below it has
\* are dropped, and an enchantment that loses its last one with them.
Validated(ps, n) ==
  LET known == UNION {DOMAIN ps[m].rows : m \in ({n, Vanilla} \cup Reachable(ps, n)) \cap DOMAIN ps}
      rows == ps[n].rows
      kept == {id \in DOMAIN rows : rows[id].supp = {} \/ rows[id].supp \cap known # {}}
  IN [ps EXCEPT ![n].rows = [id \in kept |-> [rows[id] EXCEPT !.supp = @ \cap known]]]

\* A file or a datapack replaces the profile of its name, whose edits cannot
\* be undone any more; the selection stays, and vanilla is there afterwards.
With(f) ==
  (f.name :> f.profile) @@ profiles @@ (Vanilla :> EmptyProfile)

LoadFile(f) ==
  /\ Counts /\ profiles' = With(f) /\ sourced' = sourced \ {f.name}
  /\ undoLog' = Without(undoLog, f.name)
  /\ depGraph' = Graph(profiles') /\ Forget /\ UNCHANGED active

LoadDatapack(f) ==
  /\ f.name # Vanilla /\ Counts
  /\ profiles' = Validated(With(f), f.name) /\ sourced' = sourced \cup {f.name}
  /\ undoLog' = Without(undoLog, f.name)
  /\ depGraph' = Graph(profiles') /\ Forget /\ UNCHANGED active

CrossValidate(n) ==
  /\ n \in Listed /\ Counts /\ profiles' = Validated(profiles, n)
  /\ depGraph' = Graph(profiles) /\ Forget
  /\ UNCHANGED <<active, undoLog, sourced>>

\* An edit through find() that ends with notify_mutated(), as the SQL
\* statements and the imports make them.
EditDirectly(n, id, row) ==
  /\ n \in Listed /\ Counts
  /\ profiles' = [profiles EXCEPT ![n].rows = (id :> row) @@ @] /\ Forget
  /\ UNCHANGED <<active, undoLog, depGraph, sourced>>

ManagerNext ==
  \/ \E g \in Groups : Resolve(g)
  \/ \E n \in Names : Create(n) \/ RemoveProfile(n) \/ Activate(n) \/ Undo(n) \/ CrossValidate(n)
  \/ \E m, n \in Names : Derive(m, n) \/ Rename(m, n) \/ Merge(m, n)
  \/ \E n \in Listed, id \in Ids : RemoveRow(n, id) \/
       \E row \in RowsOf[id] : AddRow(n, id, row) \/ UpdateRow(n, id, row) \/ EditDirectly(n, id, row)
  \/ \E n \in Listed, d \in Requests : SetDependencies(n, d)
  \/ \E f \in Files : LoadFile(f) \/ LoadDatapack(f)

-----------------------------------------------------------------------------
\* A view that is served from the cache is the one that would be computed
\* from the profiles as they are, and the selected profile is there.
ViewsAreFresh ==
  /\ depGraph = Graph(profiles) => \A g \in DOMAIN cache : cache[g] = View(profiles, g)
  /\ active \in Listed \cup {None}
=============================================================================

----------------------------- MODULE SqlSession -----------------------------
(* SqlSession and SqlExecutor: statements on profiles, their undo stack, and *)
(* the record of what is not saved. A profile is its three tables and its    *)
(* tag resolver; of a row only its references are kept, and the ids of       *)
(* enchantments, equipment and tags are disjoint. A statement is one step:   *)
(* the session has one thread. A refused write leaves a baseline at most.    *)
EXTENDS TagResolver, Sequences, SequencesExt

CONSTANTS
  Enchs, Equips, \* ids of enchantments and of equipment
  Legacy,        \* a category that is shown and names no tag
  Unset,         \* the category of a row copied without that column
  Names,         \* the names of profiles, in their order
  Loaded,        \* per name: the profile that load_directory() found
  FileOf,        \* per name: sanitize_filename()
  UndoCap,       \* capacity of the undo stack, 16
  Supports, Values, \* the supported_items and values that statements write
  Modes,         \* the foreign-key modes of COPY: "strict", "deps", "ignore"
  Statements,    \* the kinds of statements that are given
  MergesEmpty,   \* a profile without a row may be merged
  MaxWrites      \* bound: statements that write

VARIABLES
  profiles,  \* ProfileManager::_profiles
  current,   \* SqlExecutor::_current
  undo,      \* SqlExecutor::_undo
  history,   \* SqlSession::_write_history
  dirty,     \* SqlSession::_dirty
  baselines, \* SqlSession::_baselines
  claimed,   \* SqlSession::_claimed
  disk,      \* per file: the profile a reload would read
  writes,    \* bounded count of the statements that wrote
  loose,     \* a COPY WITH IGNORE has been accepted
  trail      \* the profiles before each write that can be undone

sessionVars == <<history, dirty, baselines, claimed, disk>>
sqlVars == <<profiles, current, undo, sessionVars, writes, loose, trail>>

Empty == [ench |-> <<>>, eq |-> <<>>, tags |-> {}, res |-> NoResolver]
Exists(p) == p \in DOMAIN profiles
Now == profiles[current]

\* What compose_json() writes: the rows, and the values of the tags that have one.
Saved(c) == [ench |-> c.ench, eq |-> c.eq, values |-> [t \in c.tags |-> RawValues(c.res, t)]]

SqlInit ==
  /\ profiles = Loaded /\ current \in DOMAIN Loaded
  /\ undo = <<>> /\ history = <<>> /\ dirty = {} /\ baselines = <<>> /\ claimed = <<>>
  /\ disk = [f \in {FileOf[p] : p \in DOMAIN Loaded} |->
               LET p == CHOOSE n \in DOMAIN Loaded : FileOf[n] = f
               IN [name |-> p, rows |-> Saved(Loaded[p])]]
  /\ writes = 0 /\ loose = FALSE /\ trail = <<>>

-----------------------------------------------------------------------------
(* References.                                                              *)
Present(c) == DOMAIN c.ench \cup DOMAIN c.eq \cup c.tags
EnchRefs(row) == row.excl \cup row.supp

\* The source rows a row refers to; references the source lacks are ignored.
Edges(c, id) ==
  (CASE id \in DOMAIN c.ench -> EnchRefs(c.ench[id])
     [] id \in DOMAIN c.eq -> {c.eq[id]}
     [] OTHER -> RawValues(c.res, id)) \cap Present(c)

\* Mutant: only the direct references.
Closure_Direct(c, ids) == UNION {Edges(c, id) : id \in ids} \ ids

\* WITH DEPS: everything the copied rows lead to.
Closure(c, ids) ==
  LET Size == Cardinality(Enchs \cup Equips \cup TagIds)
      within[n \in 0 .. Size] ==
        IF n = 0 THEN ids ELSE within[n - 1] \cup UNION {Edges(c, id) : id \in within[n - 1]}
  IN within[Size] \ ids

\* check_tag_refs(): tags that expand to nothing, and the cache the check leaves.
Unresolved(c, values) == {t \in values \cap TagIds : Resolve(c.res, t) = {}}
Checked(c, values) == [c EXCEPT !.res = Looked(@, values \cap TagIds)]

\* match_ids() reads the values of every tag.
Listed(c) == Checked(c, c.tags)

\* The rows a WHERE clause selects: those of one id, or all.
Matches(ids) == {{id} : id \in ids} \cup IF ids = {} THEN {} ELSE {ids}

\* DELETE: the rows that refer to an id; those of the statement count too.
Referring(c, id) ==
  {e \in DOMAIN c.ench : id \in EnchRefs(c.ench[e])} \cup {q \in DOMAIN c.eq : c.eq[q] = id}
    \cup {t \in c.tags \ {id} : id \in RawValues(c.res, t)}

-----------------------------------------------------------------------------
(* Bookkeeping of a statement that wrote.                                   *)
Newest(s) == IF Len(s) > UndoCap THEN Tail(s) ELSE s

\* The session takes a baseline of its target before the statement runs.
Baseline(p) ==
  baselines' = IF p \in dirty \cup DOMAIN baselines THEN baselines
               ELSE (p :> IF Exists(p) THEN profiles[p] ELSE Empty) @@ baselines

\* ... and notes the write if it affected rows.
Note(p, affected) ==
  /\ dirty' = IF affected THEN dirty \cup {p} ELSE dirty
  /\ history' = IF affected THEN Newest(Append(history, p)) ELSE history
  /\ UNCHANGED <<current, claimed, disk>>

\* The executor: the snapshot goes to the undo stack.
Push(p, before, created) ==
  /\ writes < MaxWrites /\ writes' = writes + 1
  /\ undo' = Newest(Append(undo, [profile |-> p, before |-> before, created |-> created]))
  /\ trail' = Newest(Append(trail, [n \in DOMAIN profiles |-> Saved(profiles[n])]))

Write(p, before, after) ==
  /\ profiles' = [profiles EXCEPT ![p] = after]
  /\ Baseline(p) /\ Push(p, before, FALSE) /\ Note(p, TRUE)

WriteHere(before, after) == Write(current, before, after) /\ UNCHANGED loose

-----------------------------------------------------------------------------
(* INSERT, UPDATE and DELETE on the current profile.                        *)
EnchRows == [excl : SUBSET Enchs, supp : Supports]

InsertEnch(e, row) ==
  /\ Exists(current) /\ e \notin DOMAIN Now.ench
  /\ row.supp # {} /\ EnchRefs(row) \subseteq Present(Now)
  /\ WriteHere(Now, [Now EXCEPT !.ench = (e :> row) @@ @])

InsertEq(q, category) ==
  /\ Exists(current) /\ q \notin DOMAIN Now.eq /\ category \in Now.tags
  /\ WriteHere(Now, [Now EXCEPT !.eq = (q :> category) @@ @])

InsertTag(t, values) ==
  /\ Exists(current) /\ t \notin Now.tags /\ Unresolved(Now, values) = {}
  /\ LET c == Checked(Now, values) IN
     WriteHere(c, [c EXCEPT !.tags = @ \cup {t},
                            !.res = IF values = {} THEN @ ELSE AddTag(@, t, values)])

\* Only the reference columns that SET names are checked.
UpdateEnch(ids, touched, row) ==
  LET patch == [e \in ids |-> [excl |-> IF "excl" \in touched THEN row.excl ELSE Now.ench[e].excl,
                               supp |-> IF "supp" \in touched THEN row.supp ELSE Now.ench[e].supp]]
  IN /\ "supp" \in touched => row.supp # {} /\ row.supp \subseteq Present(Now)
     /\ "excl" \in touched => row.excl \subseteq Present(Now)
     /\ WriteHere(Now, [Now EXCEPT !.ench = patch @@ @])

UpdateEq(ids, touched, category) ==
  /\ touched => category \in Now.tags
  /\ WriteHere(Now, [Now EXCEPT !.eq = IF touched THEN [q \in ids |-> category] @@ @ ELSE @])

SetValues(res, ids, values) ==
  [raw |-> [t \in ids |-> values] @@ res.raw,
   cache |-> [t \in DOMAIN res.cache \ ids |-> res.cache[t]]]

UpdateTags(ids, touched, values) ==
  LET c == Listed(Now)
      d == IF touched THEN Checked(c, values) ELSE c
  IN /\ touched => Unresolved(c, values) = {}
     /\ WriteHere(d, [d EXCEPT !.res = IF touched THEN SetValues(@, ids, values) ELSE @])

Without(f, ids) == [x \in DOMAIN f \ ids |-> f[x]]

\* The values of a tag stay in the resolver.
Delete(ids) ==
  LET c == IF ids \subseteq Now.tags THEN Listed(Now) ELSE Now IN
  /\ \A id \in ids : Referring(c, id) = {}
  /\ WriteHere(c, [c EXCEPT !.ench = Without(@, ids), !.eq = Without(@, ids), !.tags = @ \ ids])

-----------------------------------------------------------------------------
(* COPY FROM source: all checks, then the main rows, then their dependencies. *)
\* Dependencies are copied whole, unless the target has a row of that id.
WithDeps(c, s, deps) ==
  LET ts == deps \cap TagIds IN
  [ench |-> c.ench @@ [e \in deps \cap Enchs |-> s.ench[e]],
   eq |-> c.eq @@ [q \in deps \cap Equips |-> s.eq[q]],
   tags |-> c.tags \cup ts,
   res |-> [raw |-> [t \in ts |-> RawValues(s.res, t)] @@ c.res.raw,
            cache |-> [t \in DOMAIN c.res.cache \ ts |-> c.res.cache[t]]]]

\* The end of COPY: main is the target with the main rows written.
Copied(s, ids, mode, override, before, main, refs) ==
  /\ override \/ ids \cap Present(before) = {}
  /\ mode = "strict" => refs \subseteq Present(before)
  /\ Write(current, before,
           IF mode = "deps" THEN WithDeps(main, s, Closure(s, ids) \ Present(before)) ELSE main)
  /\ loose' = (loose \/ mode = "ignore")

\* A column list must name id, the levels and supported_items.
CopyEnch(source, ids, whole, mode, override) ==
  LET s == profiles[source]
      rows == [e \in ids |-> IF whole THEN s.ench[e] ELSE [excl |-> {}, supp |-> s.ench[e].supp]]
  IN Copied(s, ids, mode, override, Now, [Now EXCEPT !.ench = rows @@ @],
            UNION {EnchRefs(rows[e]) : e \in ids})

CopyEq(source, ids, whole, mode, override) ==
  LET s == profiles[source]
      rows == [q \in ids |-> IF whole THEN s.eq[q] ELSE Unset]
  IN Copied(s, ids, mode, override, Now, [Now EXCEPT !.eq = rows @@ @], {rows[q] : q \in ids})

\* Without the column values the target's resolver is not touched.
CopyTags(source, ids, whole, mode, override) ==
  LET s == Listed(profiles[source])
      here == IF source = current THEN s ELSE Now
      values == IF whole THEN UNION {RawValues(s.res, t) : t \in ids} ELSE {}
      before == IF mode = "strict" THEN Checked(here, values) ELSE here
      written == [raw |-> [t \in ids |-> RawValues(s.res, t)] @@ before.res.raw,
                  cache |-> Without(before.res.cache, ids)]
  IN /\ mode = "strict" => Unresolved(here, values) = {}
     /\ Copied(s, ids, mode, override, before,
               [before EXCEPT !.tags = @ \cup ids, !.res = IF whole THEN written ELSE @], {})

Copy(source, whole, mode, override) ==
  /\ Exists(current) /\ Exists(source)
  /\ \/ \E ids \in Matches(DOMAIN profiles[source].ench) : CopyEnch(source, ids, whole, mode, override)
     \/ \E ids \in Matches(DOMAIN profiles[source].eq) : CopyEq(source, ids, whole, mode, override)
     \/ \E ids \in Matches(profiles[source].tags) : CopyTags(source, ids, whole, mode, override)

-----------------------------------------------------------------------------
(* MERGE and FORK name their target; FORK does not switch to it.            *)
\* The source wins; so do its values, of every tag that has a row by then.
Merged(c, s) ==
  LET ts == (c.tags \cup s.tags) \cap DOMAIN s.res.raw IN
  [ench |-> s.ench @@ c.ench, eq |-> s.eq @@ c.eq, tags |-> c.tags \cup s.tags,
   res |-> [raw |-> [t \in ts |-> s.res.raw[t]] @@ c.res.raw, cache |-> Without(c.res.cache, ts)]]

\* A source without a row affects none: the executor has an undo entry for
\* the statement then, and the session no note of it.
Merge(dest, source) ==
  /\ Exists(dest) /\ Exists(source) /\ dest # source
  /\ LET s == profiles[source] IN
     /\ MergesEmpty \/ Present(s) # {}
     /\ profiles' = [profiles EXCEPT ![dest] = Merged(@, s)]
     /\ Baseline(dest) /\ Push(dest, profiles[dest], FALSE) /\ Note(dest, Present(s) # {})
     /\ UNCHANGED loose

Fork(source, dest) ==
  /\ Exists(source) /\ ~Exists(dest)
  /\ profiles' = (dest :> profiles[source]) @@ profiles
  /\ Baseline(dest) /\ Push(dest, Empty, TRUE) /\ Note(dest, TRUE)
  /\ UNCHANGED loose

-----------------------------------------------------------------------------
(* What the session does itself.                                            *)
\* A write that is refused, on the profile it names.
Refuse(p) ==
  /\ Baseline(p) /\ baselines' # baselines
  /\ UNCHANGED <<profiles, current, undo, history, dirty, claimed, disk, writes, loose, trail>>

\* SELECT from tags, and everything else that reads expansions.
Select ==
  /\ Exists(current) /\ profiles' = [profiles EXCEPT ![current] = Listed(@)] /\ profiles' # profiles
  /\ UNCHANGED <<current, undo, sessionVars, writes, loose, trail>>

Use(p) ==
  /\ Exists(p) /\ p # current /\ current' = p
  /\ UNCHANGED <<profiles, undo, sessionVars, writes, loose, trail>>

\* Mutant: the snapshot shares the tag resolver of its profile.
Restored_SharesResolver(p, before) == [before EXCEPT !.res = profiles[p].res]

Restored(p, before) == before

\* The executor's entry is of the profile it names; the session takes the
\* last of its own notes for it.
Undo ==
  /\ undo # <<>>
  /\ LET e == Last(undo) IN
     profiles' = IF e.created THEN Without(profiles, {e.profile})
                 ELSE [profiles EXCEPT ![e.profile] = Restored(e.profile, e.before)]
  /\ undo' = Front(undo) /\ trail' = Front(trail)
  /\ IF history = <<>> THEN UNCHANGED <<history, dirty, baselines>>
     ELSE LET p == Last(history) IN
          /\ history' = Front(history)
          /\ dirty' = IF p \in DOMAIN profiles' THEN dirty \cup {p} ELSE dirty \ {p}
          /\ baselines' = IF p \in DOMAIN profiles' THEN baselines ELSE Without(baselines, {p})
  /\ UNCHANGED <<current, claimed, disk, writes, loose>>

\* Mutant: the names that this session has written are not remembered.
Collides_Never(p, others) == FALSE

\* Another profile has claimed the file, before this SAVE or during it.
Collides(p, others) ==
  \/ FileOf[p] \in DOMAIN claimed /\ claimed[FileOf[p]] # p
  \/ \E n \in others : FileOf[n] = FileOf[p]

\* SAVE writes one file after the other and gives up at the first that
\* collides or cannot be written.
Save(all) ==
  LET targets == SelectSeq(Names, LAMBDA p : p \in dirty /\ (all \/ p = current))
      Before(i) == {targets[j] : j \in 1 .. i - 1}
  IN \E n \in 0 .. Len(targets) :
       LET done == Before(n + 1) IN
       /\ done # {}
       /\ \A i \in 1 .. n : ~Collides(targets[i], Before(i))
       /\ claimed' = [f \in {FileOf[p] : p \in done} |-> CHOOSE p \in done : FileOf[p] = f] @@ claimed
       /\ disk' = [f \in {FileOf[p] : p \in done} |->
                     LET p == CHOOSE q \in done : FileOf[q] = f
                     IN [name |-> p, rows |-> Saved(profiles[p])]] @@ disk
       /\ dirty' = dirty \ done /\ baselines' = Without(baselines, done)
       /\ UNCHANGED <<profiles, current, undo, history, writes, loose, trail>>

-----------------------------------------------------------------------------
Insert ==
  \/ \E e \in Enchs, row \in EnchRows : InsertEnch(e, row)
  \/ \E q \in Equips, t \in TagIds : InsertEq(q, t)
  \/ \E t \in TagIds, values \in Values : InsertTag(t, values)

Update ==
  /\ Exists(current)
  /\ \/ \E ids \in Matches(DOMAIN Now.ench), touched \in SUBSET {"excl", "supp"}, row \in EnchRows :
          UpdateEnch(ids, touched, row)
     \/ \E ids \in Matches(DOMAIN Now.eq), touched \in BOOLEAN, t \in TagIds : UpdateEq(ids, touched, t)
     \/ \E ids \in Matches(Now.tags), touched \in BOOLEAN, values \in Values :
          UpdateTags(ids, touched, values)

DeleteSome ==
  /\ Exists(current)
  /\ \E ids \in Matches(DOMAIN Now.ench) \cup Matches(DOMAIN Now.eq) \cup Matches(Now.tags) : Delete(ids)

Given == ToSet(Names)
Writes ==
  \/ "insert" \in Statements /\ Insert
  \/ "update" \in Statements /\ Update
  \/ "delete" \in Statements /\ DeleteSome
  \/ "copy" \in Statements /\
       \E s \in Given, whole, override \in BOOLEAN, mode \in Modes : Copy(s, whole, mode, override)
  \/ "merge" \in Statements /\ \E d, s \in Given : Merge(d, s)
  \/ "fork" \in Statements /\ \E d, s \in Given : Fork(s, d)

SqlNext ==
  \/ Writes \/ Undo
  \/ "refuse" \in Statements /\ \E p \in Given : Refuse(p)
  \/ "select" \in Statements /\ Select
  \/ "use" \in Statements /\ \E p \in Given : Use(p)
  \/ "save" \in Statements /\ \E all \in BOOLEAN : Save(all)

-----------------------------------------------------------------------------
\* Referential integrity of enchantments and equipment over any sequence of
\* statements without COPY WITH IGNORE: what a row refers to is there, but for
\* the categories that are only shown and those a column list left out.
ReferencesHold ==
  ~loose => \A p \in DOMAIN profiles : LET c == profiles[p] IN
    /\ \A e \in DOMAIN c.ench : EnchRefs(c.ench[e]) \subseteq Present(c)
    /\ \A q \in DOMAIN c.eq : c.eq[q] \in c.tags \cup {Legacy, Unset}

\* A profile that is not dirty is what a reload would read of it, and what is
\* saved stays so. Only the file of a loaded profile, which no SAVE of this
\* session has claimed, can be written by a fork whose name maps to it; from
\* then on it is the fork's.
Overwritten(p) ==
  p \in DOMAIN Loaded /\ FileOf[p] \in DOMAIN claimed /\ claimed[FileOf[p]] # p
CleanIsSaved ==
  \A p \in DOMAIN profiles \ dirty :
    \/ FileOf[p] \in DOMAIN disk /\ disk[FileOf[p]] = [name |-> p, rows |-> Saved(profiles[p])]
    \/ Overwritten(p)

\* UNDO brings every profile, its tag values included, back to what it was
\* before the last write that has not been undone.
UndoIsExact ==
  Len(undo') < Len(undo) =>
    [n \in DOMAIN profiles' |-> Saved(profiles'[n])] = Last(trail)
=============================================================================

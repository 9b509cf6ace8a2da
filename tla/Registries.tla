------------------------------ MODULE Registries ------------------------------
(* From data files to what a solve sees: RegistryLoader turns the rows of a  *)
(* pack into registries on top of the built-in data and keeps the pack's own *)
(* content, LimitedLevelCalculator adds the levels of the enchanting table,  *)
(* and RegistryHelper lays the loaded profiles over one another. A profile   *)
(* here is its tags, its items and enchantments by id, and the values of its *)
(* tags; an id that has no namespace in the file stands in Full.             *)
EXTENDS Integers, Sequences, SequencesExt, FiniteSetsExt, Functions, TLC

CONSTANTS
  Builtin,   \* the rows of vanilla.json
  Packs,     \* the packs that may be loaded, as their rows
  Full,      \* name without a namespace -> id
  Category,  \* short name of a category -> its id
  Own,       \* item -> the category that is called like the item
  Lower,     \* display name -> the name in lower case
  Invalid,   \* texts that are not ids
  Power,     \* item -> its enchantability
  MaxLoads   \* bound: packs over the built-in data

VARIABLES
  packs,    \* the packs that were loaded, the lowest first
  owns,     \* their profiles
  view      \* the effective view of the last one

registryVars == <<packs, owns, view>>

Least(a, b) == IF a < b THEN a ELSE b
Id(text) == IF text \in DOMAIN Full THEN Full[text] ELSE text
Bare(id) == IF \E t \in DOMAIN Full : Full[t] = id THEN CHOOSE t \in DOMAIN Full : Full[t] = id ELSE id

-----------------------------------------------------------------------------
(* One row over the row of the same id: what the new one provides wins, and  *)
(* sets only grow.                                                           *)
Given(new, old) == IF new > 0 THEN new ELSE old
Renamed(new, old) == IF new = "" \/ Lower[new] = Lower[old] THEN old ELSE new
MergeEnch(old, in) ==
  [name |-> Renamed(in.name, old.name),
   platform |-> IF in.platform = "none" THEN old.platform ELSE in.platform,
   max |-> Given(in.max, old.max), mul |-> Given(in.mul, old.mul),
   provided |-> old.provided \/ in.provided,
   limited |-> IF in.provided THEN in.limited ELSE old.limited,
   treasure |-> old.treasure \/ in.treasure,
   base |-> Given(in.base, old.base), step |-> Given(in.step, old.step),
   excl |-> old.excl \cup in.excl, supp |-> old.supp \cup in.supp]
MergeEquip(old, in) ==
  [name |-> Renamed(in.name, old.name), dur |-> Given(in.dur, old.dur),
   category |-> IF in.category = "" THEN old.category ELSE in.category]

\* References to tags and items that are not there are dropped.
Supported(r, d) == {Id(ref) : ref \in d.refs \ {""}} \cap (r.tags \cup DOMAIN r.eq)
PlatformOf(text) ==
  CASE text = "" -> "all" [] text \in {"java", "bedrock", "all"} -> text [] OTHER -> "none"
EnchRow(r, d) ==
  [name |-> d.name, platform |-> PlatformOf(d.platform), max |-> d.max, mul |-> d.mul,
   provided |-> d.provided, limited |-> d.limited, treasure |-> d.treasure, base |-> d.base,
   step |-> d.step, excl |-> {Id(e) : e \in d.excl}, supp |-> Supported(r, d)]

\* Mutant: the new row takes the place of the old one.
LoadEnch_Replaces(r, d) ==
  IF Supported(r, d) = {} THEN r ELSE [r EXCEPT !.ench = (Id(d.id) :> EnchRow(r, d)) @@ @]

\* from_dto(), one enchantment: one without a reference left is skipped, and
\* so is one that is not valid after the merge.
LoadEnch(r, d) ==
  LET id == Id(d.id)
      row == IF id \in DOMAIN r.ench THEN MergeEnch(r.ench[id], EnchRow(r, d)) ELSE EnchRow(r, d)
  IN IF Supported(r, d) = {} \/ row.max <= 0 \/ row.mul <= 0 THEN r
     ELSE [r EXCEPT !.ench = (id :> row) @@ @]

CategoryId(text) == IF text \in DOMAIN Category THEN Category[text] ELSE text
LoadEquip(r, d) ==
  LET id == Id(d.id)
      new == [name |-> d.name, category |-> CategoryId(d.category), dur |-> d.dur]
      row == IF id \in DOMAIN r.eq THEN MergeEquip(r.eq[id], new) ELSE new
  IN IF row.dur <= 0 /\ row.category = Own[id] /\ row.name = "" THEN r
     ELSE [r EXCEPT !.eq = (id :> row) @@ @]

\* populate(): the items first, so that enchantments can refer to them.
Populated(r, rows) == FoldLeft(LoadEnch, FoldLeft(LoadEquip, r, rows.eq), rows.ench)

\* resolve(): into empty registries, with the tags that are known.
Resolved(tags, rows) == Populated([tags |-> tags, eq |-> <<>>, ench |-> <<>>], rows)
Vanilla == Resolved(DOMAIN Builtin.tags, Builtin)

\* resolve_own_content(): the pack is loaded over the built-in data.
Universe(rows) == Populated([Vanilla EXCEPT !.tags = @ \cup DOMAIN rows.tags], rows)
Ids(rows) == {Id(rows[k].id) : k \in DOMAIN rows}
OwnContent(rows) ==
  LET r == Universe(rows)
  IN [tags |-> r.tags, eq |-> Restrict(r.eq, Ids(rows.eq) \cap DOMAIN r.eq),
      ench |-> Restrict(r.ench, Ids(rows.ench) \cap DOMAIN r.ench)]

\* A text that is not an id ends the load with an exception; the ids that an
\* enchantment excludes are only looked at when it is not skipped.
Refused(rows) ==
  \/ \E k \in DOMAIN rows.eq : {rows.eq[k].id, CategoryId(rows.eq[k].category)} \cap Invalid # {}
  \/ \E k \in DOMAIN rows.ench :
       \/ ({rows.ench[k].id} \cup rows.ench[k].refs) \cap Invalid # {}
       \/ rows.ench[k].excl \cap Invalid # {} /\ Supported(Universe(rows), rows.ench[k]) # {}

\* to_dto(): references are written as they are, excluded ids without the
\* namespace of the game.
EnchData(r, id) ==
  LET e == r.ench[id]
  IN [id |-> id, name |-> e.name, platform |-> e.platform, max |-> e.max, mul |-> e.mul,
      provided |-> e.provided, limited |-> e.limited, treasure |-> e.treasure, base |-> e.base,
      step |-> e.step, excl |-> {Bare(x) : x \in e.excl}, refs |-> e.supp]
ShortName(category) ==
  IF \E t \in DOMAIN Category : Category[t] = category
  THEN CHOOSE t \in DOMAIN Category : Category[t] = category ELSE "any"
\* The name of a tag is its id without the "#".
EquipData(r, id) ==
  [id |-> id, name |-> r.eq[id].name, dur |-> r.eq[id].dur,
   category |-> IF r.eq[id].category \in r.tags THEN "tag name" ELSE ShortName(r.eq[id].category)]
Written(r) ==
  [tags |-> <<>>, ench |-> SetToSeq({EnchData(r, id) : id \in DOMAIN r.ench}),
   eq |-> SetToSeq({EquipData(r, id) : id \in DOMAIN r.eq})]

-----------------------------------------------------------------------------
(* Tag values, levels of the enchanting table, and profiles in layers        *)

\* load_item_tags_into() over the tags of the built-in data.
Values(rows) ==
  [t \in DOMAIN Builtin.tags \cup DOMAIN rows.tags |->
     IF t \notin DOMAIN rows.tags THEN Builtin.tags[t].values
     ELSE IF t \notin DOMAIN Builtin.tags \/ rows.tags[t].replace THEN rows.tags[t].values
     ELSE Builtin.tags[t].values \cup rows.tags[t].values]

\* round((31 + e / 2) * 1.15) in whole numbers.
MaxPower(e) == IF e <= 0 THEN 0 ELSE (115 * (62 + e) + 100) \div 200
LimitedLevel(info, values) ==
  LET items == UNION {IF ref \in DOMAIN values THEN values[ref] ELSE {ref} : ref \in info.supp}
      able == {i \in items \cap DOMAIN Power : Power[i] > 0 /\ MaxPower(Power[i]) >= info.base}
      Level(i) == Least((MaxPower(Power[i]) - info.base) \div info.step + 1, info.max)
  IN IF info.treasure THEN 0
     ELSE IF info.base > 0 /\ info.step > 0 THEN Max({1} \cup {Level(i) : i \in able})
     ELSE IF info.provided THEN info.limited ELSE info.max
Computed(r, values) ==
  [tags |-> r.tags, eq |-> r.eq, values |-> values,
   ench |-> [id \in DOMAIN r.ench |-> [r.ench[id] EXCEPT !.limited = LimitedLevel(r.ench[id], values)]]]

ProfileOf(rows) == Computed(OwnContent(rows), Values(rows))
Root == Computed(Vanilla, [t \in DOMAIN Builtin.tags |-> Builtin.tags[t].values])

\* merge() and unite(): the rows of the upper profile take the place of those
\* of the lower one.
Merged(low, high) ==
  [tags |-> low.tags \cup high.tags, eq |-> high.eq @@ low.eq, ench |-> high.ench @@ low.ench]
Filtered(p, ids) == [p EXCEPT !.ench = Restrict(@, DOMAIN @ \cap ids)]
Intersected(a, b) ==
  [tags |-> a.tags \cap b.tags, eq |-> Restrict(a.eq, DOMAIN a.eq \cap DOMAIN b.eq),
   ench |-> Restrict(a.ench, DOMAIN a.ench \cap DOMAIN b.ench)]
Subtracted(a, b) ==
  [tags |-> a.tags \ b.tags, eq |-> Restrict(a.eq, DOMAIN a.eq \ DOMAIN b.eq),
   ench |-> Restrict(a.ench, DOMAIN a.ench \ DOMAIN b.ench)]
\* Two rows of one id are equal to diff(), whatever they hold.
Diff(a, b) ==
  [added |-> DOMAIN b.ench \ DOMAIN a.ench, removed |-> DOMAIN a.ench \ DOMAIN b.ench, modified |-> {}]

\* Mutant: the lowest source that knows a tag gives its values.
Resolver_Lowest(tags, sources) ==
  [t \in tags |->
    LET knows == {k \in DOMAIN sources : t \in DOMAIN sources[k].values}
    IN IF knows = {} THEN {} ELSE sources[Min(knows)].values[t]]

\* build_tag_resolver(): the values of a tag are those of the highest source
\* that knows it; a source that is a pack knows all built-in tags.
Resolver(tags, sources) ==
  [t \in tags |->
    LET knows == {k \in DOMAIN sources : t \in DOMAIN sources[k].values}
    IN IF knows = {} THEN {} ELSE sources[Max(knows)].values[t]]
Effective(sources) ==
  LET merged == FoldLeft(Merged, [tags |-> {}, eq |-> <<>>, ench |-> <<>>], sources)
  IN [tags |-> merged.tags, eq |-> merged.eq, ench |-> merged.ench,
      values |-> Resolver(merged.tags, sources)]

-----------------------------------------------------------------------------
RegistryInit == packs = <<>> /\ owns = <<>> /\ view = Effective(<<Root>>)

LoadPack(rows) ==
  /\ Len(packs) < MaxLoads /\ ~Refused(rows)
  /\ packs' = Append(packs, rows) /\ owns' = Append(owns, ProfileOf(rows))
  /\ view' = Effective(<<Root>> \o owns')
RefusePack(rows) == Len(packs) < MaxLoads /\ Refused(rows) /\ UNCHANGED registryVars

RegistryNext == \E rows \in Packs : LoadPack(rows) \/ RefusePack(rows)

-----------------------------------------------------------------------------
\* A valid row comes to nothing or to one that refers to tags and items that
\* are in the view with it, however many profiles lie over one another.
ViewRefersToItself ==
  \A id \in DOMAIN view.ench :
    LET e == view.ench[id]
    IN /\ e.max > 0 /\ e.mul > 0 /\ e.supp # {} /\ e.supp \subseteq view.tags \cup DOMAIN view.eq
       /\ e.limited >= 0 /\ (e.limited = 0 => e.treasure \/ e.provided)
       /\ (e.limited > e.max => e.provided)

\* "A narrowing declaration would contradict items that already exist": what
\* the built-in data allows and forbids stays allowed and forbidden.
PacksOnlyExtend ==
  /\ \A id \in DOMAIN Vanilla.ench :
       /\ id \in DOMAIN view.ench
       /\ Vanilla.ench[id].supp \subseteq view.ench[id].supp
       /\ Vanilla.ench[id].excl \subseteq view.ench[id].excl
  /\ \A id \in DOMAIN Vanilla.eq :
       /\ id \in DOMAIN view.eq
       /\ Vanilla.eq[id].dur > 0 => view.eq[id].dur > 0
       /\ Vanilla.eq[id].name # "" => view.eq[id].name # ""

\* The pack that was loaded last has its tags as its files say, over the
\* built-in ones, whatever lies below it.
LastPackRules ==
  packs # <<>> => LET rows == Last(packs) IN
    \A t \in DOMAIN rows.tags : rows.tags[t].values \subseteq view.values[t]

\* A pack that is loaded twice, and registries that are written as rows and
\* read again, are what they were; rows that complete a refused one and
\* categories that are tags do not survive this.
ReloadChangesNothing ==
  packs # <<>> =>
    LET r == Universe(Last(packs))
        again == Populated(r, Last(packs))
        back == Resolved(r.tags, Written(r))
        Complete(d) == d.max > 0 /\ d.mul > 0
    IN /\ again.eq = r.eq
       /\ (\A k \in DOMAIN Last(packs).ench : Complete(Last(packs).ench[k])) => again = r
       /\ back.ench = r.ench
       /\ \A id \in DOMAIN r.eq : r.eq[id].category \notin r.tags => back.eq[id] = r.eq[id]

\* The parts of a profile that diff(), intersect() and subtract() name make up
\* the whole.
PartsMakeTheWhole ==
  \A k \in DOMAIN owns :
    LET a == owns[k]
        common == Intersected(a, view)
        rest == Subtracted(view, a)
    IN /\ Diff(view, a).added = {} /\ Diff(a, view).added = DOMAIN rest.ench
       /\ Merged(rest, common) = [tags |-> view.tags, ench |-> a.ench @@ view.ench, eq |-> a.eq @@ view.eq]
       /\ Filtered(view, DOMAIN common.ench).ench = Intersected(view, a).ench
=============================================================================

---------------------------- MODULE CompactAdapter ----------------------------
(* What a strategy gets of a request: the enchantments that apply to the     *)
(* target under local numbers, in the order of their ids, with the conflicts *)
(* among them; the target, and what is there to forge it from. The compact   *)
(* input has the form that Anvil and Search work on. recall() leads back.    *)
EXTENDS Integers, Sequences, SequencesExt, FiniteSetsExt, TLC

CONSTANTS
  Sorted,     \* the ids of enchantments in their order
  Registries, \* registries to solve with: id -> [max, mul, platform, supp, excl]
  Targets,    \* target items: [id, enchs, ppn, dur]
  Payloads,   \* what a request offers: [mode, source] or [mode, extra, priorities]
  Books,      \* the ids of books, the enchanted one among them
  Enchanted,  \* the id of the enchanted book
  Known,      \* equipment of the registry: id -> max_durability
  TagsOf,     \* item -> the tags that hold it
  MaxEnchs,   \* EnchSet::MAX_SIZE
  Byte, Half  \* 2^8 and 2^15

VARIABLES
  registry, target, payload, platform,  \* the request
  input,    \* the compact input, or Nothing
  output    \* what recall() makes of it, or Nothing

adapterVars == <<registry, target, payload, platform, input, output>>
Nothing == <<>>

\* uint8_t and int16_t.
Narrow(n) == n % Byte
Short(n) == ((n + Half) % (2 * Half)) - Half

IsBook(id) == id \in Books
IsSupported(info, id) == id \in info.supp \/ info.supp \cap TagsOf[id] # {}
Fits(info) == info.platform \in {"none", "all", platform}
IsApplicable(info, id) == IsSupported(info, id) /\ Fits(info)

(* The first MaxEnchs ids of the registry that can go onto the target, which *)
(* a book takes all of.                                                      *)
Ordered == SelectSeq(Sorted, LAMBDA id : id \in DOMAIN registry)
Locals ==
  SelectSeq(SubSeq(Ordered, 1, IF Len(Ordered) < MaxEnchs THEN Len(Ordered) ELSE MaxEnchs),
            LAMBDA id : IF IsBook(target.id) THEN Fits(registry[id])
                        ELSE IsApplicable(registry[id], target.id))

\* Mutant: the conflicts are left out.
CompactInfo_NoConflicts(locals, i) ==
  LET info == registry[locals[i]]
  IN [mul |-> Narrow(info.mul), mul_b |-> Narrow(Max({1, info.mul \div 2})), max |-> Narrow(info.max),
      exclusive |-> {}, applies |-> TRUE]

\* exc_mask has bits for the local numbers given before this one.
CompactInfo(locals, i) ==
  LET info == registry[locals[i]]
  IN [mul |-> Narrow(info.mul), mul_b |-> Narrow(Max({1, info.mul \div 2})), max |-> Narrow(info.max),
      exclusive |-> {j \in 1 .. i - 1 : locals[j] \in info.excl}, applies |-> TRUE]

\* to_local_id(), to_global_id(); what has no local number is left out.
Local(locals, id) == CHOOSE i \in DOMAIN locals : locals[i] = id
Remap(locals, enchs) ==
  [i \in {i \in DOMAIN locals : locals[i] \in DOMAIN enchs} |-> Narrow(enchs[locals[i]])]
ToGlobal(locals, enchs) ==
  [id \in {locals[i] : i \in DOMAIN enchs} |-> enchs[Local(locals, id)]]

(* What is refused: an enchantment of the registry that cannot go there or a *)
(* level above its maximum. One that the registry does not have is ignored.  *)
TooHigh(enchs) == \E id \in DOMAIN enchs \cap DOMAIN registry : enchs[id] > registry[id].max
TargetRefuses(locals, enchs) ==
  TooHigh(enchs) \/ ~((DOMAIN enchs \cap DOMAIN registry) \subseteq ToSet(locals))

ItemRefuses(item) ==
  \/ TooHigh(item.enchs)
  \/ /\ ~IsBook(item.id) /\ item.id \in DOMAIN Known
     /\ \E id \in DOMAIN item.enchs \cap DOMAIN registry : ~IsSupported(registry[id], item.id)

\* Mutant: equipment of another kind is taken for the target.
Usable_AllEquipment(extra) ==
  SelectSeq([k \in DOMAIN extra |-> k],
            LAMBDA k : IF IsBook(extra[k].id) THEN extra[k].enchs # <<>> ELSE ~IsBook(target.id))

\* Items that can be forged, by their places: books with something in them,
\* and equipment of the kind of the target.
Usable(extra) ==
  SelectSeq([k \in DOMAIN extra |-> k],
            LAMBDA k : IF IsBook(extra[k].id) THEN extra[k].enchs # <<>>
                       ELSE extra[k].id = target.id /\ ~IsBook(target.id))

FromDomain(locals, item) ==
  [type |-> IF IsBook(item.id) THEN "Book" ELSE "Equip", ppn |-> Narrow(item.ppn),
   dur |-> Short(item.dur), enchs |-> Remap(locals, item.enchs)]
\* Every piece of equipment is the target; a book has no durability.
ToDomain(locals, item) ==
  IF item.type = "Book" THEN [id |-> Enchanted, enchs |-> ToGlobal(locals, item.enchs), ppn |-> item.ppn, dur |-> 0]
  ELSE [id |-> target.id, enchs |-> ToGlobal(locals, item.enchs), ppn |-> item.ppn, dur |-> item.dur]

Refuses(locals) ==
  \/ payload.mode = "direct" /\ target.enchs = <<>>
  \/ TargetRefuses(locals, target.enchs)
  \/ payload.mode = "direct" /\ TargetRefuses(locals, payload.source)
  \/ payload.mode = "inventory" /\ \E k \in ToSet(Usable(payload.extra)) : ItemRefuses(payload.extra[k])

Compact(locals) ==
  LET places == Usable(payload.extra)
      common == [mode |-> payload.mode, ids |-> locals,
                 registry |-> [i \in DOMAIN locals |-> CompactInfo(locals, i)],
                 max_dur |-> IF target.id \in DOMAIN Known /\ ~IsBook(target.id) THEN Known[target.id] ELSE 0,
                 target |-> FromDomain(locals, target)]
  IN IF payload.mode = "direct"
     THEN common @@ [source |-> Remap(locals, payload.source)]
     ELSE common @@ [available |-> [k \in DOMAIN places |-> FromDomain(locals, payload.extra[places[k]])],
                     priorities |-> [k \in DOMAIN places |->
                       IF places[k] \in DOMAIN payload.priorities THEN payload.priorities[places[k]] ELSE 99]]

-----------------------------------------------------------------------------
AdapterInit ==
  /\ registry \in Registries /\ target \in Targets /\ payload \in Payloads
  /\ platform \in {"java", "bedrock"} /\ input = Nothing /\ output = Nothing

Apply ==
  /\ input = Nothing /\ ~Refuses(Locals)
  /\ input' = Compact(Locals) /\ UNCHANGED <<registry, target, payload, platform, output>>

\* recall(): the request as the answer shows it again.
Recall ==
  /\ input # Nothing /\ output = Nothing
  /\ output' = [target |-> ToDomain(input.ids, input.target),
                original |-> IF input.mode = "direct" THEN ToGlobal(input.ids, input.source) ELSE <<>>,
                items |-> IF input.mode = "direct" THEN <<>>
                          ELSE [k \in DOMAIN input.available |-> ToDomain(input.ids, input.available[k])]]
  /\ UNCHANGED <<registry, target, payload, platform, input>>

AdapterNext == Apply \/ Recall

-----------------------------------------------------------------------------
\* Two local numbers conflict when one of the two enchantments excludes the
\* other, in a registry where both do or where the later one does.
ConflictsAreKept ==
  input # Nothing =>
    \A i, j \in DOMAIN input.registry : i < j =>
      LET a == input.ids[i]
          b == input.ids[j]
          conflict == i \in input.registry[j].exclusive \/ j \in input.registry[i].exclusive
      IN /\ conflict => a \in registry[b].excl \/ b \in registry[a].excl
         /\ a \in registry[b].excl => conflict

\* What is asked for and known arrives, with the numbers it has, or the
\* request is refused; a refusal has a reason in the whole registry, or the
\* enchantment is not among the first MaxEnchs.
Exact(got, want) ==
  \A id \in DOMAIN want \cap DOMAIN registry : want[id] < Byte => id \in DOMAIN got /\ got[id] = want[id]
RequestIsKept ==
  /\ output # Nothing =>
       /\ Exact(output.target.enchs, target.enchs)
       /\ DOMAIN output.target.enchs \subseteq DOMAIN target.enchs
       /\ (target.ppn < Byte => output.target.ppn = target.ppn)
       /\ payload.mode = "direct" => Exact(output.original, payload.source)
  /\ Refuses(Locals) /\ Len(Ordered) <= MaxEnchs =>
       \/ payload.mode = "direct" /\ target.enchs = <<>>
       \/ \E items \in {<<target>>, IF payload.mode = "direct" THEN <<[target EXCEPT !.enchs = payload.source]>>
                                    ELSE payload.extra} :
            \E k \in DOMAIN items : \E id \in DOMAIN items[k].enchs \cap DOMAIN registry :
              \/ items[k].enchs[id] > registry[id].max
              \/ ~IsBook(items[k].id) /\ ~IsSupported(registry[id], items[k].id)
              \/ ~Fits(registry[id])

\* The items come back in their order, each with its own priority, and with
\* all that can go onto the target; nothing but the target's kind is equipment.
ItemsAreKept ==
  output # Nothing /\ payload.mode = "inventory" =>
    LET places == Usable(payload.extra)
    IN /\ Len(output.items) = Len(places) /\ Len(input.priorities) = Len(places)
       /\ \A k \in DOMAIN places :
            LET item == payload.extra[places[k]]
                back == output.items[k]
            IN /\ IsBook(item.id) = (back.id = Enchanted)
               /\ ~IsBook(item.id) => back.id = item.id /\ (item.dur < Half => back.dur = item.dur)
               /\ places[k] \in DOMAIN payload.priorities =>
                    input.priorities[k] = payload.priorities[places[k]]
               /\ \A id \in ToSet(input.ids) \cap DOMAIN item.enchs :
                    item.enchs[id] < Byte => back.enchs[id] = item.enchs[id]
=============================================================================

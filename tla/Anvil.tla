------------------------------- MODULE Anvil -------------------------------
(* Items, the forge engine and the estimates the strategies share.          *)
(* An item is [type, dur, ppn, enchs]; enchs maps the ids it carries to     *)
(* their levels. input is the AlgorithmInput of the run:                    *)
(*   config    platform, max_step_cost, and the ignore_... switches         *)
(*   registry  for each id [mul, mul_b, max, exclusive, applies]            *)
(*   max_dur, target, and source (direct) or available (inventory)          *)
EXTENDS Integers, Sequences, FiniteSets, FiniteSetsExt, SequencesExt, TLC

VARIABLE input

INT32_MAX == 2147483647
MaxPenaltyCount == 30                  \* 2^30 - 1 is the last penalty

Least(a, b) == IF a <= b THEN a ELSE b
Largest(a, b) == IF a <= b THEN b ELSE a

(* s stably sorted by tuples of numbers, compared from the left.            *)
Smaller(a, b) == \E n \in DOMAIN a : a[n] < b[n] /\ \A m \in 1 .. n - 1 : a[m] = b[m]
Ranks(key) ==
  [i \in DOMAIN key |-> Cardinality({j \in DOMAIN key : Smaller(key[j], key[i])}) + 1]
Placed(s, rank) == [k \in DOMAIN s |-> s[CHOOSE i \in DOMAIN s : rank[i] = k]]
SortedBy(s, Key(_)) == Placed(s, Ranks([i \in DOMAIN s |-> Append(Key(s[i]), i)]))
Listed(set) == FoldSet(LAMBDA x, s : Append(s, x), <<>>, set)
Ascending(ids) == SortedBy(Listed(ids), LAMBDA i : <<i>>)

----------------------------------------------------------------------------
(* EnchSet and EnchReg                                                      *)

Level(enchs, i) == IF i \in DOMAIN enchs THEN enchs[i] ELSE 0
Inserted(enchs, i, level) ==
  [k \in DOMAIN enchs \cup {i} |-> IF k = i THEN level ELSE enchs[k]]
ConflictMask(i) ==
  {j \in DOMAIN input.registry :
     j \in input.registry[i].exclusive \/ i \in input.registry[j].exclusive}
Clashing(enchs, i) == DOMAIN enchs \cap ConflictMask(i)
Multiplier(sac, i) ==
  IF sac.type = "Book" THEN input.registry[i].mul_b ELSE input.registry[i].mul

----------------------------------------------------------------------------
(* ForgeEngine                                                              *)

PenaltyCost(ppn) == IF ppn > MaxPenaltyCount THEN INT32_MAX ELSE 2^ppn - 1
Penalties(base, sac) ==
  IF input.config.ignore_penalty_cost THEN 0 ELSE PenaltyCost(base.ppn) + PenaltyCost(sac.ppn)

EstimateForgeCost_BothRows(base, sac) ==
  Penalties(base, sac)
    + MapThenSumSet(LAMBDA i : sac.enchs[i] * input.registry[i].mul, DOMAIN sac.enchs)
EstimateForgeCost(base, sac) ==
  Penalties(base, sac)
    + MapThenSumSet(LAMBDA i : sac.enchs[i] * Multiplier(sac, i), DOMAIN sac.enchs)

IsForgeable(base, sac) == base.type = "Equip" \/ (base.type = "Book" /\ sac.type = "Book")

Repairs(base, sac) ==
  /\ base.type = "Equip" /\ sac.type = "Equip"
  /\ ~input.config.ignore_repair_cost
  /\ base.dur < input.max_dur

(* What the sacrifice brings that the base lacks, in the order of the ids:  *)
(* each is refused by what the base holds by then.                          *)
Brought(base, sac) ==
  LET ids == {i \in DOMAIN sac.enchs \ DOMAIN base.enchs :
                base.type = "Book" \/ input.registry[i].applies}
      Bring(sum, i) ==
        IF Clashing(sum.enchs, i) # {} /\ ~input.config.ignore_incompatible
        THEN [sum EXCEPT !.cost = @ + IF input.config.platform = "Java"
                                      THEN Cardinality(Clashing(sum.enchs, i)) ELSE 0]
        ELSE [enchs |-> Inserted(sum.enchs, i, sac.enchs[i]),
              cost |-> sum.cost + sac.enchs[i] * Multiplier(sac, i)]
  IN FoldLeft(Bring, [enchs |-> base.enchs, cost |-> 0], Ascending(ids))

Raised(base, sac, i) ==
  IF base.enchs[i] = sac.enchs[i]
  THEN Least(sac.enchs[i] + 1, input.registry[i].max)
  ELSE Largest(base.enchs[i], sac.enchs[i])
RaiseCost(base, sac, i) ==
  (IF input.config.platform = "Java" THEN Raised(base, sac, i)
   ELSE Raised(base, sac, i) - base.enchs[i]) * Multiplier(sac, i)

(* forge(): the result and its cost; a pair it refuses stays as it is.      *)
ForgedWith(base, sac, brought) ==
  LET same == DOMAIN base.enchs \cap DOMAIN sac.enchs
      repaired == Least(base.dur + sac.dur + (input.max_dur * 12) \div 100, input.max_dur)
  IN [item |-> [type |-> base.type,
                dur |-> IF Repairs(base, sac) THEN repaired ELSE base.dur,
                ppn |-> 1 + Largest(base.ppn, sac.ppn),
                enchs |-> [i \in DOMAIN brought.enchs |->
                             IF i \in same THEN Raised(base, sac, i) ELSE brought.enchs[i]]],
      cost |-> Penalties(base, sac) + (IF Repairs(base, sac) THEN 2 ELSE 0) + brought.cost
                 + MapThenSumSet(LAMBDA i : RaiseCost(base, sac, i), same)]
Forge(base, sac) ==
  IF IsForgeable(base, sac) THEN ForgedWith(base, sac, Brought(base, sac))
  ELSE [item |-> base, cost |-> INT32_MAX]

----------------------------------------------------------------------------
(* SearchUtils                                                              *)

MeetsTarget(item) ==
  /\ item.type = input.target.type
  /\ \A i \in DOMAIN input.target.enchs : Level(item.enchs, i) >= input.target.enchs[i]

(* The first piece of equipment becomes the first item.                     *)
NormalizeBaseEquipment(items) ==
  IF \E i \in DOMAIN items : items[i].type = "Equip"
  THEN LET i == Min({j \in DOMAIN items : items[j].type = "Equip"})
       IN <<items[i]>> \o RemoveAt(items, i)
  ELSE items

WastesTarget(base, sac) ==
  \E i \in DOMAIN input.target.enchs :
    /\ Level(sac.enchs, i) > 0
    /\ Level(base.enchs, i) < input.target.enchs[i]
    /\ Clashing(base.enchs, i) # {}

AdmissibleForgeCost(base, sac) ==
  LET Overcharged(i) ==
        IF Clashing(base.enchs, i) # {} THEN sac.enchs[i]
        ELSE IF input.config.platform = "Bedrock"
        THEN Least(sac.enchs[i], Level(base.enchs, i)) ELSE 0
  IN EstimateForgeCost(base, sac)
       - MapThenSumSet(LAMBDA i : Overcharged(i) * Multiplier(sac, i), DOMAIN sac.enchs)

(* Levels by id, raised to what the items carry.                            *)
FillMaxLevels(levels, items) ==
  [i \in DOMAIN input.registry |->
     Max({levels[i]} \cup {Level(items[k].enchs, i) : k \in DOMAIN items})]
NoLevels == [i \in DOMAIN input.registry |-> 0]

(* What the levels still missing cost at least.                             *)
ComputeH(levels) ==
  MapThenSumSet(LAMBDA i : (input.target.enchs[i] - levels[i]) * input.registry[i].mul_b,
                {i \in DOMAIN input.target.enchs : levels[i] < input.target.enchs[i]})

Heuristic(items) == ComputeH(FillMaxLevels(NoLevels, items))

(* What is left when x took the place of s[i] and s[j] went.                *)
Joined(s, i, j, x) == [RemoveAt(s, j) EXCEPT ![IF j < i THEN i - 1 ELSE i] = x]
Merged(items, i, j) == Joined(items, i, j, Forge(items[i], items[j]).item)
Pairs(items) ==
  {p \in (DOMAIN items) \X (DOMAIN items) : p[1] # p[2] /\ IsForgeable(items[p[1]], items[p[2]])}
StepOf(base, sac, forged) ==
  [base |-> base, sacrifice |-> sac, result |-> forged.item, cost |-> forged.cost]
Step(base, sac) == StepOf(base, sac, Forge(base, sac))
PlanCost(steps) == FoldLeft(LAMBDA sum, s : sum + s.cost, 0, steps)

(* Everything forged into the first item, the cheapest estimate first: the  *)
(* cost when that reaches the target (_greedy_bound() of the searches).     *)
Absorbed(sum, forged) == [item |-> forged.item, cost |-> sum.cost + forged.cost]
Into(sum, x) == IF IsForgeable(sum.item, x) THEN Absorbed(sum, Forge(sum.item, x)) ELSE sum
AllInto(first, others) == FoldLeft(Into, [item |-> first, cost |-> 0], others)
CostIfLeveled(sum) ==
  IF \A i \in DOMAIN input.target.enchs : Level(sum.item.enchs, i) >= input.target.enchs[i]
  THEN sum.cost ELSE INT32_MAX
GreedyBound(items) ==
  CostIfLeveled(AllInto(items[1],
    SortedBy(Tail(items), LAMBDA b : <<EstimateForgeCost(items[1], b)>>)))

(* dfs_bound(): branch and bound with no more than the limit of nodes that  *)
(* the bounds of this model never reach. It is a cost that some plan has,   *)
(* and no plan is cheaper than the bound by less than its estimates show.   *)
RECURSIVE DfsBound(_, _, _)
DfsBound(items, g, best) ==
  IF MeetsTarget(items[1]) THEN Least(g, best)
  ELSE IF g + Heuristic(items) >= best \/ Len(items) < 2 THEN best
  ELSE LET open == {p \in Pairs(items) : g + EstimateForgeCost(items[p[1]], items[p[2]]) < best}
           order == SortedBy(Listed(open), LAMBDA p :
             <<IF p[1] = 1 THEN 0 ELSE 1, EstimateForgeCost(items[p[1]], items[p[2]])>>)
           Try(bound, p, forged) ==
             IF g + forged.cost >= bound THEN bound
             ELSE DfsBound(Joined(items, p[1], p[2], forged.item), g + forged.cost, bound)
       IN FoldLeft(LAMBDA bound, p : Try(bound, p, Forge(items[p[1]], items[p[2]])), best, order)

(* What a search is measured with: the least cost over all ways to forge    *)
(* whose steps stay within a cap (0: none), INT32_MAX when there is none. A *)
(* way ends when the first item is what was asked for, or only when no      *)
(* other item is left.                                                      *)
SumWithin(cost, rest, cap) ==
  IF (cap > 0 /\ cost > cap) \/ rest = INT32_MAX THEN INT32_MAX ELSE cost + rest
RECURSIVE CheapestPlan(_, _, _)
CheapestPlan(items, cap, all) ==
  IF items = <<>> THEN INT32_MAX
  ELSE IF MeetsTarget(items[1]) /\ (all => Len(items) = 1) THEN 0
  ELSE LET CostOf(p, forged) ==
             SumWithin(forged.cost, CheapestPlan(Joined(items, p[1], p[2], forged.item), cap, all), cap)
       IN Min({INT32_MAX} \cup {CostOf(p, Forge(items[p[1]], items[p[2]])) : p \in Pairs(items)})

(* A plan replays on the items it started from: each step takes two items   *)
(* that are there and an anvil takes, and leaves what was asked for.        *)
RECURSIVE Replays(_, _)
Replays(items, steps) ==
  IF steps = <<>> THEN \E k \in DOMAIN items : MeetsTarget(items[k])
  ELSE \E p \in Pairs(items) :
         /\ Head(steps) = Step(items[p[1]], items[p[2]])
         /\ Replays(Merged(items, p[1], p[2]), Tail(steps))
=============================================================================

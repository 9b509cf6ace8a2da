------------------------------ MODULE MCSearch ------------------------------
(* The strategies on small inputs, and the resolver on the inventories that *)
(* a shelf of items allows: each in a scene of its own.                     *)
(*   "hamming" "dp" "bb" "astar" "dfs" "ida" "diff" "balance"               *)
(*   "dp again" "astar again" "dfs again"   with a checkpoint and a resume  *)
(*   "shelf"   an inventory that is only resolved                           *)
EXTENDS Integers, Sequences, FiniteSets, TLC

VARIABLES scene, input, work, reports, status
searchVars == <<input, work, reports, status>>

Ench(mul, mulB, max, exclusive) ==
  [mul |-> mul, mul_b |-> mulB, max |-> max, exclusive |-> exclusive, applies |-> TRUE]
Registry == (1 :> Ench(2, 1, 3, {})) @@ (2 :> Ench(4, 2, 2, {})) @@ (3 :> Ench(8, 4, 2, {4}))
              @@ (4 :> Ench(2, 1, 1, {3})) @@ (5 :> [Ench(2, 1, 3, {}) EXCEPT !.applies = FALSE])
Java == [platform |-> "Java", max_step_cost |-> 0, ignore_penalty_cost |-> FALSE,
         ignore_repair_cost |-> FALSE, ignore_incompatible |-> FALSE, timed |-> FALSE,
         initial_bound |-> 2147483647, max_depth |-> 0, max_solutions |-> 0]
Bedrock == [Java EXCEPT !.platform = "Bedrock"]

Item(type, dur, ppn, enchs) == [type |-> type, dur |-> dur, ppn |-> ppn, enchs |-> enchs]
Sword(ppn, enchs) == Item("Equip", 10, ppn, enchs)
Worn(ppn, enchs) == Item("Equip", 4, ppn, enchs)
Book(ppn, enchs) == Item("Book", 0, ppn, enchs)
Direct(config, target, source) ==
  [mode |-> "direct", config |-> config, registry |-> Registry, max_dur |-> 10,
   target |-> target, source |-> source]
Inventory(config, target, available, priorities) ==
  [mode |-> "inventory", config |-> config, registry |-> Registry, max_dur |-> 10,
   target |-> target, available |-> available, priorities |-> priorities]

(* Direct inputs: levels to raise and enchantments to add, a conflict the   *)
(* target item has, target books, caps that hold or give way, the limits.   *)
L(a, b, c) == [i \in {i \in 1 .. 3 : <<a, b, c>>[i] > 0} |-> <<a, b, c>>[i]]
Straight == {
  Direct(Java, Sword(0, L(2, 1, 0)), <<>>),
  Direct(Java, Sword(0, L(2, 1, 0)), L(1, 0, 0)),
  Direct(Java, Sword(0, L(2, 1, 0)), L(3, 2, 0)),
  Direct(Java, Sword(1, L(3, 2, 1)), L(1, 0, 0)),
  Direct(Java, Sword(0, L(3, 1, 1)), L(2, 0, 0)),
  Direct(Java, Sword(0, L(2, 0, 1)), (4 :> 1)),
  Direct(Java, Book(0, L(2, 0, 1)), (4 :> 1)),
  Direct(Java, Book(0, L(2, 1, 1)), <<>>),
  Direct(Bedrock, Sword(0, L(2, 1, 1)), <<>>),
  Direct(Bedrock, Sword(0, L(2, 2, 2)), L(1, 1, 0)),
  Direct([Java EXCEPT !.max_step_cost = 6], Sword(1, L(2, 1, 1)), L(1, 0, 0)),
  Direct([Java EXCEPT !.max_step_cost = 2], Sword(1, L(2, 1, 0)), L(1, 0, 0)),
  Direct([Java EXCEPT !.max_solutions = 1], Sword(1, L(2, 1, 1)), L(1, 0, 0)),
  Direct([Java EXCEPT !.max_depth = 1], Sword(0, L(2, 1, 0)), L(1, 0, 0)),
  Direct([Java EXCEPT !.timed = TRUE], Sword(0, L(2, 1, 0)), L(1, 0, 0)),
  Direct([Java EXCEPT !.ignore_incompatible = TRUE], Sword(0, L(2, 0, 1)), (4 :> 1))}
Again == {p \in Straight : p.config = Java /\ p.target.ppn = 0 /\ p.target.enchs = L(2, 1, 0)}
Stocked == {
  Inventory(Java, Sword(0, L(2, 1, 0)),
            <<Book(0, L(1, 0, 0)), Book(1, L(2, 0, 0)), Sword(1, L(1, 0, 0)), Book(0, L(1, 1, 0)),
              Worn(0, (4 :> 1))>>, <<2, 1>>),
  Inventory(Java, Sword(0, L(3, 1, 0)),
            <<Book(0, L(1, 0, 0)), Book(0, L(1, 0, 0)), Worn(0, L(2, 0, 0)), Worn(1, L(0, 1, 0)),
              Sword(0, (4 :> 1))>>, <<>>),
  Inventory(Java, Book(0, L(3, 0, 0)),
            <<Book(0, L(1, 0, 0)), Book(0, L(1, 0, 0)), Book(0, L(2, 0, 0)), Book(1, L(0, 2, 0))>>, <<>>),
  Inventory(Java, Sword(0, L(0, 0, 1)), <<Sword(0, (4 :> 1)), Book(0, L(0, 0, 1))>>, <<>>)}

Shelf == <<Book(0, L(1, 0, 0)), Book(0, L(1, 0, 0)), Book(1, L(2, 0, 0)), Sword(1, L(1, 0, 0)),
           Book(0, L(1, 1, 0)), Worn(0, (4 :> 1)), Sword(0, L(2, 0, 0)), Worn(0, L(0, 0, 1)),
           Book(0, (4 :> 1) @@ (2 :> 1)), Book(0, L(1, 0, 1))>>
Wanted == {Sword(0, L(2, 1, 0)), Sword(0, L(3, 0, 0)), Sword(0, L(2, 0, 1)), Book(0, L(2, 1, 0))}
Taken == {S \in SUBSET DOMAIN Shelf : Cardinality(S) \in 1 .. 4}

Tiers == INSTANCE Greedy WITH Problems <- Straight \cup Stocked
Once == INSTANCE MergeTable WITH Problems <- Straight, MayResume <- FALSE, ParallelFrom <- 14
Twice == INSTANCE MergeTable WITH Problems <- Again, MayResume <- TRUE, ParallelFrom <- 3
Deep == INSTANCE DepthFirst WITH Problems <- Straight, MayResume <- FALSE, Polls <- {3, 100000}
DeepTwice == INSTANCE DepthFirst WITH Problems <- Again, MayResume <- TRUE, Polls <- {}
Simple == INSTANCE Greedy WITH Problems <- Straight

OfShelf(S) == LET ids == Tiers!Ascending(S) IN [k \in DOMAIN ids |-> Shelf[ids[k]]]
SearchInit ==
  \/ scene \in {"dp", "bb", "astar", "dfs", "ida", "diff", "balance"} /\ Once!Ready
  \/ scene = "hamming" /\ Tiers!Ready
  \/ scene \in {"dp again", "astar again", "dfs again"} /\ Twice!Ready
  \/ /\ scene = "shelf" /\ work = <<>> /\ reports = <<>> /\ status = "Ready"
     /\ \E target \in Wanted, S \in Taken : input = Inventory(Java, target, OfShelf(S), <<>>)
SearchNext ==
  /\ \/ scene = "hamming" /\ Tiers!HammingNext
     \/ scene = "dp" /\ Once!DpNext
     \/ scene = "bb" /\ Once!BbNext
     \/ scene = "astar" /\ Deep!AStarNext
     \/ scene = "dfs" /\ Deep!DfsNext
     \/ scene = "ida" /\ Deep!IdaNext
     \/ scene = "diff" /\ Simple!DiffNext
     \/ scene = "balance" /\ Simple!BalanceNext
     \/ scene = "dp again" /\ Twice!DpNext
     \/ scene = "astar again" /\ DeepTwice!AStarNext
     \/ scene = "dfs again" /\ DeepTwice!DfsNext
  /\ UNCHANGED scene

-----------------------------------------------------------------------------
Strategies == {"hamming", "dp", "bb", "astar", "dfs", "ida", "diff", "balance",
               "dp again", "astar again", "dfs again"}
Unlimited == ~input.config.timed /\ input.config.max_depth = 0 /\ input.config.max_solutions = 0
Costs == {Tiers!PlanCost(reports[k]) : k \in DOMAIN reports}
BestCost == Tiers!Min(Costs \cup {Tiers!INT32_MAX})

\* Every strategy: what report_solution() gets is a plan, each of whose steps
\* takes two items that are there, costs what the anvil asks, and which ends in
\* what was asked for; trees, pools and a resumed checkpoint lose none of it.
ReportedPlansReplay == scene \in Strategies => Tiers!PlansReplay

\* The exact strategies: no way to forge is cheaper than the plan reported by a
\* search that ran to its end. dp_merge forges all items into one, bb_dp too, and
\* within the cap if it can; A* where no level has to be raised by combining two
\* equal ones; DFS and IDA* on Java.
AreCheapest(cost, items) ==
  LET Cheapest(cap, all) == Tiers!CheapestPlan(items, cap, all)
      mayStopEarly == \/ scene \in {"astar", "astar again"} /\ Tiers!Heuristic(items) = 0
                      \/ scene \in {"dfs", "ida"} /\ input.config.platform = "Java"
                      \/ scene = "dfs again"
  IN /\ scene \in {"dp", "dp again"} => \A all \in BOOLEAN : cost = Cheapest(0, all)
     /\ mayStopEarly => cost = Cheapest(0, FALSE)
     /\ scene = "bb" => \E strict \in {Cheapest(input.config.max_step_cost, TRUE)} :
          cost = IF strict # Tiers!INT32_MAX THEN strict ELSE Cheapest(0, TRUE)
ReportedPlansAreCheapest ==
  scene \in Strategies /\ Tiers!Exhausted /\ Unlimited =>
    AreCheapest(IF scene = "dfs again" /\ work # <<>> THEN work.best ELSE BestCost, Tiers!Items)

\* Every strategy that makes one plan and never goes back finds one wherever
\* nothing on the items excludes anything else.
GreedyStrategiesFind ==
  LET present == DOMAIN input.target.enchs \cup DOMAIN input.source
      peaceful == \A i \in present : Tiers!ConflictMask(i) \cap present = {}
  IN scene \in {"hamming", "diff", "balance"} /\ input.mode = "direct" /\ Tiers!Exhausted
       /\ Unlimited /\ peaceful => reports # <<>>

\* DefaultResolver "never under-keeps": what the whole inventory can be forged
\* into, the items it selects can be forged into as well.
ResolverKeepsReach ==
  LET ToFront(items, k) == <<items[k]>> \o Tiers!RemoveAt(items, k)
      CanMake(items) == \E k \in DOMAIN items :
        items[k].type = input.target.type /\ Tiers!CheapestPlan(ToFront(items, k), 0, FALSE) # Tiers!INT32_MAX
  IN scene = "shelf" /\ CanMake(input.available) => CanMake(Tiers!Items)

(* An input on which a level has to be raised by two equal ones: no choice  *)
(* among entries of equal sums leads to a cheapest plan.                    *)
Raising == {Direct(Java, Sword(0, L(2, 1, 1)), L(1, 0, 0))}
Raise == INSTANCE BestFirst WITH Problems <- Raising, MayResume <- FALSE
RaiseSpec ==
  /\ scene = "astar" /\ Raise!Ready
  /\ [][Raise!AStarNext /\ UNCHANGED scene]_<<scene, searchVars>>

\* "Optimal for direct mode": a search that A* ends by itself reports a plan
\* that no other one undercuts, if there is any.
AStarIsOptimal == Tiers!Exhausted => BestCost = Tiers!CheapestPlan(Tiers!Items, 0, FALSE)
=============================================================================

----------------------------- MODULE MergeTable -----------------------------
(* The two strategies that fill a table of frontiers, one for each set of   *)
(* items merged into one: DPMergeAlgorithm (Dp...) and BBDpAlgorithm        *)
(* (Bb...). A frontier is a sequence of entries [item, cost, steps] none of *)
(* which another one dominates. A set of items is a set of positions.       *)
EXTENDS Greedy

CONSTANTS
  MayResume,                           \* checkpoints are taken and resumed
  ParallelFrom                         \* the items with which the pool helps; 14

Dominates(x, y) ==
  /\ x.item.type = y.item.type /\ x.item.enchs = y.item.enchs
  /\ x.item.ppn <= y.item.ppn /\ x.cost <= y.cost
Insert(frontier, entry) ==
  IF \E k \in DOMAIN frontier : Dominates(frontier[k], entry) THEN frontier
  ELSE Append(SelectSeq(frontier, LAMBDA x : ~Dominates(entry, x)), entry)

(* Equipment, then books, each by prior work; equal ones in any order.      *)
Canonicalize(items) ==
  SortedBy(items, LAMBDA x : <<IF x.type = "Equip" THEN 0 ELSE 1, x.ppn>>)

Singles(items) == [S \in {{k} : k \in DOMAIN items} |->
  <<[item |-> items[CHOOSE k \in S : TRUE], cost |-> 0, steps |-> <<>>]>>]

(* Each way to split S once: the smaller half, or the half with the first   *)
(* item, the larger masks first.                                            *)
Mask(S) == MapThenSumSet(LAMBDA k : 2^(k - 1), S)
Halves(S) ==
  SortedBy(Listed({L \in SUBSET S : /\ L # {} /\ Cardinality(L) * 2 <= Cardinality(S)
                                    /\ Cardinality(L) * 2 = Cardinality(S) => Min(S) \in L}),
           LAMBDA L : <<- Mask(L)>>)

TryForge_StepFirst(frontier, x, y, cap, bound) ==
  LET forge == Forge(x.item, y.item)
      total == Least(x.cost + y.cost + forge.cost, INT32_MAX)
      capped == cap > 0 /\ (PenaltyCost(x.item.ppn) + PenaltyCost(y.item.ppn) > cap \/ forge.cost > cap)
  IN IF ~IsForgeable(x.item, y.item) \/ capped \/ total > bound THEN frontier
     ELSE Insert(frontier, [item |-> forge.item, cost |-> total,
                            steps |-> <<Step(x.item, y.item)>> \o x.steps \o y.steps])
(* One forge of two entries, kept within the cap and the bound.             *)
TryStep(frontier, x, y, step, cap, bound) ==
  LET total == Least(x.cost + y.cost + step.cost, INT32_MAX)
      capped == \/ PenaltyCost(x.item.ppn) + PenaltyCost(y.item.ppn) > cap
                \/ step.cost > cap
  IN IF (cap > 0 /\ capped) \/ total > bound THEN frontier
     ELSE Insert(frontier, [item |-> step.result, cost |-> total,
                            steps |-> x.steps \o y.steps \o <<step>>])
TryForge(frontier, x, y, cap, bound) ==
  IF IsForgeable(x.item, y.item)
  THEN TryStep(frontier, x, y, Step(x.item, y.item), cap, bound) ELSE frontier
Combine(memo, S, cap, bound) ==
  LET Both(frontier, x, y) ==
        TryForge(TryForge(frontier, x, y, cap, bound), y, x, cap, bound)
      Cross(frontier, L) ==
        FoldLeft(LAMBDA f, x : FoldLeft(LAMBDA g, y : Both(g, x, y), f, memo[S \ L]),
                 frontier, memo[L])
  IN FoldLeft(Cross, <<>>, Halves(S))

CheapestEntry(frontier) ==
  SortedBy(SelectSeq(frontier, LAMBDA e : MeetsTarget(e.item)), LAMBDA e : <<e.cost>>)
Whole == DOMAIN work.items

----------------------------------------------------------------------------
(* dp_merge. Its work is [items, memo, saved]; a resumed run finds the      *)
(* checkpoint [items, memo] there, which counts only for the same items.    *)

DpBegin ==
  EnterWith(LAMBDA found :
    LET items == Canonicalize(found)
    IN [items |-> items, saved |-> <<>>,
        memo |-> IF work # <<>> /\ work.items = items THEN work.memo ELSE Singles(items)])

(* solve() of one set, which needs its parts. The recursion has an order of *)
(* its own (here: by masks); the threads of the pool have any.              *)
DpSolve ==
  /\ status = "Running"
  /\ \E S \in SUBSET Whole \ (DOMAIN work.memo \cup {{}}) :
       /\ \A part \in SUBSET S \ {S, {}} : part \in DOMAIN work.memo
       /\ Len(work.items) < ParallelFrom =>
            \A T \in SUBSET Whole \ (DOMAIN work.memo \cup {{}}) : Mask(S) <= Mask(T)
       /\ work' = [work EXCEPT !.memo = @ @@ (S :> Combine(@, S, 0, INT32_MAX))]
  /\ UNCHANGED <<input, reports, status>>

DpJudge ==
  /\ status = "Running" /\ Whole \in DOMAIN work.memo
  /\ LET best == CheapestEntry(work.memo[Whole])
     IN Finish(IF best = <<>> THEN <<>> ELSE <<best[1].steps>>)
  /\ UNCHANGED <<input, work>>

(* StepTree: the tree of a plan from its steps. A step takes the trees that *)
(* made its two items, if any did, and is written after them.               *)
FromSteps(flat) ==
  LET At(trees, want) == SelectInSeq(trees, LAMBDA t : t.item = want)
      Taken(trees, want) == IF At(trees, want) = 0 THEN <<>> ELSE trees[At(trees, want)].steps
      Without(trees, want) == IF At(trees, want) = 0 THEN trees ELSE RemoveAt(trees, At(trees, want))
      Add(trees, step) ==
        LET rest == Without(trees, step.base)
        IN Append(Without(rest, step.sacrifice),
                  [item |-> step.result,
                   steps |-> Taken(trees, step.base) \o Taken(rest, step.sacrifice) \o <<step>>])
      all == FoldLeft(Add, <<>>, flat)
  IN IF Len(all) = 1 THEN all[1].steps ELSE <<>>

(* DPMergeStateSerializer: the items and every frontier, while it is paused *)
(* between two sets; read back into a run of any input.                     *)
DpSave ==
  /\ MayResume /\ status = "Running" /\ work.saved = <<>>
  /\ work' = [work EXCEPT !.saved = [items |-> work.items, memo |-> work.memo]]
  /\ UNCHANGED <<input, reports, status>>
DpRestore ==
  /\ MayResume /\ Ended /\ work # <<>> /\ "saved" \in DOMAIN work /\ work.saved # <<>>
  /\ input' \in Problems /\ reports' = <<>> /\ status' = "Ready"
  /\ work' = [work.saved EXCEPT !.memo = [S \in DOMAIN @ |->
                 [k \in DOMAIN @[S] |-> [@[S][k] EXCEPT !.steps = FromSteps(@)]]]]

DpNext == DpBegin \/ DpSolve \/ DpJudge \/ DpSave \/ DpRestore \/ Cancelled

----------------------------------------------------------------------------
(* bb_dp. Its work is [items, memo, layer, strict, best, ub, ubSteps, relaxed]: *)
(* the pass, its dynamic bound _best_cost, the plan of compute_ub() with    *)
(* its cost, and the bound of the second pass.                              *)

(* compute_ub(): the tiers of hamming without its care, up to the last.     *)
Up(tiers, t, paired) == [tiers |-> MovedUp(tiers, t, paired.next), steps |-> paired.steps]
RECURSIVE Climb(_, _)
Climb(c, t) ==
  IF t \notin DOMAIN c.tiers THEN c
  ELSE IF Len(c.tiers[t]) > 1
  THEN Climb(Up(c.tiers, t, PairUp([row |-> ArrangeByPopcount(c.tiers[t]), next |-> <<>>,
                                    steps |-> c.steps], FALSE)), t + 1)
  ELSE Climb(IF t + 1 \in DOMAIN c.tiers THEN [c EXCEPT !.tiers = MovedUp(@, t, @[t])] ELSE c,
             t + 1)
Judged(climbed) ==
  LET held == FlattenSeq([t \in 1 .. Cardinality(DOMAIN climbed.tiers) |-> climbed.tiers[t - 1]])
      typed == SelectSeq(held, LAMBDA x : x.type = input.target.type)
      reached == typed # <<>> /\ MeetsTarget(Last(typed))
  IN [cost |-> IF reached THEN PlanCost(climbed.steps) ELSE INT32_MAX, steps |-> climbed.steps]
ComputeUb(items) == Judged(Climb([tiers |-> TiersOf(items), steps |-> <<>>], 0))

(* The bound of an earlier run counts only when it can be reached.          *)
StartBound(items, ub) ==
  LET given == input.config.initial_bound
      bound == IF given <= 0 \/ given = INT32_MAX THEN ub
               ELSE IF ub # INT32_MAX THEN Largest(given, ub) ELSE given
  IN IF bound < INT32_MAX THEN DfsBound(items, 0, bound) ELSE bound

BbStart(items, ub, relaxed) ==
  LET cap == input.config.max_step_cost
      feasible == ub.cost # INT32_MAX /\ \A k \in DOMAIN ub.steps : ub.steps[k].cost <= cap
  IN [items |-> items, memo |-> Singles(items), layer |-> 2, strict |-> cap > 0,
      best |-> IF cap <= 0 THEN relaxed ELSE IF feasible THEN ub.cost ELSE INT32_MAX,
      ub |-> ub.cost, ubSteps |-> ub.steps, relaxed |-> relaxed]
Bounded(items, ub) == BbStart(Canonicalize(items), ub, StartBound(items, ub.cost))
BbBegin == EnterWith(LAMBDA found : Bounded(found, ComputeUb(found)))

(* A layer of solve(): its sets have no part in common but smaller ones.    *)
(* Only a plan for the whole tightens the bound. What must be merged again  *)
(* pays its penalty at least.                                               *)
Kept(frontier, bound, final) ==
  SelectSeq(frontier, LAMBDA e :
    /\ e.cost <= bound
    /\ final \/ bound = INT32_MAX \/ e.cost + PenaltyCost(e.item.ppn) <= bound)
WithLayer(built, final) ==
  LET best == IF final /\ CheapestEntry(built[Whole]) # <<>>
              THEN Least(work.best, CheapestEntry(built[Whole])[1].cost) ELSE work.best
  IN [work EXCEPT !.layer = @ + 1, !.best = best,
                  !.memo = [S \in DOMAIN built |-> Kept(built[S], best, final)] @@ @]
BbLayer ==
  /\ status = "Running" /\ work.layer <= Len(work.items)
  /\ LET cap == IF work.strict THEN input.config.max_step_cost ELSE 0
         layer == {S \in SUBSET Whole : Cardinality(S) = work.layer}
     IN work' = WithLayer([S \in layer |-> Combine(work.memo, S, cap, work.best)],
                          work.layer = Len(work.items))
  /\ UNCHANGED <<input, reports, status>>

(* The strict pass had nothing to offer: again without the cap. The second  *)
(* one neither: the plan of compute_ub(), if it has one.                    *)
BbJudge ==
  /\ status = "Running" /\ work.layer > Len(work.items)
  /\ LET best == CheapestEntry(work.memo[Whole])
         fallback == IF work.ub # INT32_MAX /\ work.ubSteps # <<>> THEN <<work.ubSteps>> ELSE <<>>
     IN IF best = <<>> /\ work.strict
        THEN /\ work' = [work EXCEPT !.strict = FALSE, !.layer = 2, !.best = work.relaxed,
                                     !.memo = Singles(work.items)]
             /\ UNCHANGED <<reports, status>>
        ELSE Finish(IF best # <<>> THEN <<best[1].steps>> ELSE fallback) /\ work' = work
  /\ UNCHANGED input

BbNext == BbBegin \/ BbLayer \/ BbJudge \/ Cancelled
=============================================================================

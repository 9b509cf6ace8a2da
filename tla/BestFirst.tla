------------------------------ MODULE BestFirst ------------------------------
(* AStarAlgorithm. The pool numbers every item by its first appearance, and *)
(* a search state is the ids of the items that are left. work is            *)
(*   pool, bound   and what a plan may cost at most                         *)
(*   open          the entries [g, h, ids, steps] still to be looked at     *)
(*   bestG         the least cost each state was entered into open with     *)
(*   seen          _h_max, which no expansion sets back                     *)
(*   saved         a checkpoint, or <<>>                                    *)
(* The budgets for nodes, steps and items are far beyond these inputs.      *)
EXTENDS Search

CONSTANT MayResume                     \* checkpoints are taken and resumed

IdOf(pool, item) == IF SelectInSeq(pool, LAMBDA x : x = item) # 0
                    THEN SelectInSeq(pool, LAMBDA x : x = item) ELSE Len(pool) + 1
Added(pool, item) == IF IdOf(pool, item) > Len(pool) THEN Append(pool, item) ELSE pool
Pooled(items) == FoldLeft(Added, <<>>, items)
ItemsOf(pool, ids) == [k \in DOMAIN ids |-> pool[ids[k]]]

(* The ids after items[j] went into items[i]; the tail is a set.            *)
ChildIds(ids, i, j, id) ==
  LET left == Joined(ids, i, j, id)
  IN IF Len(left) > 2 THEN <<left[1]>> \o SortedBy(Tail(left), LAMBDA x : <<x>>) ELSE left

(* What the new item has beyond all that was seen is no longer missing.     *)
DeltaH(h, item, seen) ==
  LET gained == {i \in DOMAIN input.target.enchs :
                   seen[i] < Least(Level(item.enchs, i), input.target.enchs[i])}
  IN h - MapThenSumSet(LAMBDA i : input.registry[i].mul_b *
                         (Least(Level(item.enchs, i), input.target.enchs[i]) - seen[i]), gained)

Tightened(items, greedy) ==
  IF input.config.initial_bound < greedy THEN input.config.initial_bound
  ELSE DfsBound(items, 0, greedy)
AStarBound(items) == Tightened(items, GreedyBound(items))

AStarBegin ==
  EnterWith(LAMBDA items :
    LET pool == Pooled(items)
    IN [pool |-> pool, bound |-> AStarBound(items), bestG |-> <<>>, seen |-> NoLevels,
        saved |-> <<>>,
        open |-> {[g |-> 0, h |-> Heuristic(items), steps |-> <<>>,
                   ids |-> [k \in DOMAIN items |-> IdOf(pool, items[k])]]}])

Within(cost) == work.bound = INT32_MAX \/ cost <= work.bound

(* One child of entry e, with what the children before it left in s.        *)
Opened(s, e) ==
  IF ~Within(e.g + e.h) \/ (e.ids \in DOMAIN s.bestG /\ s.bestG[e.ids] <= e.g) THEN s
  ELSE [s EXCEPT !.bestG = (e.ids :> e.g) @@ @, !.open = @ \cup {e}]
EnterBy(s, e, i, j, step) ==
  LET pool == Added(s.pool, step.result)
  IN IF \/ ~Within(e.g + AdmissibleForgeCost(step.base, step.sacrifice))
        \/ ~Within(e.g + step.cost) THEN s
     ELSE Opened([s EXCEPT !.pool = pool],
                 [g |-> e.g + step.cost, h |-> DeltaH(e.h, step.result, s.seen),
                  ids |-> ChildIds(e.ids, i, j, IdOf(pool, step.result)),
                  steps |-> Append(e.steps, step)])
Enter(s, e, i, j) == EnterBy(s, e, i, j, Step(s.pool[e.ids[i]], s.pool[e.ids[j]]))
Expanded(s, e) ==
  LET items == ItemsOf(s.pool, e.ids)
      seen == [s EXCEPT !.seen = FillMaxLevels(@, items)]
  IN FoldLeft(LAMBDA t, p : Enter(t, e, p[1], p[2]), seen,
              SortedBy(Listed(Pairs(items)), LAMBDA p : p))

(* The loop takes any of the entries with the least sum.                    *)
AStarPop ==
  /\ status = "Running"
  /\ \E e \in work.open :
       /\ \A other \in work.open : e.g + e.h <= other.g + other.h
       /\ LET rest == [work EXCEPT !.open = @ \ {e}]
              old == e.ids \in DOMAIN work.bestG /\ work.bestG[e.ids] < e.g
              goal == MeetsTarget(work.pool[e.ids[1]])
          IN \/ old /\ work' = rest /\ UNCHANGED <<reports, status>>
             \/ ~old /\ goal /\ work' = rest /\ Finish(<<e.steps>>)
             \/ ~old /\ ~goal /\ work' = Expanded(rest, e) /\ UNCHANGED <<reports, status>>
  /\ UNCHANGED input
AStarEmpty ==
  /\ status = "Running" /\ work.open = {}
  /\ Finish(<<>>) /\ UNCHANGED <<input, work>>
(* The time is up: it says that there is no solution.                       *)
AStarLate ==
  /\ status = "Running" /\ input.config.timed
  /\ Finish(<<>>) /\ UNCHANGED <<input, work>>

(* AStarStateSerializer: everything but the maxima; the restored run goes   *)
(* on where the saved one was.                                              *)
AStarSave ==
  /\ MayResume /\ status = "Running" /\ work.saved = <<>>
  /\ work' = [work EXCEPT !.saved = [work EXCEPT !.seen = NoLevels]]
  /\ UNCHANGED <<input, reports, status>>
AStarRestore ==
  /\ MayResume /\ Ended /\ work # <<>> /\ work.saved # <<>>
  /\ work' = work.saved /\ reports' = <<>> /\ status' = "Running"
  /\ UNCHANGED input

AStarNext ==
  AStarBegin \/ AStarPop \/ AStarEmpty \/ AStarLate \/ AStarSave \/ AStarRestore \/ Cancelled
=============================================================================

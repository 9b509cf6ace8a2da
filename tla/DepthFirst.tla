----------------------------- MODULE DepthFirst -----------------------------
(* DFSAlgorithm and IDAStarAlgorithm. The work of the first is              *)
(*   stack      frames [items, cost, steps, next]; next counts the pairs    *)
(*              that were tried, and all but the last frame wait for a child*)
(*   visited    the least cost each state was visited with                  *)
(*   best, plan the bound, and the best plan so far (<<>>: none)            *)
(*   saved      a checkpoint, or <<>>                                       *)
(* The second one recurses; its work is [items, bound, left].               *)
EXTENDS BestFirst

CONSTANT Polls                         \* the nodes after which a cancel may be seen

(* All that tells two items apart, in some order that never changes.        *)
LevelsOf(item) == LET ids == Ascending(DOMAIN input.registry)
                  IN [k \in DOMAIN ids |-> Level(item.enchs, ids[k])]
TailSorted(left) ==
  IF Len(left) > 2
  THEN <<left[1]>> \o SortedBy(Tail(left), LAMBDA x : <<x.ppn>> \o LevelsOf(x)) ELSE left
ChildItems(items, i, j) == TailSorted(Merged(items, i, j))

CollectPairs(items, Estimate(_, _)) ==
  SortedBy(Listed(Pairs(items)), LAMBDA p : <<Estimate(items[p[1]], items[p[2]])>> \o p)

Frame(items, cost, steps) == [items |-> items, cost |-> cost, steps |-> steps, next |-> 0]

DfsBegin ==
  /\ status = "Ready" /\ status' = "Running"
  /\ \E items \in {Items} :
     LET greedy == IF Len(items) > 1 THEN GreedyBound(items) ELSE INT32_MAX
     IN work' = [stack |-> <<Frame(items, 0, <<>>)>>, visited |-> <<>>, plan |-> <<>>,
                 best |-> Least(greedy, input.config.initial_bound), saved |-> <<>>]
  /\ UNCHANGED <<input, reports>>

Verdict(best) == IF best < INT32_MAX THEN "Complete" ELSE "CompleteNoSolution"

(* The iteration that looks at the last frame. A state that was reached as  *)
(* cheaply before, a goal, and what cannot become cheaper than the bound    *)
(* leave the stack; otherwise the next pair is forged.                      *)
DfsVisit ==
  LET top == Last(work.stack)
      popped == [work EXCEPT !.stack = Front(@)]
      Visited(w) == IF top.next > 0 THEN w ELSE [w EXCEPT !.visited = (top.items :> top.cost) @@ @]
      known == /\ top.next = 0 /\ top.items \in DOMAIN work.visited
               /\ work.visited[top.items] <= top.cost
      goal == MeetsTarget(top.items[1])
      hopeless == top.cost + Heuristic(top.items) >= work.best
      deep == input.config.max_depth > 0 /\ Len(work.stack) > input.config.max_depth
      enough == input.config.max_solutions > 0 /\ Len(reports) >= input.config.max_solutions
      pairs == CollectPairs(top.items, EstimateForgeCost)
      p == pairs[top.next + 1]
      step == Step(top.items[p[1]], top.items[p[2]])
  IN /\ status = "Running" /\ work.stack # <<>>
     /\ \/ known /\ work' = popped /\ UNCHANGED <<reports, status>>
        \/ /\ ~known /\ goal
           /\ reports' = Append(reports, top.steps)
           /\ work' = Visited(IF work.plan = <<>> \/ top.cost < work.best
                              THEN [popped EXCEPT !.best = top.cost, !.plan = top.steps] ELSE popped)
           /\ UNCHANGED status
        \/ /\ ~known /\ ~goal /\ (hopeless \/ deep)
           /\ work' = Visited(popped) /\ UNCHANGED <<reports, status>>
        \/ /\ ~known /\ ~goal /\ ~hopeless /\ ~deep /\ enough
           /\ work' = Visited(work) /\ status' = Verdict(work.best) /\ UNCHANGED reports
        \/ /\ ~known /\ ~goal /\ ~hopeless /\ ~deep /\ ~enough /\ top.next = Len(pairs)
           /\ work' = Visited(popped) /\ UNCHANGED <<reports, status>>
        \/ /\ ~known /\ ~goal /\ ~hopeless /\ ~deep /\ ~enough /\ top.next < Len(pairs)
           /\ work' = [Visited(work) EXCEPT
                !.stack = Append([@ EXCEPT ![Len(@)].next = top.next + 1],
                                 Frame(ChildItems(top.items, p[1], p[2]), top.cost + step.cost,
                                       Append(top.steps, step)))]
           /\ UNCHANGED <<reports, status>>
     /\ UNCHANGED input

(* Nothing is left, or the time is up. It says Complete of any bound, also  *)
(* of one that no plan of it has.                                           *)
DfsEnd ==
  /\ status = "Running" /\ (work.stack = <<>> \/ input.config.timed)
  /\ status' = Verdict(work.best) /\ UNCHANGED <<input, work, reports>>

(* DFSStateSerializer: the whole search, but none of its reports.           *)
DfsSave ==
  /\ MayResume /\ status = "Running" /\ work.saved = <<>>
  /\ work' = [work EXCEPT !.saved = work] /\ UNCHANGED <<input, reports, status>>
DfsRestore ==
  /\ MayResume /\ Ended /\ work # <<>> /\ work.saved # <<>>
  /\ work' = work.saved /\ reports' = <<>> /\ status' = "Running"
  /\ UNCHANGED input

DfsNext == DfsBegin \/ DfsVisit \/ DfsEnd \/ DfsSave \/ DfsRestore \/ Cancelled

----------------------------------------------------------------------------
(* IDA*                                                                     *)

(* The greedy plan in the order of the items, then what a depth-first look  *)
(* finds, then a guess when there is neither.                               *)
CostIfMet(sum) == IF sum.cost > 0 /\ MeetsTarget(sum.item) THEN sum.cost ELSE INT32_MAX
OrGuess(items, bound) ==
  LET singly == {k \in 2 .. Len(items) : IsForgeable(items[1], items[k])}
  IN IF bound < INT32_MAX THEN bound
     ELSE Len(items) - 1 + MapThenSumSet(LAMBDA k : Forge(items[1], items[k]).cost, singly)
IdaBound(items) == OrGuess(items, Tightened(items, CostIfMet(AllInto(items[1], Tail(items)))))

(* _meets_target() does not look at the type of the item; that the resolver  *)
(* puts an item of the target's type first makes up for it.                  *)
HasTarget(item) == \A i \in DOMAIN input.target.enchs : Level(item.enchs, i) >= input.target.enchs[i]

(* _dfs() of a state reached by the steps at cost g; levels are the maxima  *)
(* of the states on the way. s is what the recursion shares: best, the      *)
(* path of the best plan, the transposition table, the pool, and how many   *)
(* nodes are left before the cancel.                                        *)
RECURSIVE Dive(_, _, _, _, _)
Dive(s, ids, levels, g, steps) ==
  LET items == ItemsOf(s.pool, ids)
      counted == [s EXCEPT !.left = @ - 1]
      goal == [counted EXCEPT !.best = IF g <= @ THEN g ELSE @, !.found = @ + 1,
                              !.path = IF g <= s.best THEN steps ELSE @]
      enough == input.config.max_solutions > 0 /\ goal.found >= input.config.max_solutions
      stored == [counted EXCEPT !.tt = (ids :> g) @@ @]
      open == SelectSeq(CollectPairs(items, AdmissibleForgeCost),
                        LAMBDA p : g + AdmissibleForgeCost(items[p[1]], items[p[2]]) <= s.best)
      Reach(t, p, step) ==
        LET pool == Added(t.pool, step.result)
        IN IF g + step.cost > t.best THEN t
           ELSE Dive([t EXCEPT !.pool = pool], ChildIds(ids, p[1], p[2], IdOf(pool, step.result)),
                     FillMaxLevels(levels, <<step.result>>), g + step.cost, Append(steps, step))
      Try(t, p) ==
        IF t.left = 0 \/ g + AdmissibleForgeCost(items[p[1]], items[p[2]]) > t.best THEN t
        ELSE Reach(t, p, Step(items[p[1]], items[p[2]]))
  IN IF s.left = 1 THEN counted
     ELSE IF HasTarget(items[1]) THEN IF enough THEN [goal EXCEPT !.left = 0] ELSE goal
     ELSE IF ids \in DOMAIN s.tt /\ s.tt[ids] <= g THEN counted
     ELSE IF g + ComputeH(levels) >= s.best THEN counted
     ELSE FoldLeft(Try, stored, open)

IdaBegin ==
  EnterUnless(HasTarget,
              LAMBDA items : [items |-> items, bound |-> IdaBound(items), left |-> 0])
IdaDive ==
  /\ status = "Running" /\ work.left = 0
  /\ \E polls \in Polls :
       LET pool == Pooled(work.items)
           start == [best |-> work.bound, path |-> <<>>, tt |-> <<>>, pool |-> pool,
                     found |-> 0, left |-> polls]
           ids == [k \in DOMAIN work.items |-> IdOf(pool, work.items[k])]
       IN \E end \in {Dive(start, ids, FillMaxLevels(NoLevels, work.items), 0, <<>>)} :
          /\ work' = [work EXCEPT !.left = end.left]
          /\ reports' = IF end.path = <<>> THEN reports ELSE Append(reports, end.path)
          /\ status' = IF end.path # <<>> THEN "Complete"
                       ELSE IF end.left = 0 THEN "Cancelled" ELSE "CompleteNoSolution"
  /\ UNCHANGED input

IdaNext == IdaBegin \/ IdaDive
=============================================================================

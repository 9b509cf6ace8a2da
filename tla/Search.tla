------------------------------- MODULE Search --------------------------------
(* What every strategy has in common: it resolves its input, leaves at once *)
(* when there is nothing to search, searches, reports plans on the way, and *)
(* polls for a cancel between the steps of its search. work is what the     *)
(* strategy keeps, a record of its own.                                     *)
(*                                                                          *)
(* What the strategies work on comes first: DefaultResolver, with           *)
(* ItemResolver for the books of a direct input. input.mode is "direct",    *)
(* with input.source the levels the target item has now, or "inventory",    *)
(* with input.available the items and input.priorities how early each one   *)
(* goes (99 when left out).                                                 *)
EXTENDS Anvil


BookOf(i, level) == [type |-> "Book", dur |-> 0, ppn |-> 0, enchs |-> (i :> level)]

(* ItemResolver: one book for each enchantment that is missing or too low;  *)
(* two equal levels make the next one.                                      *)
GapBooks(source) ==
  LET gap == {i \in DOMAIN input.target.enchs : Level(source, i) < input.target.enchs[i]}
      Wanted(i) ==
        IF i \in DOMAIN source /\ source[i] + 1 = input.target.enchs[i]
        THEN source[i] ELSE input.target.enchs[i]
      ids == Ascending(gap)
  IN [k \in DOMAIN ids |-> BookOf(ids[k], Wanted(ids[k]))]

ResolveDirect ==
  LET base == [input.target EXCEPT !.enchs = input.source]
  IN (IF base.type = "Book" /\ base.enchs = <<>> THEN <<>> ELSE <<base>>) \o GapBooks(input.source)

----------------------------------------------------------------------------
(* What an inventory can give                                               *)

EstForgeCost(equip) ==
  PenaltyCost(equip.ppn)
    + MapThenSumSet(LAMBDA i : (input.target.enchs[i] - Level(equip.enchs, i)) * input.registry[i].mul_b,
                    {i \in DOMAIN input.target.enchs : Level(equip.enchs, i) < input.target.enchs[i]})

(* The highest level some books can be combined to: pairs carry upwards.    *)
MaxReachableLevel(levels, max) ==
  LET at(l) == Cardinality({k \in DOMAIN levels : Least(levels[k], max) = l})
      freq[l \in 0 .. max] == at(l) + IF l = 0 THEN 0 ELSE freq[l - 1] \div 2
  IN Max({0} \cup {l \in 0 .. max : freq[l] > 0})
CanReach(levels, threshold, max) == threshold = 0 \/ MaxReachableLevel(levels, max) >= threshold

CarriesConflictWith(item, i) == Clashing(item.enchs, i) # {}
BaseConflictsWithGap(item) ==
  \E i \in DOMAIN input.target.enchs :
    Level(item.enchs, i) < input.target.enchs[i] /\ CarriesConflictWith(item, i)

LevelsIn(books, i) ==
  LET with == SelectSeq(books, LAMBDA b : i \in DOMAIN b.enchs)
  IN [k \in DOMAIN with |-> with[k].enchs[i]]
CarriesIrreplaceable(item, books, base) ==
  \E i \in DOMAIN input.target.enchs \cap DOMAIN item.enchs :
    /\ ~CarriesConflictWith(base, i)
    /\ MaxReachableLevel(LevelsIn(books, i), input.registry[i].max) < input.target.enchs[i]

MaxBookLevel(book) == Max({0} \cup {book.enchs[i] : i \in DOMAIN book.enchs})
BookApplyCost(book, i, level) ==
  PenaltyCost(book.ppn) + input.registry[i].mul_b *
    (IF book.enchs[i] = level THEN Least(input.registry[i].max, level + 1)
     ELSE Largest(level, book.enchs[i]))

SelectedFor_OneTooFew(books, i, have) ==
  LET want == input.target.enchs[i]
      threshold == IF want = have + 1 THEN have ELSE want
      cand == SortedBy(Ascending({k \in DOMAIN books : i \in DOMAIN books[k].enchs}),
                       LAMBDA k : <<- books[k].enchs[i], books[k].ppn>>)
      levels == [c \in DOMAIN cand |-> books[cand[c]].enchs[i]]
      enough == SelectSeq(cand, LAMBDA k : books[k].enchs[i] >= threshold)
      cheapest == SortedBy(enough, LAMBDA k :
                    <<BookApplyCost(books[k], i, have), books[k].enchs[i], books[k].ppn>>)
      Together(n) == CanReach(SubSeq(levels, 1, n), threshold, input.registry[i].max)
  IN IF have >= want THEN {}
     ELSE IF enough # <<>> THEN {Head(cheapest)}
     ELSE {cand[c] : c \in {c \in DOMAIN cand : \A n \in 1 .. c : ~Together(n)}}

(* select_books() for one enchantment, as positions in books: the book that *)
(* suffices at the least cost, or the best ones until they suffice together.*)
SelectedFor(books, i, have) ==
  LET want == input.target.enchs[i]
      threshold == IF want = have + 1 THEN have ELSE want
      cand == SortedBy(Ascending({k \in DOMAIN books : i \in DOMAIN books[k].enchs}),
                       LAMBDA k : <<- books[k].enchs[i], books[k].ppn>>)
      levels == [c \in DOMAIN cand |-> books[cand[c]].enchs[i]]
      enough == SelectSeq(cand, LAMBDA k : books[k].enchs[i] >= threshold)
      cheapest == SortedBy(enough, LAMBDA k :
                    <<BookApplyCost(books[k], i, have), books[k].enchs[i], books[k].ppn>>)
      Together(n) == CanReach(SubSeq(levels, 1, n), threshold, input.registry[i].max)
  IN IF have >= want THEN {}
     ELSE IF enough # <<>> THEN {Head(cheapest)}
     ELSE {cand[c] : c \in {c \in DOMAIN cand : \A n \in 1 .. c - 1 : ~Together(n)}}

Picked(books, places) == [k \in DOMAIN places |-> books[places[k]]]
SelectBooks(books, effective) ==
  LET keep == UNION {SelectedFor(books, i, Level(effective, i)) : i \in DOMAIN input.target.enchs}
  IN SortedBy(Picked(books, Ascending(keep)), LAMBDA b : <<- MaxBookLevel(b), b.ppn>>)

(* The best base first, then what only equipment brings, then the books.    *)
ByPriority ==
  LET Priority(k) == IF k \in DOMAIN input.priorities THEN input.priorities[k] ELSE 99
  IN Picked(input.available,
            SortedBy([k \in DOMAIN input.available |-> k], LAMBDA k : <<Priority(k)>>))
KeptEquips(books, equips, best) ==
  <<equips[best]>> \o SelectSeq(RemoveAt(equips, best),
                                LAMBDA x : CarriesIrreplaceable(x, books, equips[best]))
WithBooks(books, kept) ==
  kept \o SelectBooks(books, [i \in UNION {DOMAIN kept[k].enchs : k \in DOMAIN kept} |->
                                Max({Level(kept[k].enchs, i) : k \in DOMAIN kept})])
FromInventory(books, equips) ==
  LET able == {k \in DOMAIN equips : ~BaseConflictsWithGap(equips[k])}
      best == Head(SortedBy(Ascending(able), LAMBDA k : <<EstForgeCost(equips[k])>>))
  IN IF input.target.type = "Book" THEN SelectBooks(books, <<>>)
     ELSE IF able = {} THEN <<>> ELSE WithBooks(books, KeptEquips(books, equips, best))
ResolveInventory ==
  FromInventory(SelectSeq(ByPriority, LAMBDA x : x.type = "Book"),
                SelectSeq(ByPriority, LAMBDA x : x.type = "Equip"))

Resolve == IF input.mode = "direct" THEN ResolveDirect ELSE ResolveInventory

----------------------------------------------------------------------------
(* Every strategy                                                           *)
CONSTANT Problems                      \* the inputs it is given

VARIABLES work, reports, status
searchVars == <<input, work, reports, status>>

Ready == input \in Problems /\ work = <<>> /\ reports = <<>> /\ status = "Ready"

Items == NormalizeBaseEquipment(Resolve)

(* execute() up to its search, with the strategy's own test of the goal.     *)
EnterUnless(Met(_), Start(_)) ==
  /\ status = "Ready"
  /\ \E items \in {Items} :
     LET met == items # <<>> /\ Met(items[1])
     IN \/ met /\ status' = "GoalAlreadyMet" /\ reports' = Append(reports, <<>>) /\ work' = work
        \/ ~met /\ Len(items) <= 1 /\ status' = "CompleteNoSolution" /\ UNCHANGED <<reports, work>>
        \/ ~met /\ Len(items) > 1 /\ status' = "Running" /\ work' = Start(items)
             /\ reports' = reports
  /\ UNCHANGED input
EnterWith(Start(_)) == EnterUnless(MeetsTarget, Start)

(* By the user or the executor's time limit: what was reported stays.       *)
Cancelled ==
  /\ status = "Running" /\ status' = "Cancelled"
  /\ UNCHANGED <<input, work, reports>>

Finish(plans) ==
  /\ reports' = reports \o plans
  /\ status' = IF plans = <<>> THEN "CompleteNoSolution" ELSE "Complete"

Ended == status \in {"Complete", "CompleteNoSolution", "GoalAlreadyMet", "Cancelled"}
Exhausted == status \in {"Complete", "CompleteNoSolution", "GoalAlreadyMet"}

-----------------------------------------------------------------------------
PlansReplay == \A k \in DOMAIN reports : Replays(Items, reports[k])
LastCost == IF reports = <<>> THEN INT32_MAX ELSE PlanCost(Last(reports))
=============================================================================

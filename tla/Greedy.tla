------------------------------- MODULE Greedy -------------------------------
(* The strategies that make one plan and never go back. HammingAlgorithm:   *)
(* items wait in tiers by their prior work; a tier is paired up, and what   *)
(* comes out goes to the next one; work is [tiers, tier, limit, steps].     *)
(* DiffFirstAlgorithm (Diff...), whose work is [items, steps, ppn, linear], *)
(* and DynamicPenaltyBalancingAlgorithm (Balance...), with [items, steps].  *)
EXTENDS Search

Popcount[n \in Nat] == IF n = 0 THEN 0 ELSE (n % 2) + Popcount[n \div 2]
SelfCost(item) == EstimateForgeCost(item, item)

(* Equipment first, then the dearest; position k of the row merges about    *)
(* Popcount[k] times. An inventory keeps the order of its equipment.        *)
ArrangeByPopcount(row) ==
  LET keyOf(x) == <<IF x.type = "Equip" THEN 0 ELSE 1,
                    IF x.type = "Equip" /\ input.mode = "inventory" THEN 0 ELSE - SelfCost(x)>>
      sorted == SortedBy(row, keyOf)
      places == SortedBy([k \in DOMAIN row |-> k - 1], LAMBDA p : <<Popcount[p]>>)
  IN [k \in DOMAIN row |-> sorted[CHOOSE n \in DOMAIN places : places[n] = k - 1]]

(* The pairs of a row, from its front. s is [row, next, steps]; with avoid, *)
(* a pair that would lose an enchantment still needed goes the other way    *)
(* round (books), takes the next item instead, or waits for the next tier.  *)
WithStep(s, row, step) ==
  [row |-> row, next |-> Append(s.next, step.result), steps |-> Append(s.steps, step)]
RECURSIVE PairUp(_, _)
PairUp(s, avoid) ==
  IF Len(s.row) < 2 THEN [s EXCEPT !.next = @ \o s.row, !.row = <<>>]
  ELSE LET turned == ~IsForgeable(s.row[1], s.row[2])
           base == IF turned THEN s.row[2] ELSE s.row[1]
           sac == IF turned THEN s.row[1] ELSE s.row[2]
           rest == Tail(Tail(s.row))
           Carried(x, y, row) == [s EXCEPT !.row = row, !.next = @ \o <<x, y>>]
           Forged(x, y, row) == WithStep(s, row, Step(x, y))
           Swapped == <<base>> \o Tail(rest)
       IN PairUp(
            IF turned /\ ~IsForgeable(base, sac) THEN Carried(s.row[1], s.row[2], rest)
            ELSE IF ~avoid \/ ~WastesTarget(base, sac) THEN Forged(base, sac, rest)
            ELSE IF base.type = "Book" /\ sac.type = "Book" /\ ~WastesTarget(sac, base)
            THEN Forged(sac, base, rest)
            ELSE IF rest = <<>> THEN Carried(base, sac, rest)
            ELSE IF WastesTarget(rest[1], sac) THEN Carried(rest[1], sac, Swapped)
            ELSE Forged(rest[1], sac, Swapped), avoid)

(* The tiers before the first pair, from 0 to the most prior work.          *)
TiersOf(items) ==
  LET top == Max({items[k].ppn : k \in DOMAIN items})
  IN [t \in 0 .. top |-> SelectSeq(items, LAMBDA x : x.ppn = t)]
MovedUp_Replaces(tiers, t, items) ==
  [u \in DOMAIN tiers \cup {t + 1} |->
     IF u = t THEN <<>> ELSE IF u = t + 1 THEN items ELSE tiers[u]]
(* What a tier leaves goes behind what the next one holds.                  *)
MovedUp(tiers, t, items) ==
  [u \in DOMAIN tiers \cup {t + 1} |->
     IF u = t THEN <<>> ELSE IF u # t + 1 THEN tiers[u]
     ELSE (IF u \in DOMAIN tiers THEN tiers[u] ELSE <<>>) \o items]

Begin ==
  EnterWith(LAMBDA items : [tiers |-> TiersOf(items), tier |-> 0, steps |-> <<>>,
                            limit |-> Max(DOMAIN TiersOf(items)) + Len(items) + 2])

More == work.tier \in DOMAIN work.tiers /\ work.tier <= work.limit
(* One item passes on, but not out of the last tier; a row is paired up.    *)
AfterPairs(paired) ==
  [work EXCEPT !.tier = @ + 1, !.steps = paired.steps,
               !.tiers = MovedUp(@, work.tier, paired.next)]
DoTier ==
  /\ status = "Running" /\ More
  /\ LET row == work.tiers[work.tier]
         ordered == IF Len(row) > 2 THEN ArrangeByPopcount(row) ELSE row
     IN work' = IF Len(row) <= 1
                THEN [work EXCEPT !.tier = @ + 1,
                        !.tiers = IF row # <<>> /\ work.tier + 1 \in DOMAIN @
                                  THEN MovedUp(@, work.tier, row) ELSE @]
                ELSE AfterPairs(PairUp([row |-> ordered, next |-> <<>>, steps |-> work.steps], TRUE))
  /\ UNCHANGED <<input, reports, status>>

(* The final scan, from the last tier: something must have been forged.     *)
Scan ==
  /\ status = "Running" /\ ~More
  /\ LET found == \E t \in DOMAIN work.tiers : \E k \in DOMAIN work.tiers[t] :
                    MeetsTarget(work.tiers[t][k])
     IN Finish(IF found /\ work.steps # <<>> THEN <<work.steps>> ELSE <<>>)
  /\ UNCHANGED <<input, work>>

HammingNext == Begin \/ DoTier \/ Scan \/ Cancelled

----------------------------------------------------------------------------
(* Two books go the other way round when that saves an enchantment.         *)
TurnRound(x, y) ==
  x.type = "Book" /\ y.type = "Book" /\ WastesTarget(x, y) /\ ~WastesTarget(y, x)

(* items[i] takes items[j], or the other way round where that is allowed;   *)
(* the result stays where its base was.                                     *)
ForgeTo(w, to, from, step) ==
  [w EXCEPT !.items = Joined(@, to, from, step.result), !.steps = Append(@, step)]
ForgeAt(w, i, j, mayTurn) ==
  IF mayTurn /\ TurnRound(w.items[i], w.items[j])
  THEN ForgeTo(w, j, i, Step(w.items[j], w.items[i]))
  ELSE ForgeTo(w, i, j, Step(w.items[i], w.items[j]))

SortItems(items) ==
  SortedBy(items, LAMBDA x : <<x.ppn, IF x.type = "Equip" THEN 0 ELSE 1, - SelfCost(x)>>)
Ppns(items) == {items[k].ppn : k \in DOMAIN items}
TierAt(items, ppn) == {k \in DOMAIN items : items[k].ppn = ppn}

DiffBegin ==
  EnterWith(LAMBDA items : [items |-> items, steps |-> <<>>, linear |-> FALSE,
                            ppn |-> Min(Ppns(items))])

(* Tier by tier: the first two of the tier merge, or the next tier is       *)
(* looked at; past the last one the first two items of all merge, which may *)
(* make a tier of two again.                                                *)
DiffTier ==
  /\ status = "Running" /\ Len(work.items) > 1 /\ ~work.linear
  /\ LET sorted == [work EXCEPT !.items = SortItems(@)]
         tier == TierAt(sorted.items, work.ppn)
     IN \/ /\ tier = {} /\ work.ppn >= Max(Ppns(work.items))
           /\ work' = [sorted EXCEPT !.ppn = Min(Ppns(work.items)), !.linear = TRUE]
        \/ /\ Cardinality(tier) < 2 /\ (tier = {} => work.ppn < Max(Ppns(work.items)))
           /\ work' = [sorted EXCEPT !.ppn = @ + 1]
        \/ Cardinality(tier) >= 2 /\ work' = ForgeAt(sorted, Min(tier), Min(tier) + 1, TRUE)
  /\ UNCHANGED <<input, reports, status>>
Linear(sorted) ==
  LET loose == \A k \in DOMAIN sorted.items : sorted.items[k].type = "Book"
  IN IF IsForgeable(sorted.items[1], sorted.items[2])
     THEN ForgeAt(sorted, 1, 2, loose) ELSE ForgeAt(sorted, 2, 1, loose)
BackToTiers(forged) ==
  LET pairs == {p \in Ppns(forged.items) : Cardinality(TierAt(forged.items, p)) >= 2}
  IN IF pairs = {} THEN forged ELSE [forged EXCEPT !.ppn = Min(pairs), !.linear = FALSE]
DiffLinear ==
  /\ status = "Running" /\ Len(work.items) > 1 /\ work.linear
  /\ work' = BackToTiers(Linear([work EXCEPT !.items = SortItems(@)]))
  /\ UNCHANGED <<input, reports, status>>
DiffJudge ==
  /\ status = "Running" /\ Len(work.items) <= 1
  /\ Finish(IF \E k \in DOMAIN work.items : MeetsTarget(work.items[k]) THEN <<work.steps>> ELSE <<>>)
  /\ UNCHANGED <<input, work>>

DiffNext == DiffBegin \/ DiffTier \/ DiffLinear \/ DiffJudge \/ Cancelled

----------------------------------------------------------------------------
BalanceBegin == EnterWith(LAMBDA items : [items |-> items, steps |-> <<>>])

(* The pair whose penalties differ least, then the cheapest, then of books. *)
BestPair(items) ==
  LET Gap(p) == items[p[1]].ppn - items[p[2]].ppn
      bookPair(p) == items[p[1]].type = "Book" /\ items[p[2]].type = "Book"
  IN Head(SortedBy(Listed(Pairs(items)),
       LAMBDA p : <<Largest(Gap(p), - Gap(p)), EstimateForgeCost(items[p[1]], items[p[2]]),
                    IF bookPair(p) THEN 0 ELSE 1>> \o p))

BalanceForge == ForgeAt(work, BestPair(work.items)[1], BestPair(work.items)[2], TRUE)
BalanceStep ==
  /\ status = "Running" /\ Len(work.items) > 1
  /\ work' = BalanceForge
  /\ UNCHANGED <<input, reports, status>>
(* The time is up after a forge: the verdict is on the items as they are,   *)
(* with the sacrifice still among them.                                     *)
BalanceLate ==
  /\ status = "Running" /\ Len(work.items) > 1 /\ input.config.timed
  /\ LET step == Last(BalanceForge.steps)
         first == IF work.items[1] = step.base THEN step.result ELSE work.items[1]
     IN Finish(IF MeetsTarget(first) THEN <<BalanceForge.steps>> ELSE <<>>)
  /\ UNCHANGED <<input, work>>
BalanceJudge ==
  /\ status = "Running" /\ Len(work.items) <= 1
  /\ Finish(IF MeetsTarget(work.items[1]) THEN <<work.steps>> ELSE <<>>)
  /\ UNCHANGED <<input, work>>

BalanceNext == BalanceBegin \/ BalanceStep \/ BalanceLate \/ BalanceJudge \/ Cancelled
=============================================================================

---------------------------- MODULE Transpositions ----------------------------
(* plugins/idastar/TTTable: the least cost seen of each state, in a table   *)
(* of fixed size that is cleared by starting a new epoch. The entries of    *)
(* past epochs stay in their slots until they are overwritten, or until the *)
(* table is compacted because too many slots are occupied.                  *)
EXTENDS Integers, FiniteSets, Sequences, SequencesExt

CONSTANTS
  Hashes, Costs,
  Buckets,    \* BUCKETS: 2^20
  Threshold,  \* BUCKETS * COMPACT_THRESHOLD: 0.7 of it
  Epochs      \* the epochs of a 32-bit word: 2^32

VARIABLES
  slots,      \* _table; empty until the first store()
  epoch,      \* _epoch
  live,       \* _live_count
  count,      \* _total_occupied
  meant       \* history: the least cost stored of each hash since clear()

tableVars == <<slots, epoch, live, count, meant>>

NoSlots == <<>>
Free == [hash |-> 0, g |-> 0, epoch |-> 0, occupied |-> FALSE]
AllFree == [i \in 0 .. Buckets - 1 |-> Free]
Entry(h, g, e) == [hash |-> h, g |-> g, epoch |-> e, occupied |-> TRUE]
Live(e) == e.occupied /\ e.epoch = epoch
None == -1

\* The first slot of the probe for h that satisfies Good; none, if there is none.
Firsts(s, h, Good(_)) ==
  {(h + n) % Buckets : n \in
     {n \in 0 .. Buckets - 1 :
        /\ Good(s[(h + n) % Buckets])
        /\ \A m \in 0 .. n - 1 : ~Good(s[(h + m) % Buckets])}}

\* lookup() runs over stale entries and ends at a free slot.
Lookup(h) ==
  LET Stop(e) == ~e.occupied \/ (e.epoch = epoch /\ e.hash = h)
      found == IF slots = NoSlots THEN {} ELSE {i \in Firsts(slots, h, Stop) : slots[i].occupied}
  IN IF found = {} THEN None ELSE (CHOOSE e \in {slots[i] : i \in found} : TRUE).g

\* _compact(): the live entries move to a new table, in the order of their slots.
Reinsert(s, e) ==
  LET Vacant(x) == ~x.occupied
  IN [s EXCEPT ![CHOOSE i \in Firsts(s, e.hash, Vacant) : TRUE] = [e EXCEPT !.epoch = 1]]
Compacted(s) ==
  FoldLeft(LAMBDA t, i : IF Live(s[i]) THEN Reinsert(t, s[i]) ELSE t,
           AllFree, [i \in 1 .. Buckets |-> i - 1])
LiveIn(s) == Cardinality({i \in DOMAIN s : Live(s[i])})

\* store() when there is no need to compact: a slot that is not live is taken,
\* an entry of the same hash keeps the lower cost, and a table full of other
\* live entries is compacted, in vain, and drops the new one.
StoreInto(s, e, n, l, h, g) ==
  LET Taken(x) == ~(x.occupied /\ x.epoch = e) \/ x.hash = h
      at == Firsts(s, h, Taken)
  IN IF at = {} THEN [slots |-> Compacted(s), epoch |-> 1, count |-> LiveIn(s), live |-> LiveIn(s)]
     ELSE LET i == CHOOSE i \in at : TRUE IN
       IF s[i].occupied /\ s[i].epoch = e
       THEN [slots |-> IF g < s[i].g THEN [s EXCEPT ![i].g = g] ELSE s,
             epoch |-> e, count |-> n, live |-> l]
       ELSE [slots |-> [s EXCEPT ![i] = Entry(h, g, e)],
             epoch |-> e, count |-> IF s[i].occupied THEN n ELSE n + 1, live |-> l + 1]

Store(h, g) ==
  /\ \E s \in {IF slots = NoSlots THEN AllFree ELSE slots} :
     \E r \in {IF count > Threshold THEN StoreInto(Compacted(s), 1, LiveIn(s), LiveIn(s), h, g)
               ELSE StoreInto(s, epoch, count, live, h, g)} :
       slots' = r.slots /\ epoch' = r.epoch /\ count' = r.count /\ live' = r.live
  /\ meant' = [meant EXCEPT ![h] = IF @ = None \/ g < @ THEN g ELSE @]

\* Mutant: nothing happens when the epoch wraps around.
Clear_Wraps ==
  /\ epoch' = (epoch + 1) % Epochs /\ live' = 0
  /\ meant' = [h \in Hashes |-> None] /\ UNCHANGED <<slots, count>>

\* clear()
Clear ==
  /\ IF (epoch + 1) % Epochs = 0
     THEN /\ epoch' = 1 /\ count' = 0
          /\ slots' = IF slots = NoSlots THEN slots ELSE AllFree
     ELSE epoch' = epoch + 1 /\ UNCHANGED <<slots, count>>
  /\ live' = 0 /\ meant' = [h \in Hashes |-> None]

ClearAndCompact ==
  /\ epoch' = 1 /\ live' = 0 /\ count' = 0
  /\ slots' = IF slots = NoSlots THEN slots ELSE AllFree
  /\ meant' = [h \in Hashes |-> None]

TableInit ==
  /\ slots = NoSlots /\ epoch = 1 /\ live = 0 /\ count = 0
  /\ meant = [h \in Hashes |-> None]
TableNext ==
  \/ \E h \in Hashes, g \in Costs : Store(h, g)
  \/ Clear \/ ClearAndCompact

(* A lookup tells the least cost stored since the last clear(). It may only *)
(* have forgotten when more hashes were stored than there are buckets, and  *)
(* what it tells then was stored.                                           *)
LookupsAgree == \A h \in Hashes :
  IF Cardinality({k \in Hashes : meant[k] # None}) <= Buckets THEN Lookup(h) = meant[h]
  ELSE Lookup(h) # None => meant[h] # None /\ Lookup(h) >= meant[h]
CountsAgree ==
  /\ slots # NoSlots => live = LiveIn(slots)
  /\ slots # NoSlots => count = Cardinality({i \in DOMAIN slots : slots[i].occupied})
=============================================================================

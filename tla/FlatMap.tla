------------------------------- MODULE FlatMap -------------------------------
(* common/utils/FlatHashMap: a hash map with open addressing and linear     *)
(* probing, which doubles when it is over three quarters full.              *)
EXTENDS Naturals, Sequences, SequencesExt

CONSTANTS
  Keys, Vals,
  Hints,    \* what reserve() is called with
  Default   \* the capacity the first assignment gives the map: 64 in the code

VARIABLES
  slots,    \* _keys and _vals where _occupied, from 0 to _mask; empty at first
  count,    \* _size
  meant     \* history: the map that the calls have built

mapVars == <<slots, count, meant>>

Free == <<>>
None == <<>>
NoSlots == <<>>
Emptied(cap) == [i \in 0 .. cap - 1 |-> Free]
Capacity(s) == IF s = NoSlots THEN 0 ELSE CHOOSE n \in 1 .. 64 : DOMAIN s = 0 .. n - 1

\* Where the probe for a key stops: at the key or at the first free slot. In a
\* full map without the key it does not stop.
Stops(s, k) ==
  {n \in 0 .. Capacity(s) - 1 :
     LET at(m) == s[(k + m) % Capacity(s)] IN
       /\ at(n) = Free \/ at(n)[1] = k
       /\ \A m \in 0 .. n - 1 : at(m) # Free /\ at(m)[1] # k}
Probe(s, k) == (k + CHOOSE n \in Stops(s, k) : TRUE) % Capacity(s)
Put(s, k, v) == [s EXCEPT ![Probe(s, k)] = <<k, v>>]

\* find()
Find(s, k) == IF s = NoSlots \/ s[Probe(s, k)] = Free THEN None ELSE s[Probe(s, k)]

\* Mutant: an entry keeps its slot when the map grows.
Rehash_KeepsSlots(s, cap) ==
  [i \in 0 .. cap - 1 |-> IF i \in DOMAIN s THEN s[i] ELSE Free]

\* _rehash()
Rehash(s, cap) ==
  FoldLeft(LAMBDA t, i : IF s[i] = Free THEN t ELSE Put(t, s[i][1], s[i][2]),
           Emptied(cap), [i \in 1 .. Capacity(s) |-> i - 1])

\* operator[] makes room first, whether or not it has the key.
Grown(s) ==
  IF s = NoSlots THEN Emptied(Default)
  ELSE IF count * 4 > Capacity(s) * 3 THEN Rehash(s, 2 * Capacity(s)) ELSE s

Assign(k, v) ==
  /\ \E s \in {Grown(slots)} :
       /\ slots' = Put(s, k, v)
       /\ count' = IF s[Probe(s, k)] = Free THEN count + 1 ELSE count
  /\ meant' = [meant EXCEPT ![k] = <<k, v>>]

\* reserve() rounds up to a power of two and never shrinks the map.
Rounded(hint) == CHOOSE cap \in {1, 2, 4, 8, 16} : cap >= hint /\ cap < 2 * hint
Reserve(hint) ==
  /\ slots = NoSlots \/ Rounded(hint) > Capacity(slots)
  /\ slots' = Rehash(slots, Rounded(hint))
  /\ UNCHANGED <<count, meant>>

ClearMap ==
  /\ slots' = Emptied(Capacity(slots)) /\ count' = 0
  /\ meant' = [k \in Keys |-> None]

MapInit == slots = NoSlots /\ count = 0 /\ meant = [k \in Keys |-> None]
MapNext ==
  \/ \E k \in Keys, v \in Vals : Assign(k, v)
  \/ \E hint \in Hints : Reserve(hint)
  \/ ClearMap

(* A lookup that ends finds what was assigned last, and only that: entries  *)
(* are neither lost nor revived by growth, by clear() or by collisions. A   *)
(* map of four slots or less may fill up; then the probe for a new key runs *)
(* on for ever.                                                             *)
FindsAgree == \A k \in Keys :
  slots = NoSlots \/ Stops(slots, k) # {} => Find(slots, k) = meant[k]
RoomIsLeft == Capacity(slots) > 4 => count < Capacity(slots)
=============================================================================

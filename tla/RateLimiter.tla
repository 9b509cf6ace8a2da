------------------------------ MODULE RateLimiter ------------------------------
(* RateLimiter: a table of buckets, found by the address of the client and   *)
(* claimed by compare-and-swap, and one bucket for all. A bucket is a word   *)
(* that is loaded and replaced by compare-and-swap. A tick of the clock is   *)
(* worth one token. The middleware chain runs requests on several threads.   *)
EXTENDS Naturals, Sequences

CONSTANTS
  Threads,   \* threads that serve requests
  Requests,  \* whom a request comes from, and for whom it says it was passed on
  Trusted,   \* the proxies whose word is taken: none unless trust_forwarded
  Home,      \* per address, the first slot for it: its hash modulo the slots
  NSlots,    \* RateLimitConfig::slots
  IpBurst, GlobalBurst,
  Cycle,     \* values of the millisecond clock: it wraps around
  MaxTime,   \* bound of the clock, smaller than Cycle
  MaxGrants  \* bound: requests that are let through

VARIABLES
  table,   \* _table: whose slot it is, and its bucket
  shared,  \* _global
  clock,   \* steady_clock, in the ticks of the model, from 1 on
  serving, \* per thread: where it is, for which address, at which slot
  since,   \* per bucket: when it was full, and what was taken from it since
  behind   \* some thread computed with a time before that in the bucket

rateVars == <<table, shared, clock, serving, since, behind>>

Slots == 0 .. NSlots - 1
Free == ""      \* hash of an empty slot
Fresh == [tokens |-> 0, last |-> 0]
Global == NSlots \* the key of the shared bucket
None == [at |-> "none"]

Bucket(b) == IF b = Global THEN shared ELSE table[b].bucket
SetBucket(b, word) ==
  IF b = Global THEN shared' = word /\ UNCHANGED table
  ELSE table' = [table EXCEPT ![b].bucket = word] /\ UNCHANGED shared
Burst(b) == IF b = Global THEN GlobalBurst ELSE IpBurst

RateInit ==
  /\ table = [s \in Slots |-> [owner |-> Free, bucket |-> Fresh]] /\ shared = Fresh /\ clock = 1
  /\ serving = [t \in Threads |-> None]
  /\ since = [b \in Slots \cup {Global} |-> [from |-> 1, taken |-> 0]] /\ behind = FALSE

Tick == clock < MaxTime /\ clock' = clock + 1 /\ UNCHANGED <<table, shared, serving, since, behind>>

At(t, where) == serving[t].at = where
Goto(t, step) == serving' = [serving EXCEPT ![t] = step]

-----------------------------------------------------------------------------
(* locate(): a probe loads, a claim swaps.                                  *)
Probe(ip, i) == [at |-> "probe", ip |-> ip, i |-> i]
Replace(ip, i) == [at |-> "replace", ip |-> ip, i |-> i]
SlotAt(ip, i) == (Home[ip] + i) % NSlots
TakeFrom(ip, b) == [at |-> "read clock", ip |-> ip, bucket |-> b]

\* client_addr(): what the last proxy has added, or the peer.
ClientAddr(req) ==
  IF req.peer \in Trusted /\ req.forwarded # <<>> THEN req.forwarded[Len(req.forwarded)] ELSE req.peer

\* After a probe that was in vain: the next one, or the first to be replaced.
NextProbe(ip, i) == IF i + 1 < NSlots THEN Probe(ip, i + 1) ELSE Replace(ip, 0)
NextReplace(ip, i) == IF i + 1 < NSlots THEN Replace(ip, i + 1) ELSE TakeFrom(ip, Home[ip])

\* A request without an address has the bucket for all only.
Begin(t, req) ==
  /\ At(t, "none") /\ since[Global].taken < MaxGrants
  /\ Goto(t, IF ClientAddr(req) = "" THEN TakeFrom("", Global) ELSE Probe(ClientAddr(req), 0)) /\ UNCHANGED <<table, shared, clock, since, behind>>

ProbeSlot(t) ==
  /\ At(t, "probe")
  /\ LET ip == serving[t].ip  i == serving[t].i  owner == table[SlotAt(ip, i)].owner IN
     Goto(t, IF owner = ip THEN TakeFrom(ip, SlotAt(ip, i))
             ELSE IF owner = Free THEN [at |-> "claim", ip |-> ip, i |-> i, seen |-> Free]
             ELSE NextProbe(ip, i))
  /\ UNCHANGED <<table, shared, clock, since, behind>>

\* No slot is free: that of somebody else is taken over.
ReplaceSlot(t) ==
  /\ At(t, "replace")
  /\ LET ip == serving[t].ip  i == serving[t].i  owner == table[SlotAt(ip, i)].owner IN
     Goto(t, IF owner \in {ip, Free} THEN NextReplace(ip, i)
             ELSE [at |-> "claim", ip |-> ip, i |-> i, seen |-> owner])
  /\ UNCHANGED <<table, shared, clock, since, behind>>

\* A lost race is not looked into: the search goes on behind the slot, even
\* when the winner has the same address. A slot that is taken over is emptied
\* in a step of its own.
Claim(t) ==
  /\ At(t, "claim")
  /\ LET ip == serving[t].ip  i == serving[t].i  s == SlotAt(ip, i)  seen == serving[t].seen IN
     IF table[s].owner = seen
     THEN /\ table' = [table EXCEPT ![s].owner = ip]
          /\ Goto(t, IF seen = Free THEN TakeFrom(ip, s) ELSE [at |-> "reset", ip |-> ip, bucket |-> s])
     ELSE /\ Goto(t, IF seen = Free THEN NextProbe(ip, i) ELSE NextReplace(ip, i)) /\ UNCHANGED table
  /\ UNCHANGED <<shared, clock, since, behind>>

ResetSlot(t) ==
  /\ At(t, "reset")
  /\ SetBucket(serving[t].bucket, Fresh)
  /\ Goto(t, TakeFrom(serving[t].ip, serving[t].bucket)) /\ UNCHANGED <<clock, since, behind>>

-----------------------------------------------------------------------------
(* take(): the time is read once, the word is loaded and swapped.           *)
ReadClock(t) ==
  /\ At(t, "read clock")
  /\ Goto(t, [at |-> "load", ip |-> serving[t].ip, bucket |-> serving[t].bucket, now |-> clock])
  /\ UNCHANGED <<table, shared, clock, since, behind>>

Load(t) ==
  /\ At(t, "load")
  /\ Goto(t, [at |-> "swap", ip |-> serving[t].ip, bucket |-> serving[t].bucket, now |-> serving[t].now,
              word |-> Bucket(serving[t].bucket)])
  /\ UNCHANGED <<table, shared, clock, since, behind>>

\* What is in the bucket now: it is full at first, and what has passed since the
\* last time is computed modulo the clock's cycle.
Refilled(word, now, cap) ==
  IF word.last = 0 THEN cap
  ELSE LET elapsed == (now + Cycle - word.last) % Cycle
       IN IF elapsed >= cap - word.tokens THEN cap ELSE word.tokens + elapsed

\* An address has its own bucket first and then the one for all.
Granted(t, b) == Goto(t, IF b = Global THEN None ELSE TakeFrom(serving[t].ip, Global))

Counted(b, word, now) ==
  since' = [since EXCEPT ![b] = IF word.last = 0 THEN [from |-> now, taken |-> 1] ELSE [@ EXCEPT !.taken = @ + 1]]

\* Mutant: the word is stored over whatever came in between.
Swap_Stores(t) ==
  /\ At(t, "swap")
  /\ LET b == serving[t].bucket  word == serving[t].word  now == serving[t].now
         tokens == Refilled(word, now, Burst(b)) IN
     /\ behind' = (behind \/ now < word.last)
     /\ SetBucket(b, [tokens |-> IF tokens > 0 THEN tokens - 1 ELSE 0, last |-> now])
     /\ IF tokens > 0 THEN Granted(t, b) /\ Counted(b, word, now)
        ELSE Goto(t, None) /\ UNCHANGED since
  /\ UNCHANGED clock

\* When there is no token, the time is advanced if that succeeds at once.
Swap(t) ==
  /\ At(t, "swap")
  /\ LET b == serving[t].bucket  word == serving[t].word  now == serving[t].now
         tokens == Refilled(word, now, Burst(b)) IN
     /\ behind' = (behind \/ now < word.last)
     /\ IF Bucket(b) = word
        THEN SetBucket(b, [tokens |-> IF tokens > 0 THEN tokens - 1 ELSE 0, last |-> now])
        ELSE UNCHANGED <<table, shared>>
     /\ IF tokens = 0 THEN Goto(t, None) /\ UNCHANGED since
        ELSE IF Bucket(b) = word THEN Granted(t, b) /\ Counted(b, word, now)
        ELSE Goto(t, [serving[t] EXCEPT !.word = Bucket(b)]) /\ UNCHANGED since
  /\ UNCHANGED clock

RateNext ==
  \/ Tick
  \/ \E t \in Threads :
       \/ \E req \in Requests : Begin(t, req)
       \/ ProbeSlot(t) \/ ReplaceSlot(t) \/ Claim(t) \/ ResetSlot(t)
       \/ ReadClock(t) \/ Load(t) \/ Swap(t)

-----------------------------------------------------------------------------
(* From no bucket more is taken than it was full of and what the time since *)
(* has brought, as long as no thread computes with a time that is before    *)
(* the one in the bucket: the difference then wraps around and fills it.    *)
BudgetsAreKept ==
  ~behind => \A b \in DOMAIN since : since[b].taken <= Burst(b) + (clock - since[b].from)
=============================================================================

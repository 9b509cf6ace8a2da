---------------------------- MODULE SegmentedQueue ----------------------------
(* The unbounded queues of common/utils/queue: SegmentedMPMCQueue (under    *)
(* ThreadPool) and SegmentedMPSCQueue (under EventLoop). Tickets are taken  *)
(* with two global counters; a ticket lives in slot ticket - base of the    *)
(* block that covers it, in a linked list of blocks that only grows. Block  *)
(* b covers tickets Base(b) onwards. One action per access to shared        *)
(* memory, except that loading next (it is set once) is one step with what  *)
(* follows from it.                                                         *)
EXTENDS Integers, Sequences

CONSTANTS
  BlockSize,   \* by kind; at least 64 in the code: the walks need it small to be checked
  Producers,   \* by kind: the threads that call try_push
  Consumers,   \* by kind: the threads that call try_pop
  Pushes,      \* bound, by kind: calls of try_push, each of which takes a ticket
  Pops,        \* bound, by kind: calls of try_pop per consumer
  MayClear     \* does somebody call SegmentedMPSCQueue::clear()?

VARIABLES
  kind,     \* which of the queues this is; it never changes
  enq,      \* enqueue_pos_
  deq,      \* dequeue_pos_
  last,     \* the last block that next pointers reach
  head,     \* head_block_
  tail,     \* tail_block_
  phase,    \* the sequence of each ticket's slot: "free", "full" or "taken"
  cell,     \* the item in each ticket's slot
  pc, pos, got,   \* as in RingQueue
  begun,    \* how many calls each thread has begun
  block     \* the block each thread has walked to

segmentVars == <<kind, enq, deq, last, head, tail, phase, cell, pc, pos, got, begun, block>>

Kinds == {"SegmentedMPMC", "SegmentedMPSC"}
ManyPop == kind = "SegmentedMPMC"
Pushers == Producers[kind]
Poppers == Consumers[kind]
Users == Pushers \cup Poppers

SegmentAssumption ==
  /\ \A k \in Kinds : /\ BlockSize[k] \in Nat \ {0} /\ Pushes[k] \in Nat /\ Pops[k] \in Nat
                      /\ Producers[k] \cap Consumers[k] = {}
  /\ \A c, d \in Consumers["SegmentedMPSC"] : c = d
  /\ MayClear \in BOOLEAN

Empty == <<>>

(* The first ticket of a block (base_ticket). *)
Base(b) == b * BlockSize[kind]

Item(p) == <<p, begun[p]>>

Beyond(t) == pos[t] >= Base(block[t] + 1)   \* pos is in a later block
Before(t) == pos[t] < Base(block[t])        \* pos is in an earlier one

Moves(t, from, to) == pc[t] = from /\ pc' = [pc EXCEPT ![t] = to]

(* The tickets the bounds allow. *)
Tickets == 0 .. Pushes[kind] - 1

SegmentInit ==
  /\ kind \in Kinds
  /\ enq = 0 /\ deq = 0 /\ last = 0 /\ head = 0 /\ tail = 0
  /\ phase = [t \in Tickets |-> "free"]
  /\ cell = [t \in Tickets |-> Empty]
  /\ pc = [t \in Users |-> "idle"]
  /\ pos = [t \in Users |-> 0]
  /\ begun = [t \in Users |-> 0]
  /\ got = [c \in Poppers |-> <<>>]
  /\ block = [t \in Users |-> 0]

(***************************************************************************)
(* try_push and claim_enqueue_slot                                         *)
(***************************************************************************)

PushTicket(p) ==
  /\ enq < Pushes[kind]
  /\ begun' = [begun EXCEPT ![p] = @ + 1]
  /\ Moves(p, "idle", "tail")
  /\ pos' = [pos EXCEPT ![p] = enq]
  /\ enq' = enq + 1
  /\ UNCHANGED <<kind, deq, last, head, tail, phase, cell, got, block>>

LoadTail(p) ==
  /\ Moves(p, "tail", "walk")
  /\ block' = [block EXCEPT ![p] = tail]
  /\ UNCHANGED <<kind, enq, deq, last, head, tail, phase, cell, pos, begun, got>>

(* Follow next; at the end of the list a new block is allocated and linked *)
(* with compare_exchange_strong, whose loser takes the winner's block.     *)
NextOrLink(p) ==
  /\ Beyond(p)
  /\ Moves(p, "walk", "swing")
  /\ last' = IF last = block[p] THEN last + 1 ELSE last
  /\ UNCHANGED <<kind, enq, deq, head, tail, phase, cell, pos, begun, got, block>>

(* Move tail_block_ on with a weak compare_exchange; walk on either way. *)
SwingTail(p) ==
  /\ Moves(p, "swing", "walk")
  /\ \/ tail = block[p] /\ tail' = tail + 1
     \/ tail' = tail
  /\ block' = [block EXCEPT ![p] = @ + 1]
  /\ UNCHANGED <<kind, enq, deq, last, head, phase, cell, pos, begun, got>>

(* tail_block_ was already past this ticket: walk again from the first      *)
(* block (MPMC) or from the consumer's block (MPSC).                        *)
PushFallBack(p) ==
  /\ Before(p)
  /\ Moves(p, "walk", "rewalk")
  /\ block' = [block EXCEPT ![p] = IF ManyPop THEN 0 ELSE head]
  /\ UNCHANGED <<kind, enq, deq, last, head, tail, phase, cell, pos, begun, got>>

(* One hop of the second walk, of a producer or of a consumer. *)
Rewalk(t) ==
  /\ pc[t] = "rewalk" /\ Beyond(t)
  /\ block' = [block EXCEPT ![t] = @ + 1]
  /\ UNCHANGED <<kind, enq, deq, last, head, tail, phase, cell, pc, pos, begun, got>>

(* Found when the walk has stopped at the ticket's block. *)
Found(t) == pc[t] = "rewalk" \/ (pc[t] = "walk" /\ ~Before(t))

Fill(p) ==
  /\ ~Beyond(p) /\ Found(p)
  /\ phase[pos[p]] = "free"
  /\ cell' = [cell EXCEPT ![pos[p]] = Item(p)]
  /\ pc' = [pc EXCEPT ![p] = "publish"]
  /\ UNCHANGED <<kind, enq, deq, last, head, tail, phase, pos, begun, got, block>>

Publish(p) ==
  /\ Moves(p, "publish", "idle")
  /\ phase' = [phase EXCEPT ![pos[p]] = "full"]
  /\ UNCHANGED <<kind, enq, deq, last, head, tail, cell, pos, begun, got, block>>

(***************************************************************************)
(* try_pop                                                                 *)
(***************************************************************************)

PopBegin(c) ==
  /\ begun[c] < Pops[kind]
  /\ begun' = [begun EXCEPT ![c] = @ + 1]
  /\ Moves(c, "idle", "compare")
  /\ pos' = [pos EXCEPT ![c] = deq]
  /\ UNCHANGED <<kind, enq, deq, last, head, tail, phase, cell, got, block>>

(* Empty when every ticket that was issued has been claimed. *)
Compare(c) ==
  /\ Moves(c, "compare", IF pos[c] >= enq THEN "idle" ELSE "claim")
  /\ UNCHANGED <<kind, enq, deq, last, head, tail, phase, cell, pos, begun, got, block>>

(* Mutant: the store of the one consumer of MPSC, where there are several. *)
ClaimPop_Stores(c) ==
  /\ Moves(c, "claim", "head")
  /\ deq' = pos[c] + 1
  /\ UNCHANGED <<kind, enq, last, head, tail, phase, cell, pos, begun, got, block>>

(* MPMC: compare_exchange_weak, back to the loads when it fails. MPSC: a    *)
(* plain store, for there is one consumer.                                  *)
ClaimPop(c) ==
  /\ \/ /\ deq = pos[c] \/ ~ManyPop
        /\ Moves(c, "claim", "head")
        /\ deq' = pos[c] + 1
        /\ UNCHANGED pos
     \/ /\ ManyPop
        /\ Moves(c, "claim", "compare")
        /\ pos' = [pos EXCEPT ![c] = deq]
        /\ UNCHANGED deq
  /\ UNCHANGED <<kind, enq, last, head, tail, phase, cell, begun, got, block>>

LoadHead(c) ==
  /\ Moves(c, "head", "walk")
  /\ block' = [block EXCEPT ![c] = head]
  /\ UNCHANGED <<kind, enq, deq, last, head, tail, phase, cell, pos, begun, got>>

(* A hop towards the ticket's block, spinning while the producer has not    *)
(* linked it; head_block_ follows with a weak exchange (MPMC) or a store.   *)
WalkHead(c) ==
  /\ pc[c] = "walk" /\ Beyond(c) /\ block[c] < last
  /\ \/ (head = block[c] \/ ~ManyPop) /\ head' = block[c] + 1
     \/ ManyPop /\ head' = head
  /\ block' = [block EXCEPT ![c] = @ + 1]
  /\ UNCHANGED <<kind, enq, deq, last, tail, phase, cell, pc, pos, begun, got>>

(* Another consumer moved head_block_ past this ticket: restart from the    *)
(* first block (MPMC). MPSC would read head_block_ again.                   *)
PopFallBack(c) ==
  /\ Before(c)
  /\ Moves(c, "walk", "rewalk")
  /\ block' = [block EXCEPT ![c] = IF ManyPop THEN 0 ELSE head]
  /\ UNCHANGED <<kind, enq, deq, last, head, tail, phase, cell, pos, begun, got>>

(* The spin until the producer has published, then the move out. *)
Take(c) ==
  /\ ~Beyond(c) /\ Found(c)
  /\ phase[pos[c]] = "full"
  /\ got' = [got EXCEPT ![c] = Append(@, cell[pos[c]])]
  /\ pc' = [pc EXCEPT ![c] = "retire"]
  /\ UNCHANGED <<kind, enq, deq, last, head, tail, phase, cell, pos, begun, block>>

Retire(c) ==
  /\ Moves(c, "retire", IF pos[c] + 1 = Base(block[c] + 1) THEN "advance" ELSE "idle")
  /\ phase' = [phase EXCEPT ![pos[c]] = "taken"]
  /\ cell' = [cell EXCEPT ![pos[c]] = Empty]
  /\ UNCHANGED <<kind, enq, deq, last, head, tail, pos, begun, got, block>>

(* The last slot of a block: move head_block_ on when the next one is there. *)
AdvanceHead(c) ==
  /\ Moves(c, "advance", "idle")
  /\ head' = IF block[c] < last /\ (~ManyPop \/ head = block[c])
             THEN block[c] + 1 ELSE head
  /\ UNCHANGED <<kind, enq, deq, last, tail, phase, cell, pos, begun, got, block>>

(* SegmentedMPSCQueue::clear(), in a quiet period: the tickets left are     *)
(* destroyed and counted as consumed. head_block_ stays where it is.        *)
Clear ==
  /\ MayClear /\ ~ManyPop
  /\ \A t \in Users : pc[t] = "idle"
  /\ deq < enq
  /\ phase' = [t \in Tickets |-> IF t \in deq .. enq - 1 THEN "taken" ELSE phase[t]]
  /\ cell' = [t \in Tickets |-> IF t \in deq .. enq - 1 THEN Empty ELSE cell[t]]
  /\ deq' = enq
  /\ UNCHANGED <<kind, enq, last, head, tail, pc, pos, begun, got, block>>

SegmentNext ==
  \/ \E p \in Pushers :
        \/ PushTicket(p) \/ LoadTail(p) \/ NextOrLink(p) \/ SwingTail(p)
        \/ PushFallBack(p) \/ Rewalk(p) \/ Fill(p) \/ Publish(p)
  \/ \E c \in Poppers :
        \/ PopBegin(c) \/ Compare(c) \/ ClaimPop(c) \/ LoadHead(c) \/ WalkHead(c)
        \/ PopFallBack(c) \/ Rewalk(c) \/ Take(c) \/ Retire(c) \/ AdvanceHead(c)
  \/ Clear

SegmentSpec == SegmentInit /\ [][SegmentNext]_segmentVars

(***************************************************************************)
(* The queue behind the blocks                                             *)
(***************************************************************************)

Writing(t) == {p \in Pushers : pc[p] # "idle" /\ pos[p] = t}
TicketItem(t) == IF Writing(t) # {} THEN Item(CHOOSE p \in Writing(t) : TRUE) ELSE cell[t]
Line == [i \in 1 .. enq - deq |-> TicketItem(deq + i - 1)]

(* A pop takes effect when it claims its ticket, which may be before its    *)
(* producer has stored the item.                                            *)
Popped(c) ==
  IF pc[c] \in {"head", "walk", "rewalk"} THEN Append(got[c], TicketItem(pos[c])) ELSE got[c]

AllItems == UNION {Producers[k] \X (1 .. Pushes[k]) : k \in Kinds}
AllPoppers == UNION {Consumers[k] : k \in Kinds}
AllPopped == [c \in AllPoppers |-> IF c \in Poppers THEN Popped(c) ELSE <<>>]

Segments == INSTANCE Fifo WITH Items <- AllItems, Consumers <- AllPoppers, items <- Line, got <- AllPopped

(* The segmented queues implement Fifo: no interleaving of tickets, blocks  *)
(* and stores loses an item, hands it out twice or lets one overtake        *)
(* another.                                                                 *)
SegmentsStart == Segments!Init
SegmentsStep == [Segments!Next]_(Segments!vars)

(* A walk never follows a null next pointer and never ends in a block after *)
(* its ticket's (the index would wrap around): the block a walk restarts    *)
(* from is always at or before the block of a ticket still in use. The code *)
(* dereferences next without a check there.                                 *)
WalksStayInside ==
  \A t \in Users :
     pc[t] = "rewalk" => ~Before(t) /\ (Beyond(t) => block[t] < last)

(***************************************************************************)
(* Why it works: the inductive invariant                                   *)
(***************************************************************************)

PushPc == {"idle", "tail", "walk", "swing", "rewalk", "publish"}
PopPc == {"idle", "compare", "claim", "head", "walk", "rewalk", "retire", "advance"}
SegmentTypeOK ==
  /\ kind \in Kinds
  /\ enq \in Nat /\ enq <= Pushes[kind] /\ deq \in Nat /\ deq <= enq
  /\ last \in Nat /\ head \in 0 .. last /\ tail \in 0 .. last
  /\ phase \in [Tickets -> {"free", "full", "taken"}]
  /\ cell \in [Tickets -> AllItems \cup {Empty}]
  /\ pc \in [Users -> PushPc \cup PopPc]
  /\ \A p \in Pushers : pc[p] \in PushPc
  /\ \A c \in Poppers : pc[c] \in PopPc
  /\ pos \in [Users -> Nat]
  /\ begun \in [Users -> Nat]
  /\ \A p \in Pushers : begun[p] <= enq /\ (pc[p] # "idle" => begun[p] > 0)
  /\ got \in [Poppers -> Seq(AllItems \cup {Empty})]
  /\ block \in [Users -> 0 .. last]

(* A call of try_push that has a ticket is alone with its slot.             *)
WritersInv ==
  \A p \in Pushers : pc[p] # "idle" =>
    /\ pos[p] < enq /\ phase[pos[p]] = "free"
    /\ pc[p] = "publish" => cell[pos[p]] = Item(p)
    /\ \A q \in Writing(pos[p]) : q = p

(* So is a call of try_pop that has claimed one, with the producer's.       *)
Claimed == {"head", "walk", "rewalk", "retire"}
ReadersInv ==
  \A c \in Poppers :
    /\ pc[c] \in Claimed => /\ pos[c] < deq /\ phase[pos[c]] # "taken"
                            /\ \A d \in Poppers : pc[d] \in Claimed /\ pos[d] = pos[c] => d = c
    /\ pc[c] = "retire" => phase[pos[c]] = "full"
    /\ pc[c] = "claim" => pos[c] < enq

(* A ticket is a producer's until its item is in the slot, and what was not *)
(* claimed was not taken. A producer that is overtaken has its consumer     *)
(* wait for it.                                                             *)
PhasesInv ==
  /\ \A t \in 0 .. enq - 1 : phase[t] = "free" => Writing(t) # {}
  /\ \A t \in enq .. Pushes[kind] - 1 : phase[t] = "free"
  /\ \A t \in deq .. enq - 1 : phase[t] # "taken"
  /\ \A p \in Pushers : pc[p] # "idle" /\ pos[p] < deq =>
       \E c \in Poppers : pc[c] \in {"head", "walk", "rewalk"} /\ pos[c] = pos[p]

(* Blocks are linked as far as anybody walks: a walk restarts because it    *)
(* was past its ticket's block, which is linked therefore.                  *)
BlocksInv ==
  /\ \A p \in Pushers : pc[p] = "swing" => block[p] < last
  /\ \A t \in Users : pc[t] = "rewalk" => Base(block[t]) <= pos[t] /\ pos[t] < Base(last)

(* With one consumer head_block_ does not pass a ticket in use.             *)
HeadInv ==
  /\ Base(head) <= deq
  /\ \A p \in Pushers : pc[p] # "idle" => Base(head) <= pos[p]
  /\ \A c \in Poppers :
       /\ pc[c] # "rewalk"
       /\ pc[c] \in {"compare", "claim"} => pos[c] = deq
       /\ pc[c] \in {"head", "walk", "retire", "advance"} => deq = pos[c] + 1
       /\ pc[c] \in {"head", "walk"} => Base(head) <= pos[c]
       /\ pc[c] \in {"walk", "retire", "advance"} => block[c] = head
       /\ pc[c] = "advance" => deq = Base(head + 1)

SegmentInv ==
  /\ SegmentTypeOK /\ WritersInv /\ ReadersInv /\ PhasesInv /\ BlocksInv
  /\ ~ManyPop => HeadInv
=============================================================================

------------------------------ MODULE RingQueue ------------------------------
(* The bounded queues of common/utils/queue: BoundedMPMCQueue and           *)
(* BoundedMPSCQueue (a ring of slots, each with a sequence number that says *)
(* whose turn it is) and SPSCQueue (two indices and no sequence numbers).   *)
(* One action per access to shared memory. An index is never wrapped here:  *)
(* it is a 64-bit counter in the code, and Pushes bounds it.                *)
EXTENDS Integers, Sequences, SequencesExt

CONSTANTS
  Capacity,
  Producers,   \* by kind of queue: the threads that call try_push
  Consumers,   \* by kind: the threads that call try_pop
  Pushes,      \* bound, by kind: calls of try_push per producer
  Pops,        \* bound, by kind: calls of try_pop per consumer
  Cleared      \* the kinds that somebody calls clear() of

VARIABLES
  kind,       \* which of the queues this is; it never changes
  write,      \* _write
  read,       \* _read
  seq,        \* Slot::sequence, by slot
  cell,       \* Slot::_storage, by slot; Empty when no T lives there
  pc,         \* where each thread is in its call
  pos,        \* its local copy of the index it works on
  calls,      \* how many calls it has begun
  got         \* history: what each consumer has popped

ringVars == <<kind, write, read, seq, cell, pc, pos, calls, got>>

Kinds == {"MPMC", "MPSC", "SPSC"}
Pushers == Producers[kind]
Poppers == Consumers[kind]
Threads == Pushers \cup Poppers

(* The static assertions on Capacity, and who may call what: the single     *)
(* sides of the names, and no clear() of the MPMC queue.                    *)
RingAssumption ==
  /\ Capacity \in Nat /\ Capacity >= 2
  /\ Cleared \subseteq {"MPSC", "SPSC"}
  /\ \A k \in Kinds : Producers[k] \cap Consumers[k] = {} /\ Pushes[k] \in Nat /\ Pops[k] \in Nat
  /\ \A k \in {"MPSC", "SPSC"} : \A c, d \in Consumers[k] : c = d
  /\ \A p, q \in Producers["SPSC"] : p = q

Empty == <<>>
Slot(t) == t % Capacity

(* What a producer pushes in its current call. *)
Item(p) == <<p, calls[p]>>

Moves(t, from, to) == pc[t] = from /\ pc' = [pc EXCEPT ![t] = to]

RingInit ==
  /\ kind \in Kinds
  /\ write = 0 /\ read = 0
  /\ seq = [i \in 0 .. Capacity - 1 |-> i]
  /\ cell = [i \in 0 .. Capacity - 1 |-> Empty]
  /\ pc = [t \in Threads |-> "idle"]
  /\ pos = [t \in Threads |-> 0]
  /\ calls = [t \in Threads |-> 0]
  /\ got = [c \in Poppers |-> <<>>]

(***************************************************************************)
(* try_push                                                                *)
(***************************************************************************)

(* The call begins: MPMC loads _write, MPSC and SPSC load the other side's *)
(* index first and compare.                                                *)
PushBegin(p) ==
  /\ calls[p] < Pushes[kind]
  /\ calls' = [calls EXCEPT ![p] = @ + 1]
  /\ Moves(p, "idle", IF kind = "MPMC" THEN "inspect" ELSE "room")
  /\ pos' = [pos EXCEPT ![p] = IF kind = "MPMC" THEN write ELSE read]
  /\ UNCHANGED <<kind, write, read, seq, cell, got>>

(* MPMC claim_write_slot: the slot is free for this ticket, still full, or *)
(* the ticket is stale and _write is loaded again. *)
InspectSlot(p) ==
  /\ pc[p] = "inspect"
  /\ LET diff == seq[Slot(pos[p])] - pos[p] IN
       /\ pc' = [pc EXCEPT ![p] = IF diff = 0 THEN "claim" ELSE IF diff < 0 THEN "idle" ELSE @]
       /\ pos' = [pos EXCEPT ![p] = IF diff > 0 THEN write ELSE @]
  /\ UNCHANGED <<kind, write, read, seq, cell, calls, got>>

(* MPMC: compare_exchange_weak on _write. It fails when the index has moved *)
(* (or for no reason: it is the weak form) and reloads it.                  *)
CasWrite(p) ==
  /\ \/ /\ write = pos[p]
        /\ Moves(p, "claim", "fill")
        /\ write' = write + 1
        /\ UNCHANGED pos
     \/ /\ Moves(p, "claim", "inspect")
        /\ pos' = [pos EXCEPT ![p] = write]
        /\ UNCHANGED write
  /\ UNCHANGED <<kind, read, seq, cell, calls, got>>

(* Mutant: the room is one slot too large. *)
CheckRoom_OffByOne(p) ==
  /\ pc[p] = "room"
  /\ IF write - pos[p] > Capacity
     THEN /\ pc' = [pc EXCEPT ![p] = "idle"]
          /\ UNCHANGED pos
     ELSE /\ pc' = [pc EXCEPT ![p] = IF kind = "MPSC" THEN "ticket" ELSE "fill"]
          /\ pos' = [pos EXCEPT ![p] = write]
  /\ UNCHANGED <<kind, write, read, seq, cell, calls, got>>

(* MPSC and SPSC: full when the index loaded before leaves no room. SPSC    *)
(* owns _write, so its ticket is simply the index.                          *)
CheckRoom(p) ==
  /\ pc[p] = "room"
  /\ IF write - pos[p] >= Capacity
     THEN /\ pc' = [pc EXCEPT ![p] = "idle"]
          /\ UNCHANGED pos
     ELSE /\ pc' = [pc EXCEPT ![p] = IF kind = "MPSC" THEN "ticket" ELSE "fill"]
          /\ pos' = [pos EXCEPT ![p] = write]
  /\ UNCHANGED <<kind, write, read, seq, cell, calls, got>>

(* MPSC: fetch_add. Producers that all saw room may take more tickets than  *)
(* there are slots.                                                         *)
TakeTicket(p) ==
  /\ Moves(p, "ticket", "turn")
  /\ pos' = [pos EXCEPT ![p] = write]
  /\ write' = write + 1
  /\ UNCHANGED <<kind, read, seq, cell, calls, got>>

(* MPSC: the spin until the consumer has freed the slot for this ticket. *)
AwaitTurn(p) ==
  /\ seq[Slot(pos[p])] = pos[p]
  /\ Moves(p, "turn", "fill")
  /\ UNCHANGED <<kind, write, read, seq, cell, pos, calls, got>>

(* The placement new. *)
Fill(p) ==
  /\ Moves(p, "fill", "publish")
  /\ cell' = [cell EXCEPT ![Slot(pos[p])] = Item(p)]
  /\ UNCHANGED <<kind, write, read, seq, pos, calls, got>>

(* The release store that lets the consumer in. *)
Publish(p) ==
  /\ Moves(p, "publish", "idle")
  /\ IF kind = "SPSC"
     THEN write' = pos[p] + 1 /\ UNCHANGED seq
     ELSE seq' = [seq EXCEPT ![Slot(pos[p])] = pos[p] + 1] /\ UNCHANGED write
  /\ UNCHANGED <<kind, read, cell, pos, calls, got>>

(***************************************************************************)
(* try_pop                                                                 *)
(***************************************************************************)

PopBegin(c) ==
  /\ calls[c] < Pops[kind]
  /\ calls' = [calls EXCEPT ![c] = @ + 1]
  /\ Moves(c, "idle", "look")
  /\ pos' = [pos EXCEPT ![c] = read]
  /\ UNCHANGED <<kind, write, read, seq, cell, got>>

(* Is the slot at the head filled? MPMC goes on to a CAS, or reloads _read  *)
(* when another consumer has been here; MPSC owns _read and stores it.      *)
LookHead(c) ==
  /\ pc[c] = "look"
  /\ LET diff == IF kind = "SPSC"
                 THEN IF write = pos[c] THEN -1 ELSE 0
                 ELSE seq[Slot(pos[c])] - (pos[c] + 1) IN
       \/ /\ diff = 0
          /\ pc' = [pc EXCEPT ![c] = IF kind = "MPMC" THEN "grab" ELSE "take"]
          /\ read' = IF kind = "MPSC" THEN pos[c] + 1 ELSE read
          /\ UNCHANGED pos
       \/ /\ diff > 0 /\ kind = "MPMC"
          /\ pos' = [pos EXCEPT ![c] = read]
          /\ UNCHANGED <<pc, read>>
       \/ /\ diff < 0 \/ (diff > 0 /\ kind = "MPSC")
          /\ pc' = [pc EXCEPT ![c] = "idle"]
          /\ UNCHANGED <<pos, read>>
  /\ UNCHANGED <<kind, write, seq, cell, calls, got>>

CasRead(c) ==
  /\ \/ /\ read = pos[c]
        /\ Moves(c, "grab", "take")
        /\ read' = read + 1
        /\ UNCHANGED pos
     \/ /\ Moves(c, "grab", "look")
        /\ pos' = [pos EXCEPT ![c] = read]
        /\ UNCHANGED read
  /\ UNCHANGED <<kind, write, seq, cell, calls, got>>

(* The item is moved out of the slot and destroyed. *)
Take(c) ==
  /\ Moves(c, "take", "free")
  /\ got' = [got EXCEPT ![c] = Append(@, cell[Slot(pos[c])])]
  /\ cell' = [cell EXCEPT ![Slot(pos[c])] = Empty]
  /\ UNCHANGED <<kind, write, read, seq, pos, calls>>

(* The release store that gives the slot to the producer one round later. *)
Free(c) ==
  /\ Moves(c, "free", "idle")
  /\ IF kind = "SPSC"
     THEN read' = pos[c] + 1 /\ UNCHANGED seq
     ELSE seq' = [seq EXCEPT ![Slot(pos[c])] = pos[c] + Capacity] /\ UNCHANGED read
  /\ UNCHANGED <<kind, write, cell, pos, calls, got>>

(* Mutant: clear() leaves the sequence numbers of every queue alone. *)
Clear_LeavesSequences ==
  /\ kind \in Cleared
  /\ \A t \in Threads : pc[t] = "idle"
  /\ read # write
  /\ cell' = [i \in DOMAIN cell |-> IF \E t \in read .. write - 1 : i = Slot(t) THEN Empty ELSE cell[i]]
  /\ read' = write
  /\ UNCHANGED <<kind, write, seq, pc, pos, calls, got>>

(* clear(), called while no thread is inside the queue: the items between   *)
(* the indices are destroyed. BoundedMPSCQueue also hands the slots to the  *)
(* next round; BoundedMPMCQueue leaves their sequence numbers alone.        *)
Clear ==
  /\ kind \in Cleared
  /\ \A t \in Threads : pc[t] = "idle"
  /\ read # write
  /\ LET gone == {Slot(t) : t \in read .. write - 1} IN
       /\ cell' = [i \in DOMAIN cell |-> IF i \in gone THEN Empty ELSE cell[i]]
       /\ seq' = IF kind = "MPSC"
                 THEN [i \in DOMAIN seq |-> IF i \in gone THEN seq[i] - 1 + Capacity ELSE seq[i]]
                 ELSE seq
  /\ read' = write
  /\ UNCHANGED <<kind, write, pc, pos, calls, got>>

RingNext ==
  \/ \E p \in Pushers :
        \/ PushBegin(p) \/ InspectSlot(p) \/ CasWrite(p)
        \/ CheckRoom(p) \/ TakeTicket(p) \/ AwaitTurn(p)
        \/ Fill(p) \/ Publish(p)
  \/ \E c \in Poppers : PopBegin(c) \/ LookHead(c) \/ CasRead(c) \/ Take(c) \/ Free(c)
  \/ Clear

RingSpec == RingInit /\ [][RingNext]_ringVars

(***************************************************************************)
(* The queue behind the slots                                              *)
(***************************************************************************)

HasTicket(p) == pc[p] \in {"turn", "fill", "publish"}
HasItem(c) == pc[c] \in {"take", "free"}

(* A ticket stands for the item its producer still has, or for the one in   *)
(* its slot. A pop takes effect when the ticket is claimed; the consumer of *)
(* SPSC claims it with its last store, the item in its hands.               *)
Holding(t) == {p \in Pushers : HasTicket(p) /\ pos[p] = t}
TicketItem(t) == IF Holding(t) = {} THEN cell[Slot(t)] ELSE Item(CHOOSE p \in Holding(t) : TRUE)

Taking == {c \in Poppers : kind = "SPSC" /\ pc[c] = "free"}
Entry(t) ==
  IF t = read /\ Taking # {} THEN Last(got[CHOOSE c \in Taking : TRUE]) ELSE TicketItem(t)
Queued == [i \in 1 .. write - read |-> Entry(read + i - 1)]

Popped(c) ==
  CASE kind # "SPSC" /\ pc[c] = "take" -> Append(got[c], cell[Slot(pos[c])])
    [] c \in Taking -> Front(got[c])
    [] OTHER -> got[c]

AllItems == UNION {Producers[k] \X (1 .. Pushes[k]) : k \in Kinds}
AllPoppers == UNION {Consumers[k] : k \in Kinds}
AllPopped == [c \in AllPoppers |-> IF c \in Poppers THEN Popped(c) ELSE <<>>]

Queue == INSTANCE Fifo WITH Items <- AllItems, Consumers <- AllPoppers,
                            items <- Queued, got <- AllPopped

(* The bounded queues implement Fifo: no interleaving of the claims, the   *)
(* stores and the sequence numbers loses an item, hands it out twice, or   *)
(* lets a later ticket overtake an earlier one.                            *)
QueueStarts == Queue!Init
QueueSteps == [Queue!Next]_(Queue!vars)

(* When no thread is inside the queue, every slot carries the sequence     *)
(* number its next user waits for: filled slots for the consumer, the      *)
(* others for the producer of the coming ticket. A slot that is off by one *)
(* round is lost for ever: the queue reports full or empty and is neither. *)
QuietSlotsAgree ==
  (kind # "SPSC" /\ \A t \in Threads : pc[t] = "idle") =>
     /\ write - read \in 0 .. Capacity
     /\ \A t \in read .. write - 1 : seq[Slot(t)] = t + 1
     /\ \A t \in write .. read + Capacity - 1 : seq[Slot(t)] = t

(***************************************************************************)
(* Why it works: the inductive invariant                                   *)
(***************************************************************************)

Stages ==
  {"idle", "inspect", "claim", "room", "ticket", "turn", "fill", "publish", "look", "grab", "take", "free"}
RingTypeOK ==
  /\ kind \in Kinds
  /\ write \in Nat /\ read \in Nat /\ read <= write
  /\ seq \in [0 .. Capacity - 1 -> Nat]
  /\ cell \in [0 .. Capacity - 1 -> AllItems \cup {Empty}]
  /\ pc \in [Threads -> Stages]
  /\ pos \in [Threads -> Nat]
  /\ calls \in [Threads -> Nat]
  /\ got \in [Poppers -> Seq(AllItems \cup {Empty})]

PushPc ==
  CASE kind = "MPMC" -> {"idle", "inspect", "claim", "fill", "publish"}
    [] kind = "MPSC" -> {"idle", "room", "ticket", "turn", "fill", "publish"}
    [] OTHER -> {"idle", "room", "fill", "publish"}
PopPc == {"idle", "look", "take", "free"} \cup (IF kind = "MPMC" THEN {"grab"} ELSE {})

CallsInv ==
  /\ \A p \in Pushers : pc[p] \in PushPc /\ (pc[p] # "idle" => calls[p] \in 1 .. Pushes[kind])
  /\ \A c \in Poppers : pc[c] \in PopPc

(* A slot waits for the producer of a ticket of the next round, holds the   *)
(* item of a ticket taken, or is being emptied by the consumer of one that  *)
(* _read has passed.                                                        *)
SlotFits(i) ==
  \/ Slot(seq[i]) = i /\ read <= seq[i] /\ seq[i] < read + Capacity
  \/ Slot(seq[i] - 1) = i /\ read < seq[i] /\ seq[i] <= read + Capacity /\ seq[i] <= write
  \/ /\ Slot(seq[i] - 1) = i /\ read <= seq[i] - 1 + Capacity
     /\ \E c \in Poppers : HasItem(c) /\ pos[c] = seq[i] - 1
SlotsInv == \A i \in 0 .. Capacity - 1 : SlotFits(i)

TicketFits(p) ==
  /\ read <= pos[p] /\ pos[p] < write
  /\ seq[Slot(pos[p])] # pos[p] + 1
  /\ pc[p] # "turn" => seq[Slot(pos[p])] = pos[p]
  /\ pc[p] = "publish" => cell[Slot(pos[p])] = Item(p)
  /\ \A q \in Pushers : HasTicket(q) /\ pos[q] = pos[p] => q = p
TicketsInv == \A p \in Pushers : HasTicket(p) => TicketFits(p)

HoldersInv ==
  \A c \in Poppers : HasItem(c) =>
    /\ pos[c] < read
    /\ seq[Slot(pos[c])] = pos[c] + 1
    /\ \A d \in Poppers : HasItem(d) /\ pos[d] = pos[c] => d = c

(* Between the indices a ticket is a producer's or its item is in the slot. *)
TakenInv ==
  \A t \in read .. write - 1 :
    seq[Slot(t)] = t + 1 \/ \E p \in Pushers : HasTicket(p) /\ pos[p] = t

(* What a thread saw of a slot still holds when its compare_exchange takes  *)
(* the index: an index that has come back to a value never left it.         *)
SeenInv ==
  /\ \A p \in Pushers :
       /\ pc[p] \in {"inspect", "claim"} => pos[p] <= write
       /\ pc[p] = "claim" /\ pos[p] = write => seq[Slot(write)] = write
  /\ \A c \in Poppers :
       /\ pc[c] \in {"look", "grab"} => pos[c] <= read
       /\ pc[c] = "look" /\ kind = "MPSC" => pos[c] = read
       /\ pc[c] = "grab" /\ pos[c] = read => seq[Slot(read)] = read + 1

SequencedInv == SlotsInv /\ TicketsInv /\ HoldersInv /\ TakenInv /\ SeenInv

(* SPSC: each side owns its index and has an old value of the other one.    *)
IndexedInv ==
  /\ write <= read + Capacity
  /\ \A p \in Pushers :
       /\ pc[p] = "room" => pos[p] <= read
       /\ pc[p] \in {"fill", "publish"} => pos[p] = write /\ write < read + Capacity
       /\ pc[p] = "publish" => cell[Slot(write)] = Item(p)
  /\ \A c \in Poppers :
       /\ pc[c] # "idle" => pos[c] = read
       /\ HasItem(c) => read < write
       /\ pc[c] = "free" => got[c] # <<>>

RingInv ==
  /\ RingTypeOK /\ CallsInv
  /\ kind # "SPSC" => SequencedInv
  /\ kind = "SPSC" => IndexedInv
=============================================================================

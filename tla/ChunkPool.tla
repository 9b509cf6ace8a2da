------------------------------ MODULE ChunkPool ------------------------------
(* common/utils/MemoryPool: memory is handed out by moving a pointer in the *)
(* current chunk. Nothing is freed alone; release() keeps all chunks for    *)
(* later allocations, and release_all() gives them back. Sizes are in units *)
(* of the largest alignment asked for.                                      *)
EXTENDS Naturals, Sequences, SequencesExt, FiniteSetsExt

CONSTANTS
  Sizes,       \* what allocate() is called with
  FirstSize,   \* initial_chunk_size
  DefaultSize, \* kDefaultChunkSize
  MaxSize,     \* kMaxChunkSize
  MaxChunks    \* bound: chunks allocated from upstream

VARIABLES
  chunks,      \* _chunks, the head first
  cached,      \* _cached, the head first
  cursor,      \* _cur_chunk and the units used of it; chunk 0 for null
  capacity,    \* Chunk::capacity, per chunk ever allocated
  size,        \* _chunk_size
  freed,       \* history: how often each chunk went back upstream
  blocks       \* history: what is handed out, as <<chunk, first, last>>

poolVars == <<chunks, cached, cursor, capacity, size, freed, blocks>>

Bump(c, used, n) ==
  /\ cursor' = <<c, used + n>>
  /\ blocks' = blocks \cup {<<c, used + 1, used + n>>}

Fits(n) == cursor[1] # 0 /\ cursor[2] + n <= capacity[cursor[1]]

AllocateHere(n) ==
  /\ Fits(n) /\ Bump(cursor[1], cursor[2], n)
  /\ UNCHANGED <<chunks, cached, capacity, size, freed>>

CachedFits(n) == cached # <<>> /\ n <= capacity[Head(cached)]

\* The head of the cached chunks, when it is large enough.
AllocateCached(n) ==
  /\ ~Fits(n) /\ CachedFits(n)
  /\ chunks' = <<Head(cached)>> \o chunks /\ cached' = Tail(cached)
  /\ Bump(Head(cached), 0, n)
  /\ UNCHANGED <<capacity, size, freed>>

\* A new chunk; a cached one that is too small is freed on the way.
AllocateNew(n) ==
  /\ ~Fits(n) /\ ~CachedFits(n)
  /\ Len(capacity) < MaxChunks
  /\ capacity' = Append(capacity, IF n > size THEN n ELSE size)
  /\ cached' = IF cached = <<>> THEN cached ELSE Tail(cached)
  /\ freed' = Append(IF cached = <<>> THEN freed ELSE [freed EXCEPT ![Head(cached)] = @ + 1], 0)
  /\ chunks' = <<Len(capacity) + 1>> \o chunks
  /\ size' = IF 2 * size < MaxSize THEN 2 * size ELSE MaxSize
  /\ Bump(Len(capacity) + 1, 0, n)

\* Mutant: the pointer into the current chunk outlives release().
Release_KeepsCursor ==
  /\ chunks' = <<>> /\ cached' = chunks \o cached /\ blocks' = {}
  /\ UNCHANGED <<cursor, capacity, size, freed>>

\* release(): who owned a block has let go of it.
Release ==
  /\ chunks' = <<>> /\ cached' = chunks \o cached /\ cursor' = <<0, 0>> /\ blocks' = {}
  /\ UNCHANGED <<capacity, size, freed>>

ReleaseAll ==
  /\ chunks' = <<>> /\ cached' = <<>> /\ cursor' = <<0, 0>> /\ blocks' = {}
  /\ freed' = [c \in DOMAIN freed |->
                 IF c \in ToSet(chunks) \cup ToSet(cached) THEN freed[c] + 1 ELSE freed[c]]
  /\ size' = DefaultSize
  /\ UNCHANGED capacity

PoolInit ==
  /\ chunks = <<>> /\ cached = <<>> /\ cursor = <<0, 0>> /\ capacity = <<>>
  /\ size = FirstSize /\ freed = <<>> /\ blocks = {}
PoolNext ==
  \/ \E n \in Sizes : AllocateHere(n) \/ AllocateCached(n) \/ AllocateNew(n)
  \/ Release \/ ReleaseAll

(* Blocks in use do not overlap and lie in chunks of the pool; a chunk is   *)
(* in one list, once, until it is freed, once.                              *)
BlocksAreApart == \A a, b \in blocks :
  /\ a[1] \in ToSet(chunks) /\ a[3] <= capacity[a[1]]
  /\ a # b /\ a[1] = b[1] => a[3] < b[2] \/ b[3] < a[2]
ChunksAreKept ==
  /\ IsInjective(chunks \o cached)
  /\ \A c \in DOMAIN capacity : freed[c] = IF c \in ToSet(chunks \o cached) THEN 0 ELSE 1
=============================================================================

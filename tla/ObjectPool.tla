----------------------------- MODULE ObjectPool -----------------------------
(***************************************************************************)
(* ObjectPool<T> (src/include/ammalloc/page_allocator.h): descriptors and   *)
(* radix nodes carved out of chunks of pages.                               *)
(*                                                                          *)
(* An address is a natural number; chunk c starts at c * ChunkBytes, where  *)
(* ChunkBytes is what one SystemAlloc of the pool returns.                  *)
(***************************************************************************)
EXTENDS Integers, Sequences, FiniteSets

CONSTANTS PageSize,
          HeaderSize,   \* sizeof(ChunkHeader)
          ObjSize,      \* sizeof(T)
          ObjAlign,     \* alignof(T), a divisor of the page size
          ChunkSize,    \* CHUNK_SIZE
          MinObjs,      \* 10 in the code
          Chunks        \* the chunks SystemAlloc can return, naturals

ASSUME PoolAssumption ==
    /\ {PageSize, ObjSize, ObjAlign, MinObjs} \subseteq Nat \ {0}
    /\ {HeaderSize, ChunkSize} \subseteq Nat /\ Chunks \subseteq Nat
    /\ PageSize % ObjAlign = 0 /\ ObjSize % ObjAlign = 0

VARIABLES data_, remain_bytes_,
          free_list_,   \* the addresses on the free list, last freed first
          chunk_list_,  \* the chunks owned
          live          \* objects returned by TryNew and not yet deleted

poolVars == <<data_, remain_bytes_, free_list_, chunk_list_, live>>

NumObjs == IF ChunkSize \div ObjSize < MinObjs THEN MinObjs ELSE ChunkSize \div ObjSize

NeededBytes == HeaderSize + NumObjs * ObjSize + ObjAlign - 1

ChunkBytes == PageSize * ((NeededBytes + PageSize - 1) \div PageSize)

AlignedUp(a) == ((a + ObjAlign - 1) \div ObjAlign) * ObjAlign

PoolInit == /\ data_ = 0 /\ remain_bytes_ = 0
            /\ free_list_ = <<>> /\ chunk_list_ = {} /\ live = {}

NewReused == /\ free_list_ # <<>>
             /\ live' = live \cup {Head(free_list_)}
             /\ free_list_' = Tail(free_list_)
             /\ UNCHANGED <<data_, remain_bytes_, chunk_list_>>

NewBumped == /\ free_list_ = <<>> /\ remain_bytes_ >= ObjSize
             /\ live' = live \cup {data_}
             /\ data_' = data_ + ObjSize
             /\ remain_bytes_' = remain_bytes_ - ObjSize
             /\ UNCHANGED <<free_list_, chunk_list_>>

UsableFromHeader(c, start) == ChunkBytes - HeaderSize

\* The bytes of chunk c from its first aligned slot on.
Usable(c, start) == ChunkBytes - (start - c * ChunkBytes)

\* SystemAlloc returned the pages of chunk c.
NewChunk(c) ==
    LET start == AlignedUp(c * ChunkBytes + HeaderSize)
    IN  /\ free_list_ = <<>> /\ remain_bytes_ < ObjSize
        /\ chunk_list_' = chunk_list_ \cup {c}
        /\ live' = live \cup {start}
        /\ data_' = start + ObjSize
        /\ remain_bytes_' = Usable(c, start) - ObjSize
        /\ UNCHANGED free_list_

\* SystemAlloc returned null, and so does TryNew.
NewFails == /\ free_list_ = <<>> /\ remain_bytes_ < ObjSize
            /\ UNCHANGED poolVars

TryNew == NewReused \/ NewBumped \/ NewFails \/ \E c \in Chunks \ chunk_list_ : NewChunk(c)

Delete == \E o \in live : /\ free_list_' = <<o>> \o free_list_
                          /\ live' = live \ {o}
                          /\ UNCHANGED <<data_, remain_bytes_, chunk_list_>>

\* Every chunk goes back to the page allocator, objects still live included:
\* its callers reset the whole cache and never touch them again.
ReleaseMemory == /\ chunk_list_' = {} /\ free_list_' = <<>> /\ live' = {}
                 /\ data_' = 0 /\ remain_bytes_' = 0

PoolNext == TryNew \/ Delete \/ ReleaseMemory

PoolSpec == PoolInit /\ [][PoolNext]_poolVars

-----------------------------------------------------------------------------
Listed == {free_list_[i] : i \in 1 .. Len(free_list_)}

\* The object at a lies in an owned chunk, behind its header.
InChunk(a, bytes) == \E c \in chunk_list_ : /\ c * ChunkBytes + HeaderSize <= a
                                            /\ a + bytes <= (c + 1) * ChunkBytes

\* Live objects, freed objects and the bytes still to be carved never overlap,
\* are aligned for T, and lie in chunks the pool owns, behind the headers:
\* no descriptor is handed out twice, and none outlives its chunk.
PoolDisjoint ==
    LET objs == live \cup Listed
    IN  /\ live \cap Listed = {} /\ Cardinality(Listed) = Len(free_list_)
        /\ \A o \in objs : InChunk(o, ObjSize) /\ o % ObjAlign = 0
        /\ \A o, p \in objs : o < p => o + ObjSize <= p
        /\ remain_bytes_ > 0 => /\ InChunk(data_, remain_bytes_)
                                /\ \A o \in objs : \/ o + ObjSize <= data_
                                                   \/ data_ + remain_bytes_ <= o
=============================================================================

-------------------------------- MODULE Span --------------------------------
(***************************************************************************)
(* One Span under the bucket lock: its object metadata and the slots its    *)
(* users (CentralCache and above) hold.                                     *)
(***************************************************************************)
EXTENDS SpanObjects

CONSTANT Capacities     \* the capacities Span::Init may compute

ASSUME CapacityAssumption == Capacities \subseteq Nat \ {0}

VARIABLES
    sp,     \* the Span's fields and bitmap
    out     \* slots returned by AllocObject and not yet freed

spanVars == <<sp, out>>

SpanInit == /\ \E c \in Capacities : sp = InitSpan(c)
            /\ out = {}

SpanAlloc == /\ AllocSlot(sp) # NoSlot
             /\ sp' = AllocObject(sp, AllocSlot(sp))
             /\ out' = out \cup {AllocSlot(sp)}

\* The caller got the null pointer; nothing has changed.
SpanAllocNull == AllocSlot(sp) = NoSlot /\ UNCHANGED spanVars

SpanFree == \E x \in out : /\ sp' = FreeObject(sp, x)
                           /\ out' = out \ {x}

SpanNext == SpanAlloc \/ SpanAllocNull \/ SpanFree

SpanSpec == SpanInit /\ [][SpanNext]_spanVars

-----------------------------------------------------------------------------
\* The variables have their types; use_count never wraps below zero.
SpanTypeOK ==
    /\ sp \in [capacity: Capacities, use_count: Nat, scan_cursor: Nat, bitmap: SUBSET Nat]
    /\ out \subseteq Nat

\* use_count is the number of objects outside the bitmap, and the bitmap and
\* the objects outside partition the slots: the `use_count == 0' test that
\* returns a span to PageCache never fires with an object still out, and
\* FreeObject's double-free and underflow checks never fire on legal frees.
CountExact ==
    /\ sp.use_count = Cardinality(out)
    /\ sp.bitmap \cap out = {} /\ sp.bitmap \cup out = Slots(sp)

\* scan_cursor never hides a free slot: AllocObject returns null only when
\* every slot is out.  (CentralCache takes null from a span that is not full
\* as a reason to ask PageCache for another one.)
NullOnlyWhenFull == AllocSlot(sp) = NoSlot => out = Slots(sp)

\* The bitmap with its cursor is an exact lowest-slot-first allocator.
Slot == INSTANCE SlotAllocator WITH avail <- sp.bitmap, taken <- out
LowestFirst == Slot!Spec

\* The inductive strengthening: no free bit lies in a word below the cursor.
CursorInv == \A x \in sp.bitmap : sp.scan_cursor <= BitmapIdx(x)
SpanInv == SpanTypeOK /\ CountExact /\ CursorInv
=============================================================================

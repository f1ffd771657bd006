---------------------------- MODULE SpanObjects ----------------------------
(***************************************************************************)
(* Object allocation inside one Span (src/src/span.cpp) as operators on the *)
(* fields capacity, use_count, scan_cursor and the in-page bitmap.          *)
(*                                                                          *)
(* The bitmap is the set of slot numbers whose bit is 1 (free); slot x is   *)
(* bit x % WordBits of word x \div WordBits.  A slot number stands for the  *)
(* object's address, data base + slot * aligned_obj_size.                   *)
(***************************************************************************)
EXTENDS Integers, FiniteSets, FiniteSetsExt

CONSTANT WordBits       \* SystemConfig::BITMAP_BITS

ASSUME WordAssumption == WordBits \in Nat \ {0}

NoSlot == -1            \* the null pointer

BitmapIdx(slot) == slot \div WordBits

Slots(s) == 0 .. s.capacity - 1

\* Init: the first `capacity' bits are 1, the rest of the bitmap is 0.
InitSpan(capacity) ==
    [capacity |-> capacity, use_count |-> 0, scan_cursor |-> 0,
     bitmap |-> 0 .. capacity - 1]

IsFull(s) == s.use_count >= s.capacity

GetBitmapNum(s) == (s.capacity + WordBits - 1) \div WordBits

\* The 1 bits that the loop of AllocObject reaches.
Scanned(s) == {x \in s.bitmap : BitmapIdx(x) \in s.scan_cursor .. GetBitmapNum(s) - 1}

\* What AllocObject returns: the lowest bit of the first non-zero word.
AllocSlot(s) == IF IsFull(s) \/ Scanned(s) = {} THEN NoSlot ELSE Min(Scanned(s))

\* What AllocObject does to the span when it returns slot x.
AllocObject(s, x) ==
    LET i    == BitmapIdx(x)
        rest == s.bitmap \ {x}
    IN  [s EXCEPT !.bitmap = rest,
                  !.use_count = @ + 1,
                  !.scan_cursor = IF \E y \in rest : BitmapIdx(y) = i THEN i ELSE i + 1]

FreeUncounted(s, x) ==
    [s EXCEPT !.bitmap = @ \cup {x},
              !.scan_cursor = IF BitmapIdx(x) < @ THEN BitmapIdx(x) ELSE @]
FreeKeepsCursor(s, x) == [s EXCEPT !.bitmap = @ \cup {x}, !.use_count = @ - 1]

\* FreeObject of slot x; its checks are preconditions its caller meets.
FreeObject(s, x) ==
    [s EXCEPT !.bitmap = @ \cup {x},
              !.use_count = @ - 1,
              !.scan_cursor = IF BitmapIdx(x) < @ THEN BitmapIdx(x) ELSE @]
=============================================================================

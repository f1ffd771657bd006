---------------------------- MODULE ObjectStack ----------------------------
(***************************************************************************)
(* What FreeList and ObjectBatch are to ThreadCache and CentralCache: two   *)
(* sequences of objects, hottest first, that exchange prefixes and          *)
(* suffixes; every object is in exactly one place.                          *)
(***************************************************************************)
EXTENDS Integers, Sequences, FiniteSets

CONSTANT Objects

VARIABLES list, flight, held, central

svars == <<list, flight, held, central>>

Init == list = <<>> /\ flight = <<>> /\ held = {} /\ central = Objects

Push == \E o \in held : /\ list' = <<o>> \o list
                        /\ held' = held \ {o}
                        /\ UNCHANGED <<flight, central>>

Pop == /\ list # <<>>
       /\ list' = Tail(list)
       /\ held' = held \cup {Head(list)}
       /\ UNCHANGED <<flight, central>>

Splice == /\ flight # <<>>
          /\ list' = flight \o list
          /\ flight' = <<>>
          /\ UNCHANGED <<held, central>>

\* A prefix or a suffix of the list takes off.
Split == /\ flight = <<>>
         /\ \E k \in 0 .. Len(list) :
               LET hot == SubSeq(list, 1, k)
                   cold == SubSeq(list, k + 1, Len(list))
               IN  \/ flight' = hot /\ list' = cold
                   \/ flight' = cold /\ list' = hot
         /\ UNCHANGED <<held, central>>

Single == \E o \in held : /\ flight = <<>> /\ flight' = <<o>>
                          /\ held' = held \ {o}
                          /\ UNCHANGED <<list, central>>

Fetch == \E s \in SUBSET central :
            /\ flight = <<>> /\ s # {}
            /\ Len(flight') = Cardinality(s)
            /\ {flight'[i] : i \in 1 .. Cardinality(s)} = s
            /\ central' = central \ s
            /\ UNCHANGED <<list, held>>

Release == /\ central' = central \cup {flight[i] : i \in 1 .. Len(flight)}
           /\ flight' = <<>>
           /\ UNCHANGED <<list, held>>

Next == Push \/ Pop \/ Splice \/ Split \/ Single \/ Fetch \/ Release

Spec == Init /\ [][Next]_svars
=============================================================================

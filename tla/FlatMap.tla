------------------------------- MODULE FlatMap -------------------------------
(***************************************************************************)
(* What PageMap promises: one word per page that is written one page at a   *)
(* time, and lookups that return the word as it is at one instant between   *)
(* call and return.                                                         *)
(***************************************************************************)
CONSTANTS Readers, PageIds, Values, Null

VARIABLES map,      \* page -> the Span it maps to, or Null
          call      \* reader -> its lookup

Idle == [pc |-> "idle"]
Called(p) == [pc |-> "called", page |-> p]
Returned(p, v) == [pc |-> "returned", page |-> p, value |-> v]

Init == /\ map = [p \in PageIds |-> Null]
        /\ call = [r \in Readers |-> Idle]

Write == /\ UNCHANGED call
         /\ LET old == map
                new == map'
            IN  \E p \in PageIds : /\ new[p] \in Values \cup {Null}
                                   /\ new = [old EXCEPT ![p] = new[p]]

Forget == /\ UNCHANGED call
          /\ map' = [p \in PageIds |-> Null]

Begin(r) == /\ call[r].pc # "called"
            /\ \E p \in PageIds : call' = [call EXCEPT ![r] = Called(p)]
            /\ UNCHANGED map

Return(r) == /\ call[r].pc = "called"
             /\ call' = [call EXCEPT ![r] = Returned(call[r].page, map[call[r].page])]
             /\ UNCHANGED map

Next == Write \/ Forget \/ \E r \in Readers : Begin(r) \/ Return(r)

Spec == Init /\ [][Next]_<<map, call>>
=============================================================================

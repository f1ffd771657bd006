----------------------------- MODULE MCThreadCache -----------------------------
(***************************************************************************)
(* A thread that uses its ThreadCache in every way and a controller thread *)
(* that publishes trim requests at any moment.  Two size classes, 1 and 2  *)
(* units, with batches of 3 and 2 objects: the larger class has the        *)
(* smaller batch, as in batch_table_.                                      *)
(***************************************************************************)
EXTENDS TrimHistory

CONSTANTS user, controller

MCClassSize == <<1, 2>>
MCBatch == <<3, 2>>

Controls == \/ Construct(controller) \/ RequestCas(controller) \/ RequestRetry(controller)
            \/ \E m \in Modes : RequestGlobalTrim(controller, m)

MCNext == (Step(user) \/ Controls) /\ Recorded

MCSpec == HistInit /\ [][MCNext]_histVars
=============================================================================

----------------------------- MODULE TrimHistory -----------------------------
(***************************************************************************)
(* ThreadCache with a history variable that says, for each thread, whether *)
(* a trim request was published that the thread has not begun to serve     *)
(* since.                                                                  *)
(***************************************************************************)
EXTENDS ThreadCache

VARIABLE due

histVars == <<vars, due>>

Published == trim_request' # trim_request
BeginsToServe(t) == loc[t].pc # "count" /\ loc'[t].pc = "count" /\ loc'[t].epoch # -1

\* A thread without a ThreadCache has nothing to serve.
Recorded ==
    due' = [t \in Threads |->
              IF Published THEN Alive(t)
              ELSE due[t] /\ Alive(t) /\ loc'[t].pc # "dead" /\ ~BeginsToServe(t)]

HistInit == Init /\ due = [t \in Threads |-> FALSE]
HistNext == Next /\ Recorded
HistSpec == HistInit /\ [][HistNext]_histVars

-----------------------------------------------------------------------------
\* Once a thread has recorded the current epoch as observed it has begun to
\* serve the newest request after its publication: a request published while
\* the thread was still trimming for an older one, or by a publisher that lost
\* a race for the word, is not taken for done (HandleGlobalTrimRequest,
\* RequestGlobalTrim).
NewestHonoured ==
    \A t \in Threads : Alive(t) /\ observed[t] = trim_request.epoch => ~due[t]
=============================================================================

------------------------------ MODULE Session -------------------------------
(* What a playback session promises, whoever runs it: it is opened, used and *)
(* closed in turn; threads start only while it is opened, with the packet    *)
(* store they share already there; each leaves on its own; and the store     *)
(* goes away only while the session is closed and no thread is left.         *)
CONSTANT Threads

VARIABLES phase, workers, store
vars == <<phase, workers, store>>

Init == phase = "closed" /\ workers = {} /\ store = FALSE

\* the next session may follow at once
Open ==
  /\ phase \in {"closed", "closing"} /\ workers = {} /\ ~store
  /\ phase' = "opening"
  /\ UNCHANGED <<workers, store>>

CreateStore ==
  /\ phase = "opening" /\ workers = {} /\ ~store /\ store' = TRUE
  /\ UNCHANGED <<phase, workers>>

\* the session is open once its last thread is started
Start(w) ==
  /\ phase = "opening" /\ store /\ w \notin workers
  /\ workers' = workers \cup {w} /\ phase' \in {"opening", "open"}
  /\ UNCHANGED store

Leave(w) ==
  /\ w \in workers /\ workers' = workers \ {w}
  /\ UNCHANGED <<phase, store>>

Close ==
  /\ phase \in {"opening", "open"} /\ phase' = "closing"
  /\ UNCHANGED <<workers, store>>

DestroyStore ==
  /\ phase = "closing" /\ workers = {} /\ store /\ store' = FALSE
  /\ UNCHANGED <<phase, workers>>

Closed ==
  /\ phase \in {"opening", "closing"} /\ workers = {}
  /\ phase' = "closed" /\ store' = FALSE
  /\ phase = "opening" => ~store
  /\ UNCHANGED workers

Next ==
  \/ Open \/ CreateStore \/ Close \/ DestroyStore \/ Closed
  \/ \E w \in Threads : Start(w) \/ Leave(w)

Spec == Init /\ [][Next]_vars

-----------------------------------------------------------------------------
\* Nobody works without the store, and a closed session has neither threads
\* nor a store.  (decode.c:36-76; player.c:745-780)
WorkersHaveStore ==
  /\ workers # {} => store
  /\ phase = "closed" => workers = {} /\ ~store
=============================================================================

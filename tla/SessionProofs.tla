--------------------------- MODULE SessionProofs ----------------------------
(* What every implementation of Session inherits, for any set of threads.    *)
EXTENDS Session, TLAPS

\* The store outlives its users: no thread works without it, and a closed
\* session has left nothing.  (decode.c:36-76; player.c:745-780)
THEOREM StoreOutlivesWorkers == Spec => []WorkersHaveStore
<1>1. Init => WorkersHaveStore
  BY DEF Init, WorkersHaveStore
<1>2. WorkersHaveStore /\ [Next]_vars => WorkersHaveStore'
  <2> SUFFICES ASSUME WorkersHaveStore, [Next]_vars PROVE WorkersHaveStore'
    OBVIOUS
  <2>1. CASE Open \/ CreateStore \/ Close
    BY <2>1 DEF Open, CreateStore, Close, WorkersHaveStore
  <2>2. CASE DestroyStore \/ Closed
    BY <2>2 DEF DestroyStore, Closed, WorkersHaveStore
  <2>3. ASSUME NEW w \in Threads, Start(w) PROVE WorkersHaveStore'
    BY <2>3 DEF Start, WorkersHaveStore
  <2>4. ASSUME NEW w \in Threads, Leave(w) PROVE WorkersHaveStore'
    BY <2>4 DEF Leave, WorkersHaveStore
  <2>5. CASE UNCHANGED vars
    BY <2>5 DEF vars, WorkersHaveStore
  <2> QED
    BY <2>1, <2>2, <2>3, <2>4, <2>5 DEF Next
<1> QED
  BY <1>1, <1>2, PTL DEF Spec
=============================================================================

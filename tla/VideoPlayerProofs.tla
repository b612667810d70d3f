-------------------------- MODULE VideoPlayerProofs --------------------------
(* What a client of the Java player may rely on: the news it was last told   *)
(* is true, the native window is where the surface callbacks assert it, and  *)
(* the player is freed with nothing left in it.  The native side is what     *)
(* PlayerOperationsProofs proves, taken over for the two threads that call   *)
(* it here; what this module adds is how those threads, the results under    *)
(* way and the surface callback agree with it.                               *)
EXTENDS VideoPlayer, SequenceTheorems, TLAPS

Native == INSTANCE PlayerOperationsProofs
            WITH Callers <- {Ui, Task}, SurfaceThread <- Ui

\* What PlayerOperations assumes of its constants holds here.
LEMMA NativeAssumptions ==
  /\ Ui \in {Ui, Task} /\ None \notin {Ui, Task} \cup Surfaces /\ MaxRefs \in Nat
  /\ Faults \subseteq {"create_reader", "attach", "decode"}
BY VideoPlayerAssumption

USE DEF Ops!At, Ops!Goes, Ops!Fails, Ops!StreamRest, Ops!Calls, Ops!Returns,
  Ops!Stopped, Ops!lock, Ops!flags, Ops!input, Ops!threads, Ops!surface

-----------------------------------------------------------------------------
(* Every step of the player is one of player.c.                              *)

\* The stages of an operation are the same actions in both instances.
\* (player.c:195-371, 400-424)
LEMMA SameStages == Ops!Stages <=> Native!Stages
BY DEF Ops!Stages, Ops!CreateContext, Ops!CreateInterruptCallback,
  Ops!FindStream, Ops!AllocVideoFrames, Ops!AllocFrames, Ops!AllocQueues,
  Ops!PlayPrepare, Ops!CreateDecoder, Ops!CreateReader, Ops!StopThreads,
  Ops!JoinReader, Ops!JoinDecoder, Ops!FreeQueues, Ops!FreeSws, Ops!FreeFrames,
  Ops!FreeVideoFrames, Ops!FreeStreams, Ops!FreeInput, Ops!FreeContext,
  Ops!Buffers, Ops!VideoFrames, Native!Stages, Native!CreateContext,
  Native!CreateInterruptCallback, Native!FindStream, Native!AllocVideoFrames,
  Native!AllocFrames, Native!AllocQueues, Native!PlayPrepare,
  Native!CreateDecoder, Native!CreateReader, Native!StopThreads,
  Native!JoinReader, Native!JoinDecoder, Native!FreeQueues, Native!FreeSws,
  Native!FreeFrames, Native!FreeVideoFrames, Native!FreeStreams,
  Native!FreeInput, Native!FreeContext, Native!Buffers, Native!VideoFrames,
  Native!At, Native!Goes, Native!Fails, Native!StreamRest, Native!Calls,
  Native!Returns, Native!Stopped, Native!lock, Native!flags, Native!input,
  Native!threads, Native!surface

\* So are the steps of the two threads.  (decode.c:78-240, 656-810)
LEMMA SameThreads ==
  \/ Ops!ReaderWorks \/ Ops!ReadAgain
  \/ Ops!DecoderWorks \/ Ops!DecoderTakes \/ Ops!DecoderDies
  <=>
  \/ Native!ReaderWorks \/ Native!ReadAgain
  \/ Native!DecoderWorks \/ Native!DecoderTakes \/ Native!DecoderDies
BY DEF Ops!ReaderWorks, Ops!ReaderAttaches, Ops!ReaderStops, Ops!ReaderEnds,
  Ops!ReadAgain, Ops!DecoderWorks, Ops!DecoderAttaches, Ops!DecoderDraws,
  Ops!DecoderSkips, Ops!DecoderPosts, Ops!DecoderEnds, Ops!DecoderTakes,
  Ops!DecoderDies, Native!ReaderWorks, Native!ReaderAttaches,
  Native!ReaderStops, Native!ReaderEnds, Native!ReadAgain, Native!DecoderWorks,
  Native!DecoderAttaches, Native!DecoderDraws, Native!DecoderSkips,
  Native!DecoderPosts, Native!DecoderEnds, Native!DecoderTakes,
  Native!DecoderDies, Native!lock, Native!flags, Native!input, Native!threads,
  Native!surface

\* So are the calls that wait for the source.  (player.c:469-520; decode.c:684)
LEMMA SameBlocking == Ops!Blocking <=> Native!Blocking
BY DEF Ops!Blocking, Ops!OpenInput, Ops!FindStreamInfo, Ops!ReadReturns,
  Native!Blocking, Native!OpenInput, Native!FindStreamInfo, Native!ReadReturns,
  Native!At, Native!Goes, Native!Fails, Native!StreamRest, Native!lock,
  Native!flags, Native!input, Native!threads, Native!surface

\* So is what happens to mutex_operation.  (player.c:195-212, 988-1117)
LEMMA SameLocks ==
  ASSUME NEW t
  PROVE  Ops!Locks(t) \/ Ops!ReleaseWindow(t)
           <=> Native!Locks(t) \/ Native!ReleaseWindow(t)
BY DEF Ops!Locks, Ops!LockSource, Ops!LockStop, Ops!StopIgnored, Ops!Resume,
  Ops!ReleaseWindow, Ops!Stops, Native!Locks, Native!LockSource,
  Native!LockStop, Native!StopIgnored, Native!Resume, Native!ReleaseWindow,
  Native!Stops, Native!Returns, Native!Stopped, Native!flags, Native!input,
  Native!threads, Native!surface

\* Together: all that player.c does between a call and its return.
LEMMA SameInternal == Ops!Internal <=> Native!Internal
BY SameStages, SameThreads, SameBlocking, SameLocks DEF Ops!Internal,
  Native!Internal

\* A step of the player is a step of player.c, or leaves player.c alone.
\* (native-lib.cpp:105-159; VideoPlayer.java:40-66)
LEMMA NativeNext == [Next]_vars => [Native!Next]_(Native!vars)
<1> SUFFICES ASSUME [Next]_vars PROVE [Native!Next]_(Native!vars)
  OBVIOUS
<1>1. CASE UNCHANGED native
  BY <1>1 DEF native, Native!vars, Native!lock, Native!flags, Native!input,
    Native!threads, Native!surface
<1>2. CASE Ops!Internal
  BY <1>2, SameInternal DEF Native!Next
<1>3. ASSUME Ops!ResumeCall(Ui) PROVE Native!Call(Ui)
  BY <1>3 DEF Ops!ResumeCall, Native!Call, Native!ResumeCall, Native!Calls,
    Native!flags, Native!input, Native!threads, Native!surface
<1>4. ASSUME Ops!RenderFrameStop(Ui) PROVE Native!Call(Ui)
  BY <1>4 DEF Ops!RenderFrameStop, Native!Call, Native!RenderFrameStop,
    Native!Calls, Native!flags, Native!input, Native!threads, Native!surface
<1>5. ASSUME NEW s \in Surfaces, Ops!Render(Ui, s) PROVE Native!Call(Ui)
  BY <1>5 DEF Ops!Render, Native!Call, Native!Render, Native!lock,
    Native!flags, Native!input, Native!threads
<1>6. ASSUME Ops!SetDataSource(Task) PROVE Native!Call(Task)
  BY <1>6 DEF Ops!SetDataSource, Native!Call, Native!SetDataSource,
    Native!Calls, Native!flags, Native!input, Native!threads, Native!surface
<1>7. ASSUME Ops!StopCall(Task) PROVE Native!Call(Task)
  BY <1>7 DEF Ops!StopCall, Native!Call, Native!StopCall, Native!Calls,
    Native!flags, Native!input, Native!threads, Native!surface
<1>8. \/ Ops!Internal \/ UNCHANGED native
      \/ Ops!ResumeCall(Ui) \/ Ops!RenderFrameStop(Ui)
      \/ (\E s \in Surfaces : Ops!Render(Ui, s))
      \/ Ops!SetDataSource(Task) \/ Ops!StopCall(Task)
  BY DEF Next, Client, setDataSource, ClientStop, Execute, Show,
    DeallocatePlayer, PointerCleared, Surface, surfaceCreated, surfaceDestroyed,
    NullCall, FrameStopReturns, Render, Tasks, TaskStarts, OpenTask, StopTask,
    StopNative, UseAfterFree, TaskEnds, onPostExecute, vars
<1>9. (\E t \in {Ui, Task} : Native!Call(t)) => Native!Next
  BY DEF Native!Next
<1> QED
  BY <1>1, <1>2, <1>3, <1>4, <1>5, <1>6, <1>7, <1>8, <1>9

\* The player is an instance of player.c.
LEMMA NativeSpec == Spec => Native!Spec
<1>1. Init => Native!Init
  BY DEF Init, Ops!Init, Native!Init
<1> QED
  BY <1>1, NativeNext, PTL DEF Spec, Native!Spec

\* Whatever PlayerOperationsProofs proves of player.c holds here.
LEMMA NativeInv == Spec => []Native!IInv
<1>1. Native!Spec => []Native!IInv
  BY NativeAssumptions, Native!Inductive
<1> QED
  BY NativeSpec, <1>1, PTL

-----------------------------------------------------------------------------
(* The inductive invariant.                                                  *)

\* a surface callback has called renderFrameStop
Stopping == callback \in {"replace", "destroy"}

\* the UI thread, its callback and the window: player.c's window lags behind
\* the callback only while renderFrameStop runs
UiLink ==
  /\ op[Ui] \in {"none", "resume", "surface_stop", "release"}
  /\ op[Ui] = "resume" => callback = "none"
  /\ op[Ui] \in {"surface_stop", "release"} => Stopping /\ window # None
  /\ callback \in {"none", "dealloc"} => (mCreated <=> window # None)
  /\ callback = "render" => ~mCreated /\ window = None
  /\ Stopping => mCreated
  /\ Stopping /\ op[Ui] = "none" => window = None

Between == {"none", "open", "stop", "calling"}

\* the executor's thread is in player.c for the task it runs, and for no other
TaskLink ==
  /\ op[Task] \in {"none", "source", "resume", "stop"}
  /\ running \in Between => op[Task] = "none"
  /\ running = "opening" => op[Task] # "stop"
  /\ running \in {"stopping", "crash"} => op[Task] \in {"none", "stop"}

\* no session, and nobody opening or closing one
Idle == ~playing /\ step = "none"

\* no source is being opened, or will be before the client asks again
NoOpen ==
  running \notin {"open", "opening"} /\ \A i \in DOMAIN tasks : tasks[i] # "open"

\* what a piece of news says of the player
Truth(news) ==
  /\ news \in {"stopped", "error"} => ~playing
  /\ news = "loaded" /\ ~disturbed /\ ~Stopping => playing /\ ~pause

\* the youngest result, posted or told
Latest == IF posted # <<>> THEN posted[Len(posted)] ELSE told

\* between two tasks the youngest result is true; at the end of a task the
\* result it is about to post is
News ==
  /\ running \in Between => Truth(Latest)
  /\ running = "stopping" /\ op[Task] = "none" => Idle
  /\ running = "opening" /\ op[Task] = "none" =>
       Truth(IF refused[Task] THEN "error" ELSE "loaded") /\ (refused[Task] => Idle)
  /\ running = "opening" /\ op[Task] = "resume" =>
       ~refused[Task] /\ (~disturbed /\ ~Stopping => playing)

\* unless the youngest result is that a source is loaded there is no session,
\* even if stops are still to come
Unloaded == NoOpen /\ Latest # "loaded" => Idle

\* a freed player has at most stops under way, and of these only one that had
\* tested the pointer before it was cleared is still to use it
FreedLink ==
  /\ Freed => /\ NoOpen /\ Latest # "loaded"
              /\ op[Ui] = "none" /\ callback \in {"none", "dealloc", "crash"}
  /\ callback = "dealloc" => mNativePlayer
  /\ ~mNativePlayer /\ (running = "calling" \/ op[Task] = "stop") => raced
  /\ running = "crash" => mNativePlayer \/ raced

Agreed == UiLink /\ TaskLink /\ News /\ Unloaded /\ FreedLink
IInv   == TypeOK /\ Agreed

-----------------------------------------------------------------------------
(* Types.                                                                    *)

JavaFlags ==
  /\ mCreated \in BOOLEAN /\ mNativePlayer \in BOOLEAN /\ disturbed \in BOOLEAN
  /\ raced \in BOOLEAN

\* The flags of the Java side stay flags.
LEMMA JavaFlagsNext == JavaFlags /\ [Next]_vars => JavaFlags'
<1> SUFFICES ASSUME JavaFlags, [Next]_vars PROVE JavaFlags'
  OBVIOUS
<1> USE DEF JavaFlags
<1>1. CASE Client
  BY <1>1, Zenon DEF Client, setDataSource, ClientStop, Execute, Show,
    DeallocatePlayer, view, past
<1>2. CASE Surface
  BY <1>2, Zenon DEF Surface, surfaceCreated, surfaceDestroyed, past
<1>3. CASE FrameStopReturns \/ Render \/ onPostExecute
  BY <1>3, Zenon DEF FrameStopReturns, Render, onPostExecute, view, past
<1>4. CASE Tasks \/ UseAfterFree
  BY <1>4, Zenon DEF Tasks, TaskStarts, OpenTask, StopTask, StopNative,
    UseAfterFree, TaskEnds, view, past
<1>5. CASE Rest \/ UNCHANGED vars
  BY <1>5, Zenon DEF Rest, vars, view, past
<1>6. CASE PointerCleared
  BY <1>6, Zenon DEF PointerCleared
<1> QED
  BY <1>1, <1>2, <1>3, <1>4, <1>5, <1>6, Zenon DEF Next

NothingOwed == tasks = <<>> /\ posted = <<>> /\ running = "none"

\* The client waits for nothing when nothing is queued, running or posted.
LEMMA OwedNone ==
  ASSUME TypeOK
  PROVE  Owed \in Nat /\ (Owed = 0 <=> NothingOwed)
BY DEF TypeOK, Owed, NothingOwed

\* The queues hold tasks and results, and never more than the bound.
\* (VideoPlayer.java:40-66, 111-155)
LEMMA TypesNext == TypeOK /\ TaskLink /\ [Next]_vars => TypeOK'
<1> SUFFICES ASSUME TypeOK, TaskLink, [Next]_vars PROVE TypeOK'
  OBVIOUS
<1>0. /\ mCreated' \in BOOLEAN /\ mNativePlayer' \in BOOLEAN
      /\ disturbed' \in BOOLEAN /\ raced' \in BOOLEAN
  BY JavaFlagsNext DEF TypeOK, JavaFlags
<1>1. ASSUME NEW task \in {"open", "stop"}, NEW known \in {"nothing", "loaded"},
             Execute(task, known)
      PROVE  TypeOK'
  <2>1. /\ Len(Append(tasks, task)) = Len(tasks) + 1
        /\ Append(tasks, task) \in Seq({"open", "stop"})
    BY DEF TypeOK
  <2>2. Owed' = Owed + 1
    BY <1>1, <2>1 DEF Execute, Owed, TypeOK
  <2> QED
    BY <1>0, <1>1, <2>1, <2>2, VideoPlayerAssumption, OwedNone DEF Execute,
      TypeOK, view
<1>2. CASE \/ Show \/ DeallocatePlayer \/ PointerCleared \/ Surface
           \/ FrameStopReturns \/ Render \/ Rest \/ UNCHANGED vars
  BY <1>0, <1>2 DEF Show, DeallocatePlayer, PointerCleared, Surface,
    surfaceCreated, surfaceDestroyed, NullCall, FrameStopReturns, Render, Rest,
    vars, async, view, past, TypeOK, Owed
<1>3. CASE TaskStarts
  <2>1. /\ Len(Tail(tasks)) = Len(tasks) - 1 /\ Tail(tasks) \in Seq({"open", "stop"})
        /\ Head(tasks) \in {"open", "stop"}
    BY <1>3 DEF TypeOK, TaskStarts
  <2> QED
    BY <1>0, <1>3, <2>1 DEF TaskStarts, TypeOK, Owed, view, past
<1>4. CASE OpenTask \/ StopTask \/ StopNative
  BY <1>0, <1>4 DEF OpenTask, StopTask, StopNative, TypeOK, Owed, view, past
<1>5. CASE TaskEnds
  <2>1. /\ Len(Append(posted, Result)) = Len(posted) + 1
        /\ Append(posted, Result) \in Seq({"loaded", "error", "stopped"})
    BY <1>5 DEF TypeOK, TaskEnds, Result
  <2> QED
    BY <1>0, <1>5, <2>1 DEF TaskEnds, TypeOK, Owed, view, past
<1>6. CASE onPostExecute
  <2>1. /\ Len(Tail(posted)) = Len(posted) - 1
        /\ Tail(posted) \in Seq({"loaded", "error", "stopped"})
        /\ Head(posted) \in {"loaded", "error", "stopped"}
    BY <1>6 DEF TypeOK, onPostExecute
  <2> QED
    BY <1>0, <1>6, <2>1, VideoPlayerAssumption DEF onPostExecute, TypeOK,
      Owed, view
<1>7. CASE UseAfterFree
  BY <1>0, <1>7 DEF UseAfterFree, TaskLink, Between, TypeOK, Owed, view, past
<1> QED
  BY <1>1, <1>2, <1>3, <1>4, <1>5, <1>6, <1>7 DEF Next, Client, setDataSource,
    ClientStop, Tasks

-----------------------------------------------------------------------------
(* What a step inside player.c means to its callers.                         *)

\* nothing
Quiet == UNCHANGED <<op, refused, playing, pause, window>>
\* an operation takes the mutex; what played is being stopped
Taken ==
  /\ \E t \in {Ui, Task} : op[t] \in {"source", "stop", "surface_stop"}
  /\ ~playing' /\ UNCHANGED <<op, refused, pause, window>>
\* a new session begins paused
Paused ==
  /\ \E t \in {Ui, Task} : op[t] = "source"
  /\ ~playing /\ pause' /\ UNCHANGED <<op, refused, playing, window>>
\* player_stop returns
StopReturned(t) ==
  /\ op[t] \in {"stop", "surface_stop"} /\ ~playing /\ Ops!Stopped(t)
  /\ \A u \in {Ui, Task} \ {t} : refused'[u] = refused[u]
  /\ step' = "none" /\ UNCHANGED <<playing, pause, window>>
\* jni_player_resume returns
Resumed(t) ==
  /\ op[t] = "resume" /\ op' = [op EXCEPT ![t] = "none"]
  /\ pause' = (pause /\ ~playing)
  /\ UNCHANGED <<refused, playing, window>>
\* jni_player_render_frame_stop has given the window up
Released(t) ==
  /\ op[t] = "release" /\ op' = [op EXCEPT ![t] = "none"] /\ window' = None
  /\ UNCHANGED <<refused, playing, pause>>
\* player_set_data_source succeeds, or returns an error
Opened(t) ==
  /\ op[t] = "source" /\ op' = [op EXCEPT ![t] = "resume"]
  /\ refused' = [refused EXCEPT ![t] = FALSE]
  /\ playing' /\ UNCHANGED <<pause, window>>
Refused(t) ==
  /\ op[t] = "source" /\ ~playing /\ op' = [op EXCEPT ![t] = "none"]
  /\ refused' = [refused EXCEPT ![t] = TRUE]
  /\ step' = "none" /\ UNCHANGED <<playing, pause, window>>

\* A step of player.c does one of these, and to one caller only.
\* (player.c:195-371, 988-1117)
LEMMA Effects ==
  ASSUME Native!IInv, Ops!Internal
  PROVE  \/ Quiet \/ Taken \/ Paused
         \/ \E t \in {Ui, Task} :
              \/ StopReturned(t) \/ Resumed(t) \/ Released(t)
              \/ Opened(t) \/ Refused(t)
<1> USE DEF Quiet
<1>1. CASE Ops!Blocking
  BY <1>1 DEF Ops!Blocking, Ops!OpenInput, Ops!FindStreamInfo, Ops!ReadReturns
<1>2. CASE \/ Ops!ReaderWorks \/ Ops!ReadAgain
           \/ Ops!DecoderWorks \/ Ops!DecoderTakes \/ Ops!DecoderDies
  BY <1>2 DEF Ops!ReaderWorks, Ops!ReaderAttaches, Ops!ReaderStops,
    Ops!ReaderEnds, Ops!ReadAgain, Ops!DecoderWorks, Ops!DecoderAttaches,
    Ops!DecoderDraws, Ops!DecoderSkips, Ops!DecoderPosts, Ops!DecoderEnds,
    Ops!DecoderTakes, Ops!DecoderDies
<1>3. ASSUME NEW t \in {Ui, Task}, Ops!Locks(t) \/ Ops!ReleaseWindow(t)
      PROVE  Taken \/ StopReturned(t) \/ Resumed(t) \/ Released(t)
  BY <1>3 DEF Native!IInv, Native!Values, Ops!Locks, Ops!LockSource,
    Ops!LockStop, Ops!StopIgnored, Ops!Resume, Ops!ReleaseWindow, Ops!Stops, Taken, StopReturned, Resumed,
    Released
<1>4. CASE Ops!CreateContext
  BY <1>4 DEF Ops!CreateContext, Paused, Native!IInv, Native!Stock,
    Native!OpeningInv, Native!IdleInv, Native!Opening, Native!Values
<1>5. CASE Ops!CreateReader
  <2>1. operation \in {Ui, Task} /\ op[operation] = "source"
    BY <1>5 DEF Ops!CreateReader, Native!IInv, Native!Stock,
      Native!OpeningInv, Native!Opening, Native!Values
  <2>2. Opened(operation) \/ Quiet
    BY <1>5, <2>1 DEF Ops!CreateReader, Opened
  <2> QED
    BY <2>1, <2>2
<1>6. CASE Ops!FreeContext
  <2>1. /\ operation \in {Ui, Task} /\ ~playing
        /\ op[operation] \in {"source", "stop", "surface_stop"}
        /\ failed => op[operation] = "source"
    BY <1>6 DEF Ops!FreeContext, Native!IInv, Native!Stock, Native!ClosingInv,
      Native!IdleInv, Native!Closing, Native!Opening, Native!Labels,
      Native!Values, Native!Stops
  <2>2. refused \in [{Ui, Task} -> BOOLEAN]
    BY DEF Native!IInv, Native!Flags
  <2>3. CASE op[operation] = "source" /\ ~failed
    BY <1>6, <2>3 DEF Ops!FreeContext
  <2>4. CASE op[operation] = "source" /\ failed
    BY <1>6, <2>1, <2>4 DEF Ops!FreeContext, Refused
  <2>5. CASE op[operation] # "source"
    BY <1>6, <2>1, <2>2, <2>5 DEF Ops!FreeContext, StopReturned
  <2> QED
    BY <2>3, <2>4, <2>5, <2>1
<1>7. CASE Ops!Stages
  <2>1. \/ Ops!CreateContext \/ Ops!CreateReader \/ Ops!FreeContext \/ Quiet
    BY <1>7 DEF Ops!Stages, Ops!CreateInterruptCallback, Ops!FindStream,
      Ops!AllocVideoFrames, Ops!AllocFrames, Ops!AllocQueues, Ops!PlayPrepare,
      Ops!CreateDecoder, Ops!StopThreads, Ops!JoinReader, Ops!JoinDecoder,
      Ops!FreeQueues, Ops!FreeSws, Ops!FreeFrames, Ops!FreeVideoFrames,
      Ops!FreeStreams, Ops!FreeInput
  <2> QED
    BY <1>4, <1>5, <1>6, <2>1
<1> QED
  BY <1>1, <1>2, <1>3, <1>7 DEF Ops!Internal

\* Where there is no session, one begins only for a player_set_data_source.
\* (player.c:988-1025, 1059-1075)
LEMMA IdleKept ==
  ASSUME Ops!Internal, Idle, \A t \in {Ui, Task} : op[t] # "source"
  PROVE  Idle'
<1> USE DEF Idle
<1>1. CASE Ops!Blocking
  BY <1>1 DEF Ops!Blocking, Ops!OpenInput, Ops!FindStreamInfo, Ops!ReadReturns
<1>2. CASE \/ Ops!ReaderWorks \/ Ops!ReadAgain
           \/ Ops!DecoderWorks \/ Ops!DecoderTakes \/ Ops!DecoderDies
  BY <1>2 DEF Ops!ReaderWorks, Ops!ReaderAttaches, Ops!ReaderStops,
    Ops!ReaderEnds, Ops!ReadAgain, Ops!DecoderWorks, Ops!DecoderAttaches,
    Ops!DecoderDraws, Ops!DecoderSkips, Ops!DecoderPosts, Ops!DecoderEnds,
    Ops!DecoderTakes, Ops!DecoderDies
<1>3. ASSUME NEW t \in {Ui, Task}, Ops!Locks(t) \/ Ops!ReleaseWindow(t)
      PROVE  Idle'
  BY <1>3 DEF Ops!Locks, Ops!LockSource, Ops!LockStop, Ops!StopIgnored,
    Ops!Resume, Ops!ReleaseWindow
<1>4. ~Ops!Stages
  BY DEF Ops!Stages, Ops!CreateContext, Ops!CreateInterruptCallback,
    Ops!FindStream, Ops!AllocVideoFrames, Ops!AllocFrames, Ops!AllocQueues,
    Ops!PlayPrepare, Ops!CreateDecoder, Ops!CreateReader, Ops!StopThreads,
    Ops!JoinReader, Ops!JoinDecoder, Ops!FreeQueues, Ops!FreeSws,
    Ops!FreeFrames, Ops!FreeVideoFrames, Ops!FreeStreams, Ops!FreeInput,
    Ops!FreeContext
<1> QED
  BY <1>1, <1>2, <1>3, <1>4 DEF Ops!Internal

-----------------------------------------------------------------------------
(* Every step keeps the invariant.                                           *)

\* What player.c does keeps the two threads, the window and the news in step.
LEMMA EffectsKeep ==
  ASSUME IInv, Native!IInv, Ops!Internal /\ Rest
  PROVE  Agreed'
<1> USE VideoPlayerAssumption
<1>0. /\ op \in [{Ui, Task} -> {"none", "source", "resume", "stop", "surface_stop",
                               "release"}]
      /\ refused \in [{Ui, Task} -> BOOLEAN]
  BY DEF Native!IInv, Native!Values, Native!Flags
<1>a. /\ UNCHANGED <<tasks, running, posted, callback, mCreated, mNativePlayer>>
      /\ UNCHANGED <<told, disturbed, raced>>
      /\ Stopping' = Stopping /\ Latest' = Latest /\ NoOpen' = NoOpen
      /\ Freed' = Freed
  BY DEF Rest, async, view, past, Stopping, Latest, NoOpen, Freed
<1>b. Unloaded /\ FreedLink
  BY DEF IInv, Agreed
<1>c. UiLink /\ TaskLink /\ News
  BY DEF IInv, Agreed
<1>d. op[Ui] # "source" /\ (op[Task] = "source" => running = "opening")
  BY <1>c DEF IInv, TypeOK, UiLink, TaskLink, Between
<1>e. Idle /\ op[Task] # "source" => Idle'
  BY <1>d, IdleKept
<1>1. ASSUME Quiet PROVE UiLink' /\ TaskLink' /\ News'
  <2>1. UiLink' /\ TaskLink'
    BY <1>1, <1>a, <1>c DEF Quiet, UiLink, TaskLink, Stopping, Between
  <2>2. News'
    BY <1>1, <1>a, <1>c, <1>d, <1>e DEF Quiet, UiLink, TaskLink, News, Truth,
      Between
  <2> QED
    BY <2>1, <2>2
<1>2. ASSUME Taken PROVE UiLink' /\ TaskLink' /\ News'
  <2>1. UiLink' /\ TaskLink'
    BY <1>2, <1>a, <1>c DEF Taken, UiLink, TaskLink, Stopping, Between
  <2>2. News'
    BY <1>2, <1>a, <1>c, <1>d, <1>e DEF Taken, UiLink, TaskLink, News, Truth,
      Between
  <2> QED
    BY <2>1, <2>2
<1>3. ASSUME Paused PROVE UiLink' /\ TaskLink' /\ News'
  <2>1. UiLink' /\ TaskLink'
    BY <1>3, <1>a, <1>c DEF Paused, UiLink, TaskLink, Stopping, Between
  <2>2. News'
    BY <1>3, <1>a, <1>c, <1>d, <1>e DEF Paused, UiLink, TaskLink, News, Truth,
      Between
  <2> QED
    BY <2>1, <2>2
<1>4. ASSUME NEW t \in {Ui, Task}, StopReturned(t) PROVE UiLink' /\ TaskLink' /\ News'
  <2>1. UiLink'
    BY <1>4, <1>0, <1>a, <1>c, <1>d DEF StopReturned, UiLink, Stopping
  <2>2. TaskLink'
    BY <1>4, <1>0, <1>a, <1>c, <1>d DEF StopReturned, UiLink, TaskLink,
      Between
  <2>3. News'
    BY <1>4, <1>0, <1>a, <1>c, <1>d, <1>e DEF StopReturned, UiLink, TaskLink,
      News, Truth, Between, Idle
  <2> QED
    BY <2>1, <2>2, <2>3
<1>5. ASSUME NEW t \in {Ui, Task}, Resumed(t) PROVE UiLink' /\ TaskLink' /\ News'
  <2>1. UiLink'
    BY <1>5, <1>0, <1>a, <1>c, <1>d DEF Resumed, UiLink, Stopping
  <2>2. TaskLink'
    BY <1>5, <1>0, <1>a, <1>c, <1>d DEF Resumed, UiLink, TaskLink, Between
  <2>3. News'
    BY <1>5, <1>0, <1>a, <1>c, <1>d, <1>e DEF Resumed, UiLink, TaskLink, News,
      Truth, Between, Idle
  <2> QED
    BY <2>1, <2>2, <2>3
<1>6. ASSUME NEW t \in {Ui, Task}, Released(t) PROVE UiLink' /\ TaskLink' /\ News'
  <2>0. t = Ui
    BY <1>6, <1>c DEF Released, TaskLink
  <2>1. UiLink'
    BY <2>0, <1>6, <1>0, <1>a, <1>c, <1>d DEF Released, UiLink, Stopping
  <2>2. TaskLink'
    BY <2>0, <1>6, <1>0, <1>a, <1>c, <1>d DEF Released, UiLink, TaskLink,
      Between
  <2>3. News'
    BY <2>0, <1>6, <1>0, <1>a, <1>c, <1>d, <1>e DEF Released, UiLink,
      TaskLink, News, Truth, Between, Idle
  <2> QED
    BY <2>1, <2>2, <2>3
<1>7. ASSUME NEW t \in {Ui, Task}, Opened(t) PROVE UiLink' /\ TaskLink' /\ News'
  <2>1. UiLink'
    BY <1>7, <1>0, <1>a, <1>c, <1>d DEF Opened, UiLink, Stopping
  <2>2. TaskLink'
    BY <1>7, <1>0, <1>a, <1>c, <1>d DEF Opened, UiLink, TaskLink, Between
  <2>3. News'
    BY <1>7, <1>0, <1>a, <1>c, <1>d, <1>e DEF Opened, UiLink, TaskLink, News,
      Truth, Between, Idle
  <2> QED
    BY <2>1, <2>2, <2>3
<1>8. ASSUME NEW t \in {Ui, Task}, Refused(t) PROVE UiLink' /\ TaskLink' /\ News'
  <2>1. UiLink'
    BY <1>8, <1>0, <1>a, <1>c, <1>d DEF Refused, UiLink, Stopping
  <2>2. TaskLink'
    BY <1>8, <1>0, <1>a, <1>c, <1>d DEF Refused, UiLink, TaskLink, Between
  <2>3. News'
    BY <1>8, <1>0, <1>a, <1>c, <1>d, <1>e DEF Refused, UiLink, TaskLink, News,
      Truth, Between, Idle
  <2> QED
    BY <2>1, <2>2, <2>3
<1>9. UiLink' /\ TaskLink' /\ News'
  BY <1>1, <1>2, <1>3, <1>4, <1>5, <1>6, <1>7, <1>8, Effects
<1>10. Unloaded'
  BY <1>a, <1>b, <1>d, <1>e DEF Unloaded, NoOpen
<1>11. FreedLink'
  <2>1. Freed => op'[Ui] = "none"
    <3>1. CASE Quiet \/ Taken \/ Paused
      BY <3>1, <1>b DEF FreedLink, Quiet, Taken, Paused
    <3>2. ASSUME NEW t \in {Ui, Task}, Freed,
                 \/ StopReturned(t) \/ Resumed(t) \/ Released(t)
                 \/ Opened(t) \/ Refused(t)
          PROVE  op'[Ui] = "none"
      BY <3>2, <1>0, <1>b DEF FreedLink, StopReturned, Resumed, Released,
        Opened, Refused
    <3> QED
      BY <3>1, <3>2, Effects
  <2>2. op'[Task] = "stop" => op[Task] = "stop"
    <3>1. CASE Quiet \/ Taken \/ Paused
      BY <3>1 DEF Quiet, Taken, Paused
    <3>2. ASSUME NEW t \in {Ui, Task},
                 \/ StopReturned(t) \/ Resumed(t) \/ Released(t)
                 \/ Opened(t) \/ Refused(t)
          PROVE  op'[Task] = "stop" => op[Task] = "stop"
      BY <3>2, <1>0 DEF StopReturned, Resumed, Released, Opened, Refused
    <3> QED
      BY <3>1, <3>2, Effects
  <2> QED
    BY <2>1, <2>2, <1>a, <1>b DEF FreedLink
<1> QED
  BY <1>9, <1>10, <1>11 DEF Agreed

\* A source is to be opened when it is asked for, and until its task begins.
LEMMA Appended ==
  ASSUME TypeOK, NEW task \in {"open", "stop"}
  PROVE  (\A i \in DOMAIN Append(tasks, task) : Append(tasks, task)[i] # "open")
           <=> task = "stop" /\ \A i \in DOMAIN tasks : tasks[i] # "open"
<1>1. /\ Len(tasks) \in Nat /\ DOMAIN tasks = 1 .. Len(tasks)
      /\ DOMAIN Append(tasks, task) = 1 .. Len(tasks) + 1
      /\ \A i \in 1 .. Len(tasks) : Append(tasks, task)[i] = tasks[i]
      /\ Append(tasks, task)[Len(tasks) + 1] = task
  BY DEF TypeOK
<1> QED
  BY <1>1
LEMMA Shortened ==
  ASSUME TypeOK, TaskStarts
  PROVE  NoOpen' <=> NoOpen
<1>1. /\ Len(tasks) \in Nat \ {0} /\ DOMAIN tasks = 1 .. Len(tasks)
      /\ Head(tasks) = tasks[1] /\ Head(tasks) \in {"open", "stop"}
      /\ Len(Tail(tasks)) = Len(tasks) - 1
      /\ DOMAIN Tail(tasks) = 1 .. Len(tasks) - 1
      /\ \A i \in 1 .. Len(tasks) - 1 : Tail(tasks)[i] = tasks[i + 1]
  <2>1. tasks \in Seq({"open", "stop"}) /\ tasks # <<>>
    BY DEF TypeOK, TaskStarts
  <2> QED
    BY <2>1, HeadTailProperties
<1>2. (\A i \in DOMAIN tasks : tasks[i] # "open")
        <=> Head(tasks) # "open" /\ \A i \in DOMAIN Tail(tasks) : Tail(tasks)[i] # "open"
  <2>1. ASSUME Head(tasks) # "open", NEW i \in DOMAIN tasks,
               \A j \in DOMAIN Tail(tasks) : Tail(tasks)[j] # "open"
        PROVE  tasks[i] # "open"
    <3>1. i = 1 \/ (i - 1 \in 1 .. Len(tasks) - 1 /\ tasks[i] = Tail(tasks)[i - 1])
      BY <1>1
    <3> QED
      BY <1>1, <2>1, <3>1
  <2>2. ASSUME \A i \in DOMAIN tasks : tasks[i] # "open"
        PROVE  Head(tasks) # "open"
               /\ \A i \in DOMAIN Tail(tasks) : Tail(tasks)[i] # "open"
    BY <1>1, <2>2
  <2> QED
    BY <2>1, <2>2
<1> QED
  BY <1>1, <1>2 DEF TaskStarts, NoOpen

\* A client that frees the player has no older result to wait for either.
LEMMA NothingLoaded == TypeOK /\ MayFree => NoOpen /\ Latest # "loaded"
<1> SUFFICES ASSUME TypeOK, MayFree PROVE NoOpen /\ Latest # "loaded"
  OBVIOUS
<1>1. posted # <<>> => Len(posted) \in DOMAIN posted
  BY DEF TypeOK
<1> QED
  BY <1>1 DEF MayFree, NoOpen, Latest

\* The youngest result is what a task posts when it ends, and being told an
\* older one does not change it.  (VideoPlayer.java:50-65)
LEMMA LatestPosted ==
  ASSUME TypeOK
  PROVE  /\ TaskEnds => Latest' = Result
         /\ onPostExecute => Latest' = Latest
<1>1. ASSUME TaskEnds PROVE Latest' = Result
  <2>1. /\ Len(Append(posted, Result)) = Len(posted) + 1
        /\ Append(posted, Result)[Len(posted) + 1] = Result
    BY <1>1 DEF TypeOK, TaskEnds
  <2>2. Append(posted, Result) # <<>>
    BY <2>1 DEF TypeOK
  <2> QED
    BY <1>1, <2>1, <2>2 DEF TaskEnds, Latest
<1>2. ASSUME onPostExecute PROVE Latest' = Latest
  <2>1. /\ Len(posted) \in Nat \ {0} /\ Len(Tail(posted)) = Len(posted) - 1
        /\ Head(posted) = posted[1]
    BY <1>2 DEF TypeOK, onPostExecute
  <2>2. CASE Len(posted) = 1
    <3>1. Tail(posted) = <<>>
      BY <2>1, <2>2, <1>2 DEF TypeOK, onPostExecute
    <3> QED
      BY <1>2, <2>1, <2>2, <3>1 DEF onPostExecute, Latest
  <2>3. CASE Len(posted) # 1
    <3>2. \A i \in 1 .. Len(Tail(posted)) : Tail(posted)[i] = posted[i + 1]
      BY <1>2, HeadTailProperties DEF TypeOK, onPostExecute
    <3>1. /\ Tail(posted) # <<>>
          /\ Tail(posted)[Len(posted) - 1] = posted[Len(posted)]
      BY <2>1, <2>3, <3>2
    <3> QED
      BY <1>2, <2>1, <3>1 DEF onPostExecute, Latest
  <2> QED
    BY <2>2, <2>3
<1> QED
  BY <1>1, <1>2

\* So does what the client, the surface and the executor do.
\* (VideoPlayer.java:40-66, 111-155, 267-270; VideoSurfaceView.java:63-80)
LEMMA StepKeeps ==
  ASSUME IInv, Native!IInv, [Next]_vars
  PROVE  Agreed'
<1> USE VideoPlayerAssumption DEF Agreed
<1>0. /\ op \in [{Ui, Task} -> {"none", "source", "resume", "stop", "surface_stop",
                               "release"}]
      /\ refused \in [{Ui, Task} -> BOOLEAN]
  BY DEF Native!IInv, Native!Values, Native!Flags
<1>a. TypeOK /\ UiLink /\ TaskLink /\ News /\ Unloaded /\ FreedLink
  BY DEF IInv
<1>1. ASSUME NEW task \in {"open", "stop"}, NEW known \in {"nothing", "loaded"},
             Execute(task, known),
             task = "open" => mNativePlayer,
             known = "loaded" <=> told = "loaded" /\ task = "stop"
      PROVE  Agreed'
  <2>1. /\ UNCHANGED <<native, running, posted, view, mNativePlayer, disturbed, raced>>
        /\ callback = "none" /\ op[Ui] = "none"
        /\ tasks' = Append(tasks, task) /\ told' = known
    BY <1>1 DEF Execute, UiFree
  <2>2. UiLink' /\ TaskLink'
    BY <1>a, <2>1 DEF UiLink, TaskLink, Between, Stopping, native, view
  <2>3. News'
    BY <1>1, <1>a, <2>1 DEF News, Truth, Latest, Between, Idle, Stopping,
      native, view
  <2>4. NoOpen' <=> NoOpen /\ task = "stop"
    BY <1>a, <2>1, Appended DEF NoOpen
  <2>5. task = "stop" => (Latest' = "loaded" <=> Latest = "loaded")
    BY <1>1, <2>1 DEF Latest
  <2>6. Unloaded'
    BY <1>a, <2>1, <2>4, <2>5 DEF Unloaded, Idle, native
  <2>7. FreedLink'
    BY <1>1, <1>a, <2>1, <2>4, <2>5 DEF FreedLink, Freed, native, view
  <2> QED
    BY <2>2, <2>3, <2>6, <2>7
<1>2. CASE Show
  <2>1. UiLink'
    BY <1>2, <1>0, <1>a DEF Show, UiFree, Ops!ResumeCall, Ops!flags,
      Ops!input, Ops!threads, Ops!surface, UiLink, Stopping, native, async,
      view
  <2>2. TaskLink'
    BY <1>2, <1>0, <1>a DEF Show, UiFree, Ops!ResumeCall, Ops!flags,
      Ops!input, Ops!threads, Ops!surface, TaskLink, Between, native, async,
      view
  <2>3. News'
    BY <1>2, <1>0, <1>a DEF Show, UiFree, Ops!ResumeCall, Ops!flags,
      Ops!input, Ops!threads, Ops!surface, UiLink, TaskLink, News, Truth,
      Latest, Between, Idle, Stopping, native, async, view, past
  <2>4. Unloaded'
    BY <1>2, <1>0, <1>a DEF Show, UiFree, Ops!ResumeCall, Ops!flags,
      Ops!input, Ops!threads, Ops!surface, Unloaded, NoOpen, Latest, Idle,
      native, async, view, past
  <2>5. FreedLink'
    BY <1>2, <1>0, <1>a DEF Show, UiFree, Ops!ResumeCall, Ops!flags,
      Ops!input, Ops!threads, Ops!surface, UiLink, TaskLink, FreedLink, Freed,
      NoOpen, Latest, Between, native, async, view, past
  <2> QED
    BY <2>1, <2>2, <2>3, <2>4, <2>5
<1>3. CASE DeallocatePlayer
  <2>0. NoOpen /\ Latest # "loaded"
    BY <1>3, <1>a, NothingLoaded DEF DeallocatePlayer
  <2>1. UiLink'
    BY <1>3, <1>0, <1>a, <2>0 DEF DeallocatePlayer, UiFree, UiLink, Stopping,
      native, async, view
  <2>2. TaskLink'
    BY <1>3, <1>0, <1>a, <2>0 DEF DeallocatePlayer, UiFree, TaskLink, Between,
      native, async, view
  <2>3. News'
    BY <1>3, <1>0, <1>a, <2>0 DEF DeallocatePlayer, UiFree, UiLink, TaskLink,
      News, Truth, Latest, Between, Idle, Stopping, native, async, view, past
  <2>4. Unloaded'
    BY <1>3, <1>0, <1>a, <2>0 DEF DeallocatePlayer, UiFree, Unloaded, NoOpen,
      Latest, Idle, native, async, view, past
  <2>5. FreedLink'
    BY <1>3, <1>0, <1>a, <2>0 DEF DeallocatePlayer, UiFree, UiLink, TaskLink,
      FreedLink, Freed, NoOpen, Latest, Between, native, async, view, past
  <2> QED
    BY <2>1, <2>2, <2>3, <2>4, <2>5
<1>4. CASE PointerCleared
  <2>1. UiLink'
    BY <1>4, <1>0, <1>a DEF PointerCleared, Alive, UiLink, Stopping, native,
      async, view
  <2>2. TaskLink'
    BY <1>4, <1>0, <1>a DEF PointerCleared, Alive, TaskLink, Between, native,
      async, view
  <2>3. News'
    BY <1>4, <1>0, <1>a DEF PointerCleared, Alive, UiLink, TaskLink, News,
      Truth, Latest, Between, Idle, Stopping, native, async, view, past
  <2>4. Unloaded'
    BY <1>4, <1>0, <1>a DEF PointerCleared, Alive, Unloaded, NoOpen, Latest,
      Idle, native, async, view, past
  <2>5. FreedLink'
    BY <1>4, <1>0, <1>a DEF PointerCleared, Alive, UiLink, TaskLink,
      FreedLink, Freed, NoOpen, Latest, Between, native, async, view, past
  <2> QED
    BY <2>1, <2>2, <2>3, <2>4, <2>5
<1>5. CASE Surface
  <2>1. UiLink'
    BY <1>5, <1>0, <1>a DEF Surface, surfaceCreated, surfaceDestroyed,
      NullCall, UiFree, Ops!RenderFrameStop, UiLink, Stopping, native, async,
      view
  <2>2. TaskLink'
    BY <1>5, <1>0, <1>a DEF Surface, surfaceCreated, surfaceDestroyed,
      NullCall, UiFree, Ops!RenderFrameStop, TaskLink, Between, native, async,
      view
  <2>3. News'
    BY <1>5, <1>0, <1>a DEF Surface, surfaceCreated, surfaceDestroyed,
      NullCall, UiFree, Ops!RenderFrameStop, UiLink, TaskLink, News, Truth,
      Latest, Between, Idle, Stopping, native, async, view, past
  <2>4. Unloaded'
    BY <1>5, <1>0, <1>a DEF Surface, surfaceCreated, surfaceDestroyed,
      NullCall, UiFree, Ops!RenderFrameStop, Unloaded, NoOpen, Latest, Idle,
      native, async, view, past
  <2>5. FreedLink'
    BY <1>5, <1>0, <1>a DEF Surface, surfaceCreated, surfaceDestroyed,
      NullCall, UiFree, Ops!RenderFrameStop, UiLink, TaskLink, FreedLink,
      Freed, NoOpen, Latest, Between, native, async, view, past
  <2> QED
    BY <2>1, <2>2, <2>3, <2>4, <2>5
<1>6. CASE FrameStopReturns
  <2>1. UiLink'
    BY <1>6, <1>0, <1>a DEF FrameStopReturns, Alive, UiLink, Stopping, native,
      async, view
  <2>2. TaskLink'
    BY <1>6, <1>0, <1>a DEF FrameStopReturns, Alive, TaskLink, Between,
      native, async, view
  <2>3. News'
    BY <1>6, <1>0, <1>a DEF FrameStopReturns, Alive, UiLink, TaskLink, News,
      Truth, Latest, Between, Idle, Stopping, native, async, view, past
  <2>4. Unloaded'
    BY <1>6, <1>0, <1>a DEF FrameStopReturns, Alive, Unloaded, NoOpen, Latest,
      Idle, native, async, view, past
  <2>5. FreedLink'
    BY <1>6, <1>0, <1>a DEF FrameStopReturns, Alive, UiLink, TaskLink,
      FreedLink, Freed, NoOpen, Latest, Between, native, async, view, past
  <2> QED
    BY <2>1, <2>2, <2>3, <2>4, <2>5
<1>7. CASE Render
  <2>1. UiLink'
    BY <1>7, <1>0, <1>a DEF Render, Alive, Ops!Render, UiLink, Stopping,
      native, async, view
  <2>2. TaskLink'
    BY <1>7, <1>0, <1>a DEF Render, Alive, Ops!Render, TaskLink, Between,
      native, async, view
  <2>3. News'
    BY <1>7, <1>0, <1>a DEF Render, Alive, Ops!Render, UiLink, TaskLink, News,
      Truth, Latest, Between, Idle, Stopping, native, async, view, past
  <2>4. Unloaded'
    BY <1>7, <1>0, <1>a DEF Render, Alive, Ops!Render, Unloaded, NoOpen,
      Latest, Idle, native, async, view, past
  <2>5. FreedLink'
    BY <1>7, <1>0, <1>a DEF Render, Alive, Ops!Render, UiLink, TaskLink,
      FreedLink, Freed, NoOpen, Latest, Between, native, async, view, past
  <2> QED
    BY <2>1, <2>2, <2>3, <2>4, <2>5
<1>8. CASE TaskStarts
  <2>1. UiLink'
    BY <1>8, <1>0, <1>a DEF TaskStarts, TypeOK, UiLink, Stopping, native,
      async, view
  <2>2. TaskLink'
    BY <1>8, <1>0, <1>a DEF TaskStarts, TypeOK, TaskLink, Between, native,
      async, view
  <2>3. News'
    BY <1>8, <1>0, <1>a DEF TaskStarts, TypeOK, UiLink, TaskLink, News, Truth,
      Latest, Between, Idle, Stopping, native, async, view, past
  <2>0. NoOpen' <=> NoOpen
    BY <1>8, <1>a, Shortened
  <2>4. Unloaded'
    BY <1>8, <1>a, <2>0 DEF TaskStarts, Unloaded, Latest, Idle, native, async,
      view, past
  <2>5. FreedLink'
    BY <1>8, <1>a, <2>0 DEF TaskStarts, TypeOK, TaskLink, FreedLink, Freed,
      Latest, Between, native, async, view, past
  <2> QED
    BY <2>1, <2>2, <2>3, <2>4, <2>5
<1>9. CASE OpenTask
  <2>1. UiLink'
    BY <1>9, <1>0, <1>a DEF OpenTask, Ops!SetDataSource, UiLink, Stopping,
      native, async, view
  <2>2. TaskLink'
    BY <1>9, <1>0, <1>a DEF OpenTask, Ops!SetDataSource, TaskLink, Between,
      native, async, view
  <2>3. News'
    BY <1>9, <1>0, <1>a DEF OpenTask, Ops!SetDataSource, UiLink, TaskLink,
      News, Truth, Latest, Between, Idle, Stopping, native, async, view, past
  <2>4. Unloaded'
    BY <1>9, <1>0, <1>a DEF OpenTask, Ops!SetDataSource, Unloaded, NoOpen,
      Latest, Idle, native, async, view, past
  <2>5. FreedLink'
    BY <1>9, <1>0, <1>a DEF OpenTask, Ops!SetDataSource, UiLink, TaskLink,
      FreedLink, Freed, NoOpen, Latest, Between, native, async, view, past
  <2> QED
    BY <2>1, <2>2, <2>3, <2>4, <2>5
<1>10. CASE StopTask
  <2>1. UiLink'
    BY <1>10, <1>0, <1>a DEF StopTask, UiLink, Stopping, native, async, view
  <2>2. TaskLink'
    BY <1>10, <1>0, <1>a DEF StopTask, TaskLink, Between, native, async, view
  <2>3. News'
    BY <1>10, <1>0, <1>a DEF StopTask, Unloaded, FreedLink, Freed, NoOpen,
      UiLink, TaskLink, News, Truth, Latest, Between, Idle, Stopping, native,
      async, view, past
  <2>4. Unloaded'
    BY <1>10, <1>0, <1>a DEF StopTask, Unloaded, NoOpen, Latest, Idle, native,
      async, view, past
  <2>5. FreedLink'
    BY <1>10, <1>0, <1>a DEF StopTask, UiLink, TaskLink, FreedLink, Freed,
      NoOpen, Latest, Between, native, async, view, past
  <2> QED
    BY <2>1, <2>2, <2>3, <2>4, <2>5
<1>11. CASE StopNative
  <2>1. UiLink'
    BY <1>11, <1>0, <1>a DEF StopNative, Ops!StopCall, UiLink, Stopping,
      native, async, view
  <2>2. TaskLink'
    BY <1>11, <1>0, <1>a DEF StopNative, Ops!StopCall, TaskLink, Between,
      native, async, view
  <2>3. News'
    BY <1>11, <1>0, <1>a DEF StopNative, Ops!StopCall, UiLink, TaskLink, News,
      Truth, Latest, Between, Idle, Stopping, native, async, view, past
  <2>4. Unloaded'
    BY <1>11, <1>0, <1>a DEF StopNative, Ops!StopCall, Unloaded, NoOpen,
      Latest, Idle, native, async, view, past
  <2>5. FreedLink'
    BY <1>11, <1>0, <1>a DEF StopNative, Ops!StopCall, UiLink, TaskLink,
      FreedLink, Freed, NoOpen, Latest, Between, native, async, view, past
  <2> QED
    BY <2>1, <2>2, <2>3, <2>4, <2>5
<1>12. CASE UseAfterFree
  <2>1. UiLink'
    BY <1>12, <1>0, <1>a DEF UseAfterFree, TypeOK, Alive, UiLink, Stopping,
      native, async, view
  <2>2. TaskLink'
    BY <1>12, <1>0, <1>a DEF UseAfterFree, TypeOK, FreedLink, Freed, NoOpen,
      TaskLink, Between, native, async, view
  <2>3. News'
    BY <1>12, <1>0, <1>a DEF UseAfterFree, TypeOK, Alive, UiLink, TaskLink,
      News, Truth, Latest, Between, Idle, Stopping, native, async, view, past
  <2>4. Unloaded'
    BY <1>12, <1>0, <1>a DEF UseAfterFree, FreedLink, Freed, Unloaded, NoOpen,
      Latest, Idle, native, async, view, past
  <2>5. FreedLink'
    BY <1>12, <1>0, <1>a DEF UseAfterFree, TypeOK, Alive, UiLink, TaskLink,
      FreedLink, Freed, NoOpen, Latest, Between, native, async, view, past
  <2> QED
    BY <2>1, <2>2, <2>3, <2>4, <2>5
<1>13. CASE TaskEnds
  <2>0. Latest' = Result
    BY <1>13, <1>a, LatestPosted
  <2>1. UiLink'
    BY <1>13, <1>0, <1>a, <2>0 DEF TaskEnds, Result, UiLink, Stopping, native,
      async, view
  <2>2. TaskLink'
    BY <1>13, <1>0, <1>a, <2>0 DEF TaskEnds, Result, TaskLink, Between,
      native, async, view
  <2>3. News'
    BY <1>13, <1>0, <1>a, <2>0 DEF TaskEnds, Result, UiLink, TaskLink, News,
      Truth, Between, Idle, Stopping, native, async, view, past
  <2>4. Unloaded'
    BY <1>13, <1>0, <1>a, <2>0 DEF TaskEnds, Result, Unloaded, NoOpen, News,
      TaskLink, Idle, native, async, view, past
  <2>5. FreedLink'
    BY <1>13, <1>0, <1>a, <2>0 DEF TaskEnds, Result, UiLink, TaskLink,
      FreedLink, Freed, NoOpen, Between, native, async, view, past
  <2> QED
    BY <2>1, <2>2, <2>3, <2>4, <2>5
<1>14. CASE onPostExecute
  <2>0. Latest' = Latest
    BY <1>14, <1>a, LatestPosted
  <2>1. UiLink'
    BY <1>14, <1>0, <1>a, <2>0 DEF onPostExecute, UiFree, UiLink, Stopping,
      native, async, view
  <2>2. TaskLink'
    BY <1>14, <1>0, <1>a, <2>0 DEF onPostExecute, UiFree, TaskLink, Between,
      native, async, view
  <2>3. News'
    BY <1>14, <1>0, <1>a, <2>0 DEF onPostExecute, UiFree, UiLink, TaskLink,
      News, Truth, Between, Idle, Stopping, native, async, view, past
  <2>4. Unloaded'
    BY <1>14, <1>0, <1>a, <2>0 DEF onPostExecute, UiFree, Unloaded, NoOpen,
      Idle, native, async, view, past
  <2>5. FreedLink'
    BY <1>14, <1>0, <1>a, <2>0 DEF onPostExecute, UiFree, UiLink, TaskLink,
      FreedLink, Freed, NoOpen, Between, native, async, view, past
  <2> QED
    BY <2>1, <2>2, <2>3, <2>4, <2>5
<1>15. CASE UNCHANGED vars
  BY <1>15, <1>a DEF vars, native, async, view, past, UiLink, TaskLink, News,
    Unloaded, FreedLink, Freed, NoOpen, Idle, Truth, Latest, Between, Stopping
<1>16. CASE setDataSource \/ ClientStop
  BY <1>1, <1>16 DEF setDataSource, ClientStop
<1> QED
  BY <1>2, <1>3, <1>4, <1>5, <1>6, <1>7, <1>8, <1>9, <1>10, <1>11, <1>12, <1>13,
    <1>14, <1>15, <1>16, EffectsKeep
  DEF Next, Client, Tasks

\* A new player has told nothing and plays nothing.
LEMMA Initial == Init => IInv
<1> SUFFICES ASSUME Init PROVE IInv
  OBVIOUS
<1> USE VideoPlayerAssumption DEF Agreed
<1>1. /\ mCreated \in BOOLEAN /\ mNativePlayer \in BOOLEAN
      /\ disturbed \in BOOLEAN /\ raced \in BOOLEAN
  BY Zenon DEF Init
<1>2. Owed = 0
  BY DEF Init, Owed
<1>3. TypeOK
  BY <1>1, <1>2 DEF Init, TypeOK
<1>4. UiLink /\ TaskLink
  BY DEF Init, Ops!Init, UiLink, TaskLink, Between, Stopping
<1>5. News /\ Unloaded /\ FreedLink
  BY DEF Init, Ops!Init, News, Unloaded, Idle, FreedLink, Freed, Truth, Latest,
    Stopping
<1> QED
  BY <1>3, <1>4, <1>5 DEF IInv

-----------------------------------------------------------------------------
(* The theorems.                                                             *)

\* The invariant holds in every state of the player.
THEOREM Inductive == Spec => []IInv
<1>1. IInv /\ Native!IInv /\ [Next]_vars => IInv'
  BY TypesNext, StepKeeps DEF IInv, Agreed
<1> QED
  BY Initial, NativeInv, <1>1, PTL DEF Spec

\* The Java side keeps its types.  (VideoPlayer.java; VideoSurfaceView.java)
THEOREM TypeCorrect == Spec => []TypeOK
<1>1. IInv => TypeOK
  BY DEF IInv
<1> QED
  BY <1>1, Inductive, PTL

\* Whatever tasks run beside them, the surface callbacks find the window as
\* jni_player_render and jni_player_render_frame_stop assert it.
\* (player.c:1082-1087, 1103-1108; VideoSurfaceView.java:63-80)
THEOREM WindowMatches == Spec => []WindowAsserts
<1>1. IInv => WindowAsserts
  BY DEF IInv, Agreed, UiLink, WindowAsserts, UiFree
<1> QED
  BY <1>1, Inductive, PTL

\* Once everything is answered the last news is true: nothing plays after a
\* stop or an error, and what was loaded plays unless its surface went.
\* (native-lib.cpp:136-159; VideoPlayer.java:50-65, 111-155)
THEOREM NewsHolds == Spec => []NewsTrue
<1>1. IInv => NewsTrue
  <2> SUFFICES ASSUME IInv, Owed = 0, UiFree PROVE Truth(told) /\ ~Stopping
    BY DEF NewsTrue, Truth
  <2>1. running = "none" /\ Latest = told
    BY OwedNone DEF IInv, NothingOwed, Latest
  <2> QED
    BY <2>1 DEF IInv, Agreed, News, Between, UiFree, Stopping
<1> QED
  BY <1>1, Inductive, PTL

\* A client that keeps the contract frees a player in which no operation, no
\* thread and no buffer is left, whatever stops are still under way, and what
\* is left to use the freed player is a stop that had tested the pointer before
\* it was cleared.  (VideoPlayer.java:50-56, 267-270; player.c:1030-1057)
THEOREM FreedAlone == Spec => []DeallocSafe
<1>1. IInv /\ Native!IInv => DeallocSafe
  <2> SUFFICES ASSUME IInv, Native!IInv PROVE DeallocSafe
    OBVIOUS
  <2>1. running = "crash" => mNativePlayer \/ raced
    BY DEF IInv, Agreed, FreedLink
  <2>2. ASSUME Freed
        PROVE  /\ operation = None /\ op[Ui] = "none" /\ op[Task] \in {"none", "stop"}
               /\ reader = "off" /\ decoder = "off" /\ drawing = None /\ held = {}
    <3>1. op[Ui] = "none" /\ NoOpen /\ Idle
      BY <2>2 DEF IInv, Agreed, FreedLink, Unloaded
    <3>2. op[Task] \in {"none", "stop"}
      BY <3>1 DEF IInv, Agreed, TypeOK, TaskLink, NoOpen, Between
    <3>3. operation = None /\ reader = "off" /\ decoder = "off" /\ held = {}
      BY <3>1 DEF Idle, Native!IInv, Native!Stock, Native!Values, Native!IdleInv
    <3>4. drawing = None
      BY <3>3 DEF Native!IInv, Native!Windows
    <3> QED
      BY <3>1, <3>2, <3>3, <3>4
  <2> QED
    BY <2>1, <2>2 DEF DeallocSafe
<1> QED
  BY <1>1, Inductive, NativeInv, PTL

\* Whatever the tasks and the surface do, player.c under them keeps what it
\* promises: sessions in turn, whole or nothing held between operations,
\* nothing released under its users, no thread left when a stop returns.
\* (native-lib.cpp:80-161; player.c:195-430, 1030-1117)
THEOREM NativeSafe ==
  Spec => /\ Native!ImplementsSession /\ Native!StopQuiesces
          /\ [](Native!SessionBalanced /\ Native!NothingDangles
                /\ Native!LockedWindowAlive)
<1>1. Native!Spec => Native!ImplementsSession
  BY NativeAssumptions, Native!Refinement
<1>2. Native!Spec => Native!StopQuiesces
  BY NativeAssumptions, Native!Quiescent
<1>3. Native!Spec => []Native!SessionBalanced
  BY NativeAssumptions, Native!Balanced
<1>4. Native!Spec => []Native!NothingDangles
  BY NativeAssumptions, Native!UsersServed
<1>5. Native!Spec => []Native!LockedWindowAlive
  BY NativeAssumptions, Native!WindowAlive
<1> QED
  BY NativeSpec, <1>1, <1>2, <1>3, <1>4, <1>5, PTL
=============================================================================

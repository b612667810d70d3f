---------------------------- MODULE VideoPlayer -----------------------------
(* VideoPlayer.java and VideoSurfaceView.java on top of the operations of    *)
(* player.c.  setDataSource and stop are AsyncTasks: one background thread   *)
(* runs them in the order of the calls and posts each result to the UI       *)
(* thread, which tells the listener.  The UI thread also gets the surface    *)
(* callbacks, and runs renderFrameStop itself.  The client calls from the UI *)
(* thread and frees the player once it knows that no source is loaded.       *)
(* Nothing else knows: the system goes on to call the surface callbacks, and *)
(* a stop that has looked at mNativePlayer goes on to call stopNative.       *)
EXTENDS Integers, Sequences

CONSTANTS Ui, Task,       \* the UI thread and the thread of the serial executor
          Surfaces, None, MaxRefs,
          Faults,         \* of the threads, see PlayerOperations
          MaxOwed         \* bound: results the client still waits for

ASSUME VideoPlayerAssumption ==
  /\ Ui # Task /\ None \notin {Ui, Task} \cup Surfaces
  /\ MaxRefs \in Nat /\ MaxOwed \in Nat
  /\ Faults \subseteq {"create_reader", "attach", "decode"}

VARIABLES
  operation, op, refused, step, failed,
  playing, pause, interrupt, stop, stop_streams,
  input_inited, capture_streams_no, held,
  reader, decoder, drawing, window, refs,      \* PlayerOperations
  tasks, running,       \* queue of the executor, the task it runs
  posted,               \* results on their way to the UI thread
  callback, mCreated,   \* what the UI thread still has to do, VideoSurfaceView
  mNativePlayer,        \* the pointer is not 0
  told,                 \* history: what the client knows, see Execute
  disturbed,            \* history: a surface went since the last task began to open
  raced                 \* history: the pointer was cleared during a stop

native == <<operation, op, refused, step, failed, playing, pause, interrupt, stop,
            stop_streams, input_inited, capture_streams_no, held, reader, decoder, drawing,
            window, refs>>
async  == <<tasks, running, posted>>
view   == <<callback, mCreated>>
past   == <<told, disturbed, raced>>
vars   == <<native, async, view, mNativePlayer, past>>

Ops == INSTANCE PlayerOperations
         WITH Callers <- {Ui, Task}, SurfaceThread <- Ui

Init ==
  /\ Ops!Init
  /\ tasks = <<>> /\ running = "none" /\ posted = <<>>
  /\ callback = "none" /\ mCreated = FALSE
  /\ mNativePlayer = TRUE /\ told = "nothing" /\ disturbed = FALSE /\ raced = FALSE

\* the process ends when a thread uses a player that is not there
Alive  == callback # "crash" /\ running # "crash"
\* the UI thread runs one thing at a time
UiFree == Alive /\ callback = "none" /\ op[Ui] = "none"
Owed   == Len(tasks) + Len(posted) + (IF running = "none" THEN 0 ELSE 1)

-----------------------------------------------------------------------------
(* The client, on the UI thread.                                             *)

\* the client waits for new news; that a source is loaded it knows until then
Execute(task, known) ==
  /\ UiFree /\ Owed < MaxOwed
  /\ tasks' = Append(tasks, task) /\ told' = known
  /\ UNCHANGED <<native, running, posted, view, mNativePlayer, disturbed, raced>>
setDataSource == mNativePlayer /\ Execute("open", "nothing")
\* legal also on a player that was freed
ClientStop    == Execute("stop", IF told = "loaded" THEN "loaded" ELSE "nothing")

Show ==
  /\ UiFree /\ mNativePlayer /\ Ops!ResumeCall(Ui)
  /\ UNCHANGED <<async, view, mNativePlayer, past>>

\* the contract of a client: no source is loaded, or about to be for all it
\* knows; stops may be under way and a surface may be there
MayFree ==
  /\ told # "loaded" /\ running \notin {"open", "opening"}
  /\ \A i \in DOMAIN tasks : tasks[i] # "open"
  /\ \A i \in DOMAIN posted : posted[i] = "stopped"

\* deallocNative frees the player, and only then is the pointer cleared
DeallocatePlayer ==
  /\ UiFree /\ mNativePlayer /\ MayFree
  /\ callback' = "dealloc"
  /\ UNCHANGED <<native, async, mCreated, mNativePlayer, past>>
PointerCleared ==
  /\ Alive /\ callback = "dealloc" /\ callback' = "none"
  /\ mNativePlayer' = FALSE /\ raced' = (running = "calling" \/ op[Task] # "none")
  /\ UNCHANGED <<native, async, mCreated, told, disturbed>>

Freed == callback = "dealloc" \/ ~mNativePlayer

-----------------------------------------------------------------------------
(* Surface callbacks, as the system makes them.  A surface that comes twice  *)
(* replaces the first; one that comes or goes after the player ends the      *)
(* process.                                                                  *)

\* bound: the surface to come, after the one it replaces, can be counted
HasRoom == \E s \in Surfaces : refs[s] + (IF s = window THEN 1 ELSE 2) <= MaxRefs

\* render or renderFrameStop on a pointer that is 0
NullCall == callback' = "crash" /\ UNCHANGED native

MutSurfaceCreated ==
  /\ UiFree /\ HasRoom
  /\ IF mNativePlayer THEN callback' = "render" /\ UNCHANGED native ELSE NullCall
  /\ UNCHANGED <<async, mCreated, mNativePlayer, past>>
surfaceCreated ==
  /\ UiFree /\ HasRoom
  /\ \/ mNativePlayer /\ mCreated /\ callback' = "replace" /\ Ops!RenderFrameStop(Ui)
     \/ mNativePlayer /\ ~mCreated /\ callback' = "render" /\ UNCHANGED native
     \/ ~mNativePlayer /\ NullCall
  /\ UNCHANGED <<async, mCreated, mNativePlayer, past>>

surfaceDestroyed ==
  /\ UiFree /\ mCreated
  /\ IF mNativePlayer THEN callback' = "destroy" /\ Ops!RenderFrameStop(Ui) ELSE NullCall
  /\ UNCHANGED <<async, mCreated, mNativePlayer, past>>

FrameStopReturns ==
  /\ Alive /\ callback \in {"replace", "destroy"} /\ op[Ui] = "none"
  /\ callback' = IF callback = "replace" THEN "render" ELSE "none"
  /\ mCreated' = FALSE /\ disturbed' = TRUE
  /\ UNCHANGED <<native, async, mNativePlayer, told, raced>>

Render ==
  /\ Alive /\ callback = "render" /\ callback' = "none" /\ mCreated' = TRUE
  /\ \E s \in Surfaces : Ops!Render(Ui, s)
  /\ UNCHANGED <<async, mNativePlayer, past>>

-----------------------------------------------------------------------------
(* The tasks.                                                                *)

MutTaskStarts ==
  /\ running = "none" /\ tasks # <<>>
  /\ running' = Head(tasks)
  /\ UNCHANGED <<native, tasks, posted, view, mNativePlayer, past>>
TaskStarts ==
  /\ running = "none" /\ tasks # <<>>
  /\ running' = Head(tasks) /\ tasks' = Tail(tasks)
  /\ UNCHANGED <<native, posted, view, mNativePlayer, past>>

OpenTask ==
  /\ running = "open" /\ Ops!SetDataSource(Task)
  /\ running' = "opening" /\ disturbed' = FALSE
  /\ UNCHANGED <<tasks, posted, view, mNativePlayer, told, raced>>

\* the test of mNativePlayer, and the call some time after it
MutStopTask ==
  /\ running = "stop" /\ running' = "calling"
  /\ UNCHANGED <<native, tasks, posted, view, mNativePlayer, past>>
StopTask ==
  /\ running = "stop" /\ running' = IF mNativePlayer THEN "calling" ELSE "stopping"
  /\ UNCHANGED <<native, tasks, posted, view, mNativePlayer, past>>
StopNative ==
  /\ running = "calling"
  /\ IF mNativePlayer THEN running' = "stopping" /\ Ops!StopCall(Task)
                      ELSE running' = "crash" /\ UNCHANGED native
  /\ UNCHANGED <<tasks, posted, view, mNativePlayer, past>>

\* player_stop on freed memory ends the process, or the memory still serves
UseAfterFree ==
  /\ Alive /\ Freed /\ op[Task] # "none" /\ running' = "crash"
  /\ UNCHANGED <<native, tasks, posted, view, mNativePlayer, past>>

\* doInBackground returns and its result is posted
Result ==
  IF running = "stopping" THEN "stopped" ELSE IF refused[Task] THEN "error" ELSE "loaded"
TaskEnds ==
  /\ running \in {"opening", "stopping"} /\ op[Task] = "none"
  /\ posted' = Append(posted, Result) /\ running' = "none"
  /\ UNCHANGED <<native, tasks, view, mNativePlayer, past>>

\* onPostExecute
MutPostExecute ==
  /\ UiFree /\ posted # <<>>
  /\ posted' = Tail(posted) /\ told' = posted[Len(posted)]
  /\ UNCHANGED <<native, tasks, running, view, mNativePlayer, disturbed, raced>>
onPostExecute ==
  /\ UiFree /\ posted # <<>>
  /\ posted' = Tail(posted) /\ told' = Head(posted)
  /\ UNCHANGED <<native, tasks, running, view, mNativePlayer, disturbed, raced>>

-----------------------------------------------------------------------------
Client  == setDataSource \/ ClientStop \/ Show \/ DeallocatePlayer
Surface == surfaceCreated \/ surfaceDestroyed
Tasks   == Alive /\ (TaskStarts \/ OpenTask \/ StopTask \/ StopNative \/ TaskEnds)
Rest    == Alive /\ UNCHANGED <<async, view, mNativePlayer, past>>

Next ==
  \/ Client \/ PointerCleared \/ Surface \/ FrameStopReturns \/ Render
  \/ Tasks \/ UseAfterFree \/ onPostExecute
  \/ Ops!Internal /\ Rest

Spec == Init /\ [][Next]_vars

\* the executor and the looper of the UI thread serve everything some day, the
\* native side is as fair as PlayerOperations says and the source answers
Fairness ==
  /\ WF_vars(Tasks) /\ WF_vars(PointerCleared) /\ WF_vars(FrameStopReturns) /\ WF_vars(Render)
  /\ SF_vars(onPostExecute)
  /\ WF_vars(Ops!Stages /\ Rest) /\ WF_vars(Ops!ReaderWorks /\ Rest)
  /\ WF_vars(Ops!DecoderWorks /\ Rest)
  /\ \A t \in {Ui, Task} :
       SF_vars(Ops!Locks(t) /\ Rest) /\ WF_vars(Ops!ReleaseWindow(t) /\ Rest)
  /\ WF_vars((Ops!OpenInput \/ Ops!FindStreamInfo) /\ Rest) /\ WF_vars(Ops!ReadReturns /\ Rest)

FairSpec == Spec /\ Fairness

-----------------------------------------------------------------------------
\* Types of the Java side.  (VideoPlayer.java; VideoSurfaceView.java)
TypeOK ==
  /\ Owed <= MaxOwed /\ tasks \in Seq({"open", "stop"})
  /\ running \in {"none", "open", "opening", "stop", "calling", "stopping", "crash"}
  /\ posted \in Seq({"loaded", "error", "stopped"})
  /\ callback \in {"none", "replace", "destroy", "render", "dealloc", "crash"}
  /\ mCreated \in BOOLEAN /\ mNativePlayer \in BOOLEAN /\ disturbed \in BOOLEAN
  /\ raced \in BOOLEAN
  /\ told \in {"nothing", "loaded", "error", "stopped"}

\* Once everything the client asked for has been answered, the last news is
\* true: after a stop or an error nothing plays, and after a load the source
\* plays and is not paused, unless its surface went meanwhile.
\* (native-lib.cpp:136-159; VideoPlayer.java:50-65, 111-155)
NewsTrue ==
  (Owed = 0 /\ UiFree) =>
    /\ told \in {"stopped", "error"} => ~playing
    /\ told = "loaded" /\ ~disturbed => playing /\ ~pause

\* A client that has been told of every source, and that none is loaded, frees
\* the player while no thread runs, nobody holds mutex_operation and nothing
\* acquired is left, however many stops are still queued.  Of these only one
\* that had tested mNativePlayer before it was cleared uses the freed player.
\* (VideoPlayer.java:53-54, 267-270; player.c:1030-1050)
DeallocSafe ==
  /\ Freed => /\ operation = None /\ op[Ui] = "none" /\ op[Task] \in {"none", "stop"}
              /\ reader = "off" /\ decoder = "off" /\ drawing = None /\ held = {}
  /\ running = "crash" => mNativePlayer \/ raced

\* The process never exits in jni_player_render or jni_player_render_frame_stop
\* because the window is there, or is not.  (player.c:1082-1087, 1103-1108;
\* VideoSurfaceView.java:63-80)
WindowAsserts ==
  /\ callback = "render" => window = None
  /\ op[Ui] \in {"surface_stop", "release"} => window # None
  /\ UiFree => (mCreated <=> window # None)

\* A stop the client asked for is answered, whatever was asked for before it
\* and whatever the surface does, unless the process ends on a freed player.
\* (VideoPlayer.java:40-66, 216-219)
StopTold ==
  (\E i \in 1 .. Len(tasks) : tasks[i] = "stop") ~> (told = "stopped" \/ ~Alive)

\* Surface callbacks return, so the UI thread is never blocked for good.
\* (VideoSurfaceView.java:63-80; player.c:1095-1117)
CallbacksReturn == (callback # "none") ~> (callback = "none" \/ ~Alive)
=============================================================================

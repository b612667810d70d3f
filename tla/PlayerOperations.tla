-------------------------- MODULE PlayerOperations --------------------------
(* The operations of player.c as their callers see them.  Each takes         *)
(* mutex_operation; its holder opens a session stage by stage, or closes it  *)
(* in the one order both the error path and player_stop_without_lock use.    *)
(* Underneath, a reader reads from the source and a decoder draws into the   *)
(* native window, with the stop handshake of decode.c (Pipeline has the      *)
(* packets); open_input, find_stream_info and av_read_frame come back only   *)
(* when the source answers or interrupt is set.                              *)
EXTENDS Integers

CONSTANTS Callers,        \* threads of the application
          SurfaceThread,  \* the one that gets the surface callbacks
          Surfaces,
          None,           \* no caller and no surface
          MaxRefs,        \* bound: references to a native window
          Faults          \* subset of {"create_reader", "attach", "decode"}

ASSUME OperationsAssumption ==
  /\ SurfaceThread \in Callers /\ None \notin Callers \cup Surfaces /\ MaxRefs \in Nat
  /\ Faults \subseteq {"create_reader", "attach", "decode"}

VARIABLES
  operation,      \* who holds mutex_operation
  op,             \* what each caller is doing
  refused,        \* whether its last set_data_source returned an error
  step, failed,   \* label of the holder; it is on the error path
  playing, pause, interrupt, stop, stop_streams,     \* struct Player
  input_inited, capture_streams_no,
  held,           \* the pointers of struct Player that are not NULL
  reader, decoder,
  drawing,        \* the window the decoder has locked
  window, refs    \* player->window, references to each window

lock    == <<operation, op, refused, step, failed>>
flags   == <<playing, pause, interrupt, stop, stop_streams>>
input   == <<input_inited, capture_streams_no, held>>
threads == <<reader, decoder, drawing>>
surface == <<window, refs>>
vars    == <<lock, flags, input, threads, surface>>

\* player_alloc_video_frames allocates in this order
VideoFrames == <<"rgb_frame", "tmp_frame", "tmp_frame2", "tmp_buffer", "tmp_buffer2">>
Buffers     == {VideoFrames[i] : i \in 1 .. 5}

Init ==
  /\ operation = None /\ step = "none" /\ failed = FALSE
  /\ op = [t \in Callers |-> "none"] /\ refused = [t \in Callers |-> FALSE]
  /\ playing = FALSE /\ pause = FALSE /\ interrupt = FALSE
  /\ stop = TRUE /\ stop_streams = FALSE
  /\ input_inited = FALSE /\ capture_streams_no = 0 /\ held = {}
  /\ reader = "off" /\ decoder = "off" /\ drawing = None
  /\ window = None /\ refs = [s \in Surfaces |-> 0]

-----------------------------------------------------------------------------
(* Calls.                                                                    *)

Calls(t, what) == op[t] = "none" /\ op' = [op EXCEPT ![t] = what]
Returns(t)     == op' = [op EXCEPT ![t] = "none"]

SetDataSource(t) ==
  /\ Calls(t, "source")
  /\ UNCHANGED <<operation, refused, step, failed, flags, input, threads, surface>>

ResumeCall(t) ==
  /\ Calls(t, "resume")
  /\ UNCHANGED <<operation, refused, step, failed, flags, input, threads, surface>>

\* player_stop sets interrupt before it waits for mutex_operation
StopCall(t) ==
  /\ Calls(t, "stop") /\ interrupt' = TRUE
  /\ UNCHANGED <<operation, refused, step, failed, playing, pause, stop, stop_streams,
                 input, threads, surface>>

\* callers keep the order of VideoSurfaceView, or the process exits
RenderFrameStop(t) ==
  /\ t = SurfaceThread /\ window # None
  /\ Calls(t, "surface_stop") /\ interrupt' = TRUE
  /\ UNCHANGED <<operation, refused, step, failed, playing, pause, stop, stop_streams,
                 input, threads, surface>>

\* fromSurface and acquire each take a reference
MutRender(t, s) ==
  /\ t = SurfaceThread /\ window = None /\ op[t] = "none" /\ refs[s] + 2 <= MaxRefs
  /\ window' = s /\ refs' = [refs EXCEPT ![s] = @ + 1]
  /\ UNCHANGED <<lock, flags, input, threads>>
Render(t, s) ==
  /\ t = SurfaceThread /\ window = None /\ op[t] = "none" /\ refs[s] + 2 <= MaxRefs
  /\ window' = s /\ refs' = [refs EXCEPT ![s] = @ + 2]
  /\ UNCHANGED <<lock, flags, input, threads>>

\* after its player_stop, render_frame_stop gives the window up
ReleaseWindow(t) ==
  /\ op[t] = "release" /\ window # None /\ Returns(t)
  /\ refs' = [refs EXCEPT ![window] = @ - 1] /\ window' = None
  /\ UNCHANGED <<operation, refused, step, failed, flags, input, threads>>

-----------------------------------------------------------------------------
(* mutex_operation.                                                          *)

Stops == {"stop", "surface_stop"}
\* what a caller does once its player_stop returns
Stopped(t) == op' = [op EXCEPT ![t] = IF @ = "surface_stop" THEN "release" ELSE "none"]

\* a running session is closed first, by player_stop_without_lock
LockSource(t) ==
  /\ operation = None /\ op[t] = "source" /\ operation' = t
  /\ step' = IF playing THEN "stop_threads" ELSE "context"
  /\ playing' = FALSE /\ failed' = FALSE
  /\ UNCHANGED <<op, refused, pause, interrupt, stop, stop_streams, input, threads, surface>>

LockStop(t) ==
  /\ operation = None /\ op[t] \in Stops /\ playing
  /\ operation' = t /\ step' = "stop_threads" /\ playing' = FALSE /\ failed' = FALSE
  /\ UNCHANGED <<op, refused, pause, interrupt, stop, stop_streams, input, threads, surface>>

StopIgnored(t) ==
  /\ operation = None /\ op[t] \in Stops /\ ~playing /\ Stopped(t)
  /\ UNCHANGED <<operation, refused, step, failed, flags, input, threads, surface>>

MutResume(t) ==
  /\ operation = None /\ op[t] = "resume" /\ Returns(t)
  /\ pause' = (pause /\ playing)
  /\ UNCHANGED <<operation, refused, step, failed, playing, interrupt, stop, stop_streams,
                 input, threads, surface>>
Resume(t) ==
  /\ operation = None /\ op[t] = "resume" /\ Returns(t)
  /\ pause' = (pause /\ ~playing)
  /\ UNCHANGED <<operation, refused, step, failed, playing, interrupt, stop, stop_streams,
                 input, threads, surface>>

-----------------------------------------------------------------------------
(* player_set_data_source, one stage after the other.                        *)

At(label)   == step = label
Goes(label) == step' = label /\ UNCHANGED <<operation, op, refused, failed>>
\* goto error
Fails == step' = "stop_threads" /\ failed' = TRUE /\ UNCHANGED <<operation, op, refused>>
StreamRest == UNCHANGED <<flags, threads, surface>>

CreateContext ==
  /\ At("context") /\ pause' = TRUE
  /\ \/ held' = held \cup {"context"} /\ Goes("interrupt")
     \/ Fails /\ UNCHANGED held
  /\ UNCHANGED <<playing, interrupt, stop, stop_streams, input_inited, capture_streams_no,
                 threads, surface>>

CreateInterruptCallback ==
  /\ At("interrupt") /\ interrupt' = FALSE /\ Goes("input")
  /\ UNCHANGED <<playing, pause, stop, stop_streams, input, threads, surface>>

\* a URL that is too long is refused with the context still there, while
\* avformat_open_input frees the context when it fails
OpenInput ==
  /\ At("input")
  /\ \/ Goes("info") /\ input_inited' = TRUE /\ UNCHANGED held
     \/ Fails /\ held' \in {held, held \ {"context"}} /\ UNCHANGED input_inited
  /\ UNCHANGED capture_streams_no /\ StreamRest

FindStreamInfo ==
  /\ At("info") /\ (Goes("stream") \/ Fails)
  /\ UNCHANGED input /\ StreamRest

FindStream ==
  /\ At("stream")
  /\ \/ /\ capture_streams_no' = capture_streams_no + 1
        /\ held' = held \cup {"codec"} /\ Goes("video_frames")
     \/ Fails /\ UNCHANGED <<capture_streams_no, held>>
  /\ UNCHANGED input_inited /\ StreamRest

AllocVideoFrames ==
  /\ At("video_frames")
  /\ \E n \in 0 .. 5 : /\ held' = held \cup {VideoFrames[i] : i \in 1 .. n}
                       /\ IF n = 5 THEN Goes("frames") ELSE Fails
  /\ UNCHANGED <<input_inited, capture_streams_no>> /\ StreamRest

AllocFrames ==
  /\ At("frames")
  /\ (held' = held \cup {"frame"} /\ Goes("queues")) \/ (Fails /\ UNCHANGED held)
  /\ UNCHANGED <<input_inited, capture_streams_no>> /\ StreamRest

AllocQueues ==
  /\ At("queues")
  /\ (held' = held \cup {"queue"} /\ Goes("prepare")) \/ (Fails /\ UNCHANGED held)
  /\ UNCHANGED <<input_inited, capture_streams_no>> /\ StreamRest

PlayPrepare ==
  /\ At("prepare") /\ stop' = FALSE /\ stop_streams' = FALSE /\ Goes("create_decoder")
  /\ UNCHANGED <<playing, pause, interrupt, input, threads, surface>>

CreateDecoder ==
  /\ At("create_decoder")
  /\ (decoder' = "attach" /\ Goes("create_reader")) \/ (Fails /\ UNCHANGED decoder)
  /\ UNCHANGED <<flags, input, reader, drawing, surface>>

\* with its last thread the session is playing; a successful
\* setDataSourceNative goes on to resume it
CreateReader ==
  /\ At("create_reader")
  /\ \/ /\ reader' = "attach" /\ playing' = TRUE
        /\ op' = [op EXCEPT ![operation] = "resume"]
        /\ refused' = [refused EXCEPT ![operation] = FALSE]
        /\ operation' = None /\ step' = "none" /\ UNCHANGED failed
     \/ "create_reader" \in Faults /\ Fails /\ UNCHANGED <<reader, playing>>
  /\ UNCHANGED <<pause, interrupt, stop, stop_streams, input, decoder, drawing, surface>>

-----------------------------------------------------------------------------
(* The way back, after an error or for player_stop_without_lock.             *)

MutStopThreads ==
  /\ At("stop_threads") /\ Goes("join_reader")
  /\ UNCHANGED <<flags, input, threads, surface>>
StopThreads ==
  /\ At("stop_threads") /\ stop' = TRUE /\ Goes("join_reader")
  /\ UNCHANGED <<playing, pause, interrupt, stop_streams, input, threads, surface>>

JoinReader ==
  /\ At("join_reader") /\ reader \in {"off", "done"}
  /\ reader' = "off" /\ Goes("join_decoder")
  /\ UNCHANGED <<flags, input, decoder, drawing, surface>>

\* one decoder per captured stream
MutJoinDecoder ==
  /\ At("join_decoder") /\ Goes("free_queues")
  /\ UNCHANGED <<flags, input, threads, surface>>
JoinDecoder ==
  /\ At("join_decoder") /\ (capture_streams_no > 0 => decoder \in {"off", "done"})
  /\ decoder' = IF capture_streams_no > 0 THEN "off" ELSE decoder
  /\ Goes("free_queues")
  /\ UNCHANGED <<flags, input, reader, drawing, surface>>

\* queues and frames are freed for each captured stream
FreeQueues ==
  /\ At("free_queues")
  /\ held' = IF capture_streams_no > 0 THEN held \ {"queue"} ELSE held
  /\ Goes(IF failed THEN "free_frames" ELSE "free_sws")
  /\ UNCHANGED <<input_inited, capture_streams_no>> /\ StreamRest

\* player_stop_without_lock only
FreeSws ==
  /\ At("free_sws") /\ held' = held \ {"sws"} /\ Goes("free_frames")
  /\ UNCHANGED <<input_inited, capture_streams_no>> /\ StreamRest

MutFreeFrames ==
  /\ At("free_frames")
  /\ held' = IF capture_streams_no > 1 THEN held \ {"frame"} ELSE held
  /\ Goes("free_video_frames")
  /\ UNCHANGED <<input_inited, capture_streams_no>> /\ StreamRest
FreeFrames ==
  /\ At("free_frames")
  /\ held' = IF capture_streams_no > 0 THEN held \ {"frame"} ELSE held
  /\ Goes("free_video_frames")
  /\ UNCHANGED <<input_inited, capture_streams_no>> /\ StreamRest

FreeVideoFrames ==
  /\ At("free_video_frames") /\ held' = held \ Buffers /\ Goes("free_streams")
  /\ UNCHANGED <<input_inited, capture_streams_no>> /\ StreamRest

MutFreeStreams ==
  /\ At("free_streams") /\ Goes("free_input")
  /\ held' = IF capture_streams_no > 0 THEN held \ {"codec"} ELSE held
  /\ UNCHANGED <<input_inited, capture_streams_no>> /\ StreamRest
FreeStreams ==
  /\ At("free_streams") /\ capture_streams_no' = 0
  /\ held' = IF capture_streams_no > 0 THEN held \ {"codec"} ELSE held
  /\ Goes("free_input")
  /\ UNCHANGED input_inited /\ StreamRest

FreeInput ==
  /\ At("free_input")
  /\ held' = IF input_inited THEN held \ {"context"} ELSE held
  /\ input_inited' = FALSE /\ Goes("free_context")
  /\ UNCHANGED capture_streams_no /\ StreamRest

\* a player_set_data_source that stopped the old session opens the new one
FreeContext ==
  /\ At("free_context") /\ held' = held \ {"context"}
  /\ IF op[operation] = "source" /\ ~failed
     THEN Goes("context")
     ELSE /\ refused' = [refused EXCEPT ![operation] = failed \/ @]
          /\ Stopped(operation) /\ operation' = None /\ step' = "none" /\ UNCHANGED failed
  /\ UNCHANGED <<input_inited, capture_streams_no>> /\ StreamRest

-----------------------------------------------------------------------------
(* The threads.                                                              *)

\* a thread that cannot attach to the VM ends at once
ReaderAttaches ==
  /\ reader = "attach"
  /\ reader' = "read" \/ ("attach" \in Faults /\ reader' = "done")
  /\ UNCHANGED <<lock, flags, input, decoder, drawing, surface>>

ReadReturns ==
  /\ reader = "read" /\ reader' = "check"
  /\ UNCHANGED <<lock, flags, input, decoder, drawing, surface>>

ReadAgain ==
  /\ reader = "check" /\ ~stop /\ reader' = "read"
  /\ UNCHANGED <<lock, flags, input, decoder, drawing, surface>>

ReaderStops ==
  /\ reader = "check" /\ stop /\ reader' = "stopwait" /\ stop_streams' = TRUE
  /\ UNCHANGED <<lock, playing, pause, interrupt, stop, input, decoder, drawing, surface>>

ReaderEnds ==
  /\ reader = "stopwait" /\ ~stop_streams /\ reader' = "done"
  /\ UNCHANGED <<lock, flags, input, decoder, drawing, surface>>

DecoderAttaches ==
  /\ decoder = "attach"
  /\ decoder' = "wait" \/ ("attach" \in Faults /\ decoder' = "done")
  /\ UNCHANGED <<lock, flags, input, reader, drawing, surface>>

\* packets come from a reader that reads
DecoderTakes ==
  /\ decoder = "wait" /\ ~stop_streams /\ reader \in {"read", "check"}
  /\ decoder' = "decode"
  /\ UNCHANGED <<lock, flags, input, reader, drawing, surface>>

\* a frame that has a window is drawn into it, perhaps with the conversion
\* context, and stays locked until player_wait_for_frame returns
DecoderDraws ==
  /\ decoder = "decode" /\ window # None
  /\ decoder' = "draw" /\ drawing' = window
  /\ held' \in {held, held \cup {"sws"}}
  /\ UNCHANGED <<lock, flags, input_inited, capture_streams_no, reader, surface>>

DecoderSkips ==
  /\ decoder = "decode" /\ decoder' = "wait"
  /\ UNCHANGED <<lock, flags, input, reader, drawing, surface>>

DecoderPosts ==
  /\ decoder = "draw" /\ (~pause \/ stop_streams)
  /\ decoder' = "wait" /\ drawing' = None
  /\ UNCHANGED <<lock, flags, input, reader, surface>>

DecoderEnds ==
  /\ decoder = "wait" /\ stop_streams
  /\ stop_streams' = FALSE /\ decoder' = "done"
  /\ UNCHANGED <<lock, playing, pause, interrupt, stop, input, reader, drawing, surface>>

\* a decoding error ends the thread as a stop does
DecoderDies ==
  /\ "decode" \in Faults /\ decoder = "decode"
  /\ stop_streams' = FALSE /\ decoder' = "done"
  /\ UNCHANGED <<lock, playing, pause, interrupt, stop, input, reader, drawing, surface>>

-----------------------------------------------------------------------------
Call(t) ==
  \/ SetDataSource(t) \/ ResumeCall(t) \/ StopCall(t) \/ RenderFrameStop(t)
  \/ \E s \in Surfaces : Render(t, s)

Locks(t) == LockSource(t) \/ LockStop(t) \/ StopIgnored(t) \/ Resume(t)

Blocking == OpenInput \/ FindStreamInfo \/ ReadReturns

Stages ==
  \/ CreateContext \/ CreateInterruptCallback \/ FindStream \/ AllocVideoFrames
  \/ AllocFrames \/ AllocQueues \/ PlayPrepare
  \/ CreateDecoder \/ CreateReader \/ StopThreads \/ JoinReader \/ JoinDecoder
  \/ FreeQueues \/ FreeSws \/ FreeFrames \/ FreeVideoFrames \/ FreeStreams
  \/ FreeInput \/ FreeContext

ReaderWorks  == ReaderAttaches \/ ReaderStops \/ ReaderEnds
DecoderWorks == DecoderAttaches \/ DecoderDraws \/ DecoderSkips \/ DecoderPosts \/ DecoderEnds

Internal ==
  \/ \E t \in Callers : Locks(t) \/ ReleaseWindow(t)
  \/ Blocking \/ Stages \/ ReaderWorks \/ ReadAgain
  \/ DecoderWorks \/ DecoderTakes \/ DecoderDies

Next == Internal \/ \E t \in Callers : Call(t)
Spec == Init /\ [][Next]_vars

\* threads run, the mutex passes everybody some day, and a blocking call
\* is only sure to return once it is interrupted
Fairness ==
  /\ WF_vars(Stages) /\ WF_vars(ReaderWorks) /\ WF_vars(DecoderWorks)
  /\ \A t \in Callers : SF_vars(Locks(t)) /\ WF_vars(ReleaseWindow(t))
  /\ WF_vars(interrupt /\ (OpenInput \/ FindStreamInfo)) /\ WF_vars(interrupt /\ ReadReturns)

FairSpec == Spec /\ Fairness

-----------------------------------------------------------------------------
Session1 == {"context", "codec", "frame", "queue"} \cup Buffers    \* one session's pointers
Labels == {"none", "context", "interrupt", "input", "info", "stream", "video_frames",
           "frames", "queues", "prepare", "create_decoder", "create_reader",
           "stop_threads", "join_reader", "join_decoder", "free_queues", "free_sws",
           "free_frames", "free_video_frames", "free_streams", "free_input", "free_context"}

\* Types; at most one stream is captured, and exactly the holder of the mutex
\* is at a label.  (player.h:156-231)
TypeOK ==
  /\ operation \in Callers \cup {None} /\ step \in Labels
  /\ operation = None <=> step = "none"
  /\ op \in [Callers -> {"none", "source", "resume", "stop", "surface_stop", "release"}]
  /\ refused \in [Callers -> BOOLEAN] /\ failed \in BOOLEAN
  /\ playing \in BOOLEAN /\ pause \in BOOLEAN /\ interrupt \in BOOLEAN
  /\ stop \in BOOLEAN /\ stop_streams \in BOOLEAN /\ input_inited \in BOOLEAN
  /\ capture_streams_no \in 0 .. 1 /\ held \subseteq Session1 \cup {"sws"}
  /\ reader \in {"off", "attach", "read", "check", "stopwait", "done"}
  /\ decoder \in {"off", "attach", "wait", "decode", "draw", "done"}
  /\ drawing \in Surfaces \cup {None} /\ (drawing # None <=> decoder = "draw")
  /\ window \in Surfaces \cup {None} /\ refs \in [Surfaces -> 0 .. MaxRefs]

\* Between two operations the player holds everything a session needs or
\* nothing at all: whichever stage failed, and whether the session was
\* stopped, replaced or never opened, nothing is left over or missing.
\* (player.c:334-360, 400-424)
SessionBalanced ==
  operation = None =>
    IF playing
    THEN /\ held \ {"sws"} = Session1 /\ capture_streams_no = 1 /\ input_inited
         /\ reader # "off" /\ decoder # "off"
    ELSE /\ held = {} /\ capture_streams_no = 0 /\ ~input_inited
         /\ reader = "off" /\ decoder = "off"

\* Nothing is released under its users: a thread has what it works with until
\* it ends, and the codec is closed before the context that owns it.
\* (decode.c:78-240, 656-810; player.c:400-424, 804-837)
NothingDangles ==
  /\ reader \notin {"off", "done"} => {"context", "codec", "queue"} \subseteq held /\ input_inited
  /\ decoder \notin {"off", "done"} => Session1 \ {"context"} \subseteq held
  /\ "codec" \in held => "context" \in held

\* The window the decoder has locked is alive, also when a session started by
\* another thread draws while jni_player_render_frame_stop, its own stop done,
\* releases the window.  (player.c:1076-1117; decode.c:299-318, 514)
LockedWindowAlive == drawing # None => refs[drawing] > 0

\* When player_stop returns, no thread of any session is left and no window is
\* locked, whatever session was opened or replaced while it waited.
\* (player.c:1059-1073)
StopQuiesces ==
  [][\A t \in Callers : op[t] \in Stops /\ op'[t] \notin Stops
       => ~playing' /\ reader' = "off" /\ decoder' = "off" /\ drawing' = None]_vars

\* Every operation returns, whatever fails and however the callers compete for
\* mutex_operation, unless its holder hangs in one of three ways: it joins a
\* reader that waits for a dead decoder, or a decoder that no reader will tell
\* to stop, or it waits for a stalled source that nobody interrupts.
\* (player.c:195-371, 443-466, 745-767, 988-1028, 1052-1117; decode.c:173, 672)
ReaderOrphaned  == step = "join_reader" /\ reader = "stopwait" /\ decoder = "done"
DecoderOrphaned ==
  step = "join_decoder" /\ reader = "off" /\ decoder # "done" /\ ~stop_streams
SourceStalled   ==
  ~interrupt /\ (step \in {"input", "info"} \/ (step = "join_reader" /\ reader = "read"))
OperationsReturn ==
  \/ \A t \in Callers : []<>(op[t] = "none")
  \/ <>[]ReaderOrphaned \/ <>[]DecoderOrphaned \/ <>[]SourceStalled

\* The session as Session promises it.  (player.c:195-371, 400-424)
Opening == {"context", "interrupt", "input", "info", "stream", "video_frames", "frames",
            "queues", "prepare", "create_decoder", "create_reader"}
Phase ==
  IF step \in Opening THEN "opening"
  ELSE IF step \in Labels \ {"none"} THEN "closing"
  ELSE IF playing THEN "open" ELSE "closed"
Live == (IF reader \in {"off", "done"} THEN {} ELSE {"reader"})
          \cup (IF decoder \in {"off", "done"} THEN {} ELSE {"decoder"})
S == INSTANCE Session
       WITH Threads <- {"reader", "decoder"}, phase <- Phase, workers <- Live,
            store <- "queue" \in held
ImplementsSession == S!Spec
=============================================================================

----------------------- MODULE PlayerOperationsProofs -----------------------
(* What player.c acquires and releases, for any number of callers and        *)
(* surfaces and any faults: the stages hold exactly what they should, the    *)
(* threads have what they use, and the whole is a Session.                   *)
EXTENDS PlayerOperations, TLAPS

\* TypeOK in two parts: the flags and everything else
Flags ==
  /\ failed \in BOOLEAN /\ playing \in BOOLEAN /\ pause \in BOOLEAN
  /\ interrupt \in BOOLEAN /\ stop \in BOOLEAN /\ stop_streams \in BOOLEAN
  /\ input_inited \in BOOLEAN /\ refused \in [Callers -> BOOLEAN]
Values ==
  /\ operation \in Callers \cup {None} /\ step \in Labels
  /\ operation = None <=> step = "none"
  /\ op \in [Callers -> {"none", "source", "resume", "stop", "surface_stop", "release"}]
  /\ capture_streams_no \in 0 .. 1 /\ held \subseteq Session1 \cup {"sws"}
  /\ reader \in {"off", "attach", "read", "check", "stopwait", "done"}
  /\ decoder \in {"off", "attach", "wait", "decode", "draw", "done"}

\* the window has a reference for the player and one that is never given back
Windows ==
  /\ drawing \in Surfaces \cup {None} /\ (drawing # None <=> decoder = "draw")
  /\ window \in Surfaces \cup {None} /\ refs \in [Surfaces -> 0 .. MaxRefs]
  /\ window # None => refs[window] > 1
  /\ LockedWindowAlive

-----------------------------------------------------------------------------
(* The inductive invariant: what is held at each label.                      *)

Prepared == {"prepare", "create_decoder", "create_reader"}
Filled   == {"frames", "queues"} \cup Prepared

\* every stage so far has succeeded
OpeningInv ==
  step \in Opening =>
    /\ op[operation] = "source" /\ ~failed /\ reader = "off"
    /\ decoder \in {"off", "attach", "wait", "done"}
    /\ decoder # "off" <=> step = "create_reader"
    /\ input_inited <=> step \notin {"context", "interrupt", "input"}
    /\ capture_streams_no = IF step \in {"video_frames"} \cup Filled THEN 1 ELSE 0
    /\ "context" \in held <=> step # "context"
    /\ "codec" \in held <=> capture_streams_no = 1
    /\ \A b \in Buffers : b \in held <=> step \in Filled
    /\ "frame" \in held <=> step \in {"queues"} \cup Prepared
    /\ "queue" \in held <=> step \in Prepared
    /\ "sws" \notin held

Closing == Labels \ (Opening \cup {"none"})
Ending  == {"free_input", "free_context"}
Freeing == {"free_streams"} \cup Ending
NoFrame == {"free_video_frames"} \cup Freeing
NoSws   == {"free_frames"} \cup NoFrame
NoQueue == {"free_sws"} \cup NoSws
Joined  == {"free_queues"} \cup NoQueue

\* whatever was acquired, what has been released is gone and the rest is not
ClosingInv ==
  step \in Closing =>
    /\ op[operation] \in {"source"} \cup Stops
    /\ step \in {"join_decoder"} \cup Joined => reader = "off"
    /\ step \in Joined => decoder = "off"
    /\ failed => /\ op[operation] = "source" /\ reader = "off" /\ "sws" \notin held
                 /\ decoder \in {"off", "attach", "wait", "done"}
    /\ reader # "off" \/ decoder # "off" => Session1 \subseteq held /\ capture_streams_no = 1
    /\ capture_streams_no = 0 => held \subseteq {"context"}
    /\ capture_streams_no = 1 => {"context", "codec"} \subseteq held /\ input_inited
    /\ input_inited => "context" \in held
    /\ step \in NoQueue => "queue" \notin held
    /\ step \in NoSws => "sws" \notin held
    /\ step \in NoFrame => "frame" \notin held
    /\ step \in Freeing => \A b \in Buffers : b \notin held
    /\ step \in Ending => capture_streams_no = 0
    /\ step = "free_context" => ~input_inited

IdleInv ==
  /\ playing => step = "none"
  /\ step = "none" =>
       IF playing
       THEN /\ Session1 \subseteq held /\ capture_streams_no = 1 /\ input_inited
            /\ reader # "off" /\ decoder # "off"
       ELSE /\ held = {} /\ capture_streams_no = 0 /\ ~input_inited
            /\ reader = "off" /\ decoder = "off"

Stock == OpeningInv /\ ClosingInv /\ IdleInv
IInv  == Flags /\ Values /\ Windows /\ Stock

-----------------------------------------------------------------------------
(* Small facts and shorthands of the actions.                                *)

LEMMA BuffersList ==
  Buffers = {"rgb_frame", "tmp_frame", "tmp_frame2", "tmp_buffer", "tmp_buffer2"}
<1>1. 1 .. 5 = {1, 2, 3, 4, 5}
  OBVIOUS
<1> QED
  BY <1>1 DEF Buffers, VideoFrames

USE DEF At, Goes, Fails, StreamRest, Calls, Returns, Stopped,
        lock, flags, input, threads, surface

-----------------------------------------------------------------------------
\* The flags stay flags.
LEMMA FlagsNext == Flags /\ [Next]_vars => Flags'
<1> SUFFICES ASSUME Flags, [Next]_vars PROVE Flags'
  OBVIOUS
<1>1. CASE Stages
  BY <1>1 DEF Stages, CreateContext, CreateInterruptCallback, FindStream,
    AllocVideoFrames, AllocFrames, AllocQueues, PlayPrepare, CreateDecoder,
    CreateReader, StopThreads, JoinReader, JoinDecoder, FreeQueues, FreeSws,
    FreeFrames, FreeVideoFrames, FreeStreams, FreeInput, FreeContext, Flags
<1>2. CASE Blocking
  BY <1>2 DEF Blocking, OpenInput, FindStreamInfo, ReadReturns, Flags
<1>3. CASE ReaderWorks \/ ReadAgain \/ DecoderWorks \/ DecoderTakes \/ DecoderDies
  BY <1>3 DEF ReaderWorks, DecoderWorks, ReaderAttaches, ReaderStops,
    ReaderEnds, ReadAgain, DecoderAttaches, DecoderDraws, DecoderSkips,
    DecoderPosts, DecoderEnds, DecoderTakes, DecoderDies, Flags
<1>4. ASSUME NEW t \in Callers, Call(t) PROVE Flags'
  BY <1>4 DEF Call, SetDataSource, ResumeCall, StopCall, RenderFrameStop,
    Render, Flags
<1>5. ASSUME NEW t \in Callers, Locks(t) \/ ReleaseWindow(t) PROVE Flags'
  BY <1>5 DEF Locks, LockSource, LockStop, StopIgnored, Resume, ReleaseWindow,
    Flags
<1>6. CASE UNCHANGED vars
  BY <1>6 DEF vars, Flags
<1> QED
  BY <1>1, <1>2, <1>3, <1>4, <1>5, <1>6 DEF Next, Internal

\* The other variables keep their types; no second stream is captured.
LEMMA ValuesNext == Values /\ Stock /\ [Next]_vars => Values'
<1> SUFFICES ASSUME Values /\ Stock, [Next]_vars PROVE Values'
  OBVIOUS
<1>1. CASE Stages
  <2>1. CASE CreateContext
    BY <2>1, BuffersList, OperationsAssumption DEF CreateContext, Values,
      Stock, OpeningInv, ClosingInv, IdleInv, Opening, Closing, Labels,
      Prepared, Filled, Ending, Freeing, NoFrame, NoSws, NoQueue, Joined,
      Session1, Stops
  <2>2. CASE CreateInterruptCallback
    BY <2>2, BuffersList, OperationsAssumption DEF CreateInterruptCallback,
      Values, Stock, OpeningInv, ClosingInv, IdleInv, Opening, Closing, Labels,
      Prepared, Filled, Ending, Freeing, NoFrame, NoSws, NoQueue, Joined,
      Session1, Stops
  <2>3. CASE FindStream
    <3>1. capture_streams_no = 0
      BY <2>3 DEF FindStream, Stock, OpeningInv, Opening, Filled, Prepared
    <3>2. capture_streams_no' \in 0 .. 1
      BY <2>3, <3>1 DEF FindStream
    <3>3. held' \subseteq held \cup {"codec"}
      BY <2>3 DEF FindStream
    <3>4. UNCHANGED <<operation, op, reader, decoder>> /\ step # "none"
          /\ step' \in {"video_frames", "stop_threads"}
      BY <2>3 DEF FindStream
    <3> QED
      BY <3>2, <3>3, <3>4 DEF Values, Labels, Session1
  <2>4. CASE AllocVideoFrames
    <3>1. PICK n \in 0 .. 5 : /\ held' = held \cup {VideoFrames[i] : i \in 1 .. n}
                           /\ IF n = 5 THEN Goes("frames") ELSE Fails
      BY <2>4 DEF AllocVideoFrames
    <3>2. held' \subseteq held \cup Buffers
      BY <3>1 DEF Buffers
    <3>3. step' \in {"frames", "stop_threads"} /\ UNCHANGED <<operation, op>>
      BY <3>1
    <3>4. step # "none" /\ UNCHANGED <<capture_streams_no, reader, decoder>>
      BY <2>4 DEF AllocVideoFrames
    <3> QED
      BY <3>2, <3>3, <3>4 DEF Values, Labels, Session1
  <2>5. CASE AllocFrames
    BY <2>5, BuffersList, OperationsAssumption DEF AllocFrames, Values, Stock,
      OpeningInv, ClosingInv, IdleInv, Opening, Closing, Labels, Prepared,
      Filled, Ending, Freeing, NoFrame, NoSws, NoQueue, Joined, Session1, Stops
  <2>6. CASE AllocQueues
    BY <2>6, BuffersList, OperationsAssumption DEF AllocQueues, Values, Stock,
      OpeningInv, ClosingInv, IdleInv, Opening, Closing, Labels, Prepared,
      Filled, Ending, Freeing, NoFrame, NoSws, NoQueue, Joined, Session1, Stops
  <2>7. CASE PlayPrepare
    BY <2>7, BuffersList, OperationsAssumption DEF PlayPrepare, Values, Stock,
      OpeningInv, ClosingInv, IdleInv, Opening, Closing, Labels, Prepared,
      Filled, Ending, Freeing, NoFrame, NoSws, NoQueue, Joined, Session1, Stops
  <2>8. CASE CreateDecoder
    BY <2>8, BuffersList, OperationsAssumption DEF CreateDecoder, Values,
      Stock, OpeningInv, ClosingInv, IdleInv, Opening, Closing, Labels,
      Prepared, Filled, Ending, Freeing, NoFrame, NoSws, NoQueue, Joined,
      Session1, Stops
  <2>9. CASE CreateReader
    BY <2>9, BuffersList, OperationsAssumption DEF CreateReader, Values, Stock,
      OpeningInv, ClosingInv, IdleInv, Opening, Closing, Labels, Prepared,
      Filled, Ending, Freeing, NoFrame, NoSws, NoQueue, Joined, Session1, Stops
  <2>10. CASE StopThreads
    BY <2>10, BuffersList, OperationsAssumption DEF StopThreads, Values, Stock,
      OpeningInv, ClosingInv, IdleInv, Opening, Closing, Labels, Prepared,
      Filled, Ending, Freeing, NoFrame, NoSws, NoQueue, Joined, Session1, Stops
  <2>11. CASE JoinReader
    BY <2>11, BuffersList, OperationsAssumption DEF JoinReader, Values, Stock,
      OpeningInv, ClosingInv, IdleInv, Opening, Closing, Labels, Prepared,
      Filled, Ending, Freeing, NoFrame, NoSws, NoQueue, Joined, Session1, Stops
  <2>12. CASE JoinDecoder
    BY <2>12, BuffersList, OperationsAssumption DEF JoinDecoder, Values, Stock,
      OpeningInv, ClosingInv, IdleInv, Opening, Closing, Labels, Prepared,
      Filled, Ending, Freeing, NoFrame, NoSws, NoQueue, Joined, Session1, Stops
  <2>13. CASE FreeQueues
    BY <2>13, BuffersList, OperationsAssumption DEF FreeQueues, Values, Stock,
      OpeningInv, ClosingInv, IdleInv, Opening, Closing, Labels, Prepared,
      Filled, Ending, Freeing, NoFrame, NoSws, NoQueue, Joined, Session1, Stops
  <2>14. CASE FreeSws
    BY <2>14, BuffersList, OperationsAssumption DEF FreeSws, Values, Stock,
      OpeningInv, ClosingInv, IdleInv, Opening, Closing, Labels, Prepared,
      Filled, Ending, Freeing, NoFrame, NoSws, NoQueue, Joined, Session1, Stops
  <2>15. CASE FreeFrames
    BY <2>15, BuffersList, OperationsAssumption DEF FreeFrames, Values, Stock,
      OpeningInv, ClosingInv, IdleInv, Opening, Closing, Labels, Prepared,
      Filled, Ending, Freeing, NoFrame, NoSws, NoQueue, Joined, Session1, Stops
  <2>16. CASE FreeVideoFrames
    BY <2>16, BuffersList, OperationsAssumption DEF FreeVideoFrames, Values,
      Stock, OpeningInv, ClosingInv, IdleInv, Opening, Closing, Labels,
      Prepared, Filled, Ending, Freeing, NoFrame, NoSws, NoQueue, Joined,
      Session1, Stops
  <2>17. CASE FreeStreams
    BY <2>17, BuffersList, OperationsAssumption DEF FreeStreams, Values, Stock,
      OpeningInv, ClosingInv, IdleInv, Opening, Closing, Labels, Prepared,
      Filled, Ending, Freeing, NoFrame, NoSws, NoQueue, Joined, Session1, Stops
  <2>18. CASE FreeInput
    BY <2>18, BuffersList, OperationsAssumption DEF FreeInput, Values, Stock,
      OpeningInv, ClosingInv, IdleInv, Opening, Closing, Labels, Prepared,
      Filled, Ending, Freeing, NoFrame, NoSws, NoQueue, Joined, Session1, Stops
  <2>19. CASE FreeContext
    BY <2>19, BuffersList, OperationsAssumption DEF FreeContext, Values, Stock,
      OpeningInv, ClosingInv, IdleInv, Opening, Closing, Labels, Prepared,
      Filled, Ending, Freeing, NoFrame, NoSws, NoQueue, Joined, Session1, Stops
  <2> QED
    BY <1>1, <2>1, <2>2, <2>3, <2>4, <2>5, <2>6, <2>7, <2>8, <2>9, <2>10,
      <2>11, <2>12, <2>13, <2>14, <2>15, <2>16, <2>17, <2>18, <2>19 DEF Stages
<1>2. CASE Blocking
  BY <1>2, OperationsAssumption DEF Blocking, OpenInput, FindStreamInfo,
    ReadReturns, Values, Stock, OpeningInv, ClosingInv, IdleInv, Opening,
    Closing, Labels, Prepared, Filled, Ending, Freeing, NoFrame, NoSws,
    NoQueue, Joined, Session1, Stops
<1>3. CASE ReaderWorks \/ ReadAgain \/ DecoderWorks \/ DecoderTakes \/ DecoderDies
  BY <1>3, OperationsAssumption DEF ReaderWorks, DecoderWorks, ReaderAttaches,
    ReaderStops, ReaderEnds, ReadAgain, DecoderAttaches, DecoderDraws,
    DecoderSkips, DecoderPosts, DecoderEnds, DecoderTakes, DecoderDies, Values,
    Stock, OpeningInv, ClosingInv, IdleInv, Opening, Closing, Labels, Prepared,
    Filled, Ending, Freeing, NoFrame, NoSws, NoQueue, Joined, Session1, Stops
<1>4. ASSUME NEW t \in Callers, Call(t) PROVE Values'
  BY <1>4, OperationsAssumption DEF Call, SetDataSource, ResumeCall, StopCall,
    RenderFrameStop, Render, Values, Stock, OpeningInv, ClosingInv, IdleInv,
    Opening, Closing, Labels, Prepared, Filled, Ending, Freeing, NoFrame,
    NoSws, NoQueue, Joined, Session1, Stops
<1>5. ASSUME NEW t \in Callers, Locks(t) \/ ReleaseWindow(t) PROVE Values'
  BY <1>5, OperationsAssumption DEF Locks, LockSource, LockStop, StopIgnored,
    Resume, ReleaseWindow, Values, Stock, OpeningInv, ClosingInv, IdleInv,
    Opening, Closing, Labels, Prepared, Filled, Ending, Freeing, NoFrame,
    NoSws, NoQueue, Joined, Session1, Stops
<1>6. CASE UNCHANGED vars
  BY <1>6 DEF vars, Values, Stock, OpeningInv, ClosingInv, IdleInv, Opening,
    Closing, Labels, Prepared, Filled, Ending, Freeing, NoFrame, NoSws,
    NoQueue, Joined, Session1, Stops
<1> QED
  BY <1>1, <1>2, <1>3, <1>4, <1>5, <1>6 DEF Next, Internal

\* A window keeps a reference: it gets two, and gives up one of them.
LEMMA WindowsNext == Windows /\ Stock /\ [Next]_vars => Windows'
<1> SUFFICES ASSUME Windows /\ Stock, [Next]_vars PROVE Windows'
  OBVIOUS
<1>1. CASE Stages
  <2>1. CASE CreateDecoder
    BY <2>1 DEF CreateDecoder, Stock, OpeningInv, Opening, Windows,
      LockedWindowAlive
  <2>2. CASE JoinDecoder
    BY <2>2 DEF JoinDecoder, Stock, ClosingInv, Closing, Labels, Opening,
      Windows, LockedWindowAlive
  <2>3. CASE UNCHANGED <<decoder, drawing, window, refs>>
    BY <2>3 DEF Windows, LockedWindowAlive
  <2> QED
    BY <1>1, <2>1, <2>2, <2>3 DEF Stages, CreateContext,
      CreateInterruptCallback, FindStream, AllocVideoFrames, AllocFrames,
      AllocQueues, PlayPrepare, CreateReader, StopThreads, JoinReader,
      FreeQueues, FreeSws, FreeFrames, FreeVideoFrames, FreeStreams, FreeInput,
      FreeContext
<1>2. CASE Blocking
  BY <1>2, OperationsAssumption DEF Blocking, OpenInput, FindStreamInfo,
    ReadReturns, Windows, LockedWindowAlive
<1>3. CASE ReaderWorks \/ ReadAgain \/ DecoderWorks \/ DecoderTakes \/ DecoderDies
  BY <1>3, OperationsAssumption DEF ReaderWorks, DecoderWorks, ReaderAttaches,
    ReaderStops, ReaderEnds, ReadAgain, DecoderAttaches, DecoderDraws,
    DecoderSkips, DecoderPosts, DecoderEnds, DecoderTakes, DecoderDies,
    Windows, LockedWindowAlive
<1>4. ASSUME NEW t \in Callers, Call(t) PROVE Windows'
  BY <1>4, OperationsAssumption DEF Call, SetDataSource, ResumeCall, StopCall,
    RenderFrameStop, Render, Windows, LockedWindowAlive
<1>5. ASSUME NEW t \in Callers, Locks(t) \/ ReleaseWindow(t) PROVE Windows'
  BY <1>5, OperationsAssumption DEF Locks, LockSource, LockStop, StopIgnored,
    Resume, ReleaseWindow, Windows, LockedWindowAlive
<1>6. CASE UNCHANGED vars
  BY <1>6 DEF vars, Windows, LockedWindowAlive
<1> QED
  BY <1>1, <1>2, <1>3, <1>4, <1>5, <1>6 DEF Next, Internal

\* Each action leaves exactly what its successor label says.
LEMMA StockNext == Flags /\ Values /\ Stock /\ [Next]_vars => Stock'
<1> SUFFICES ASSUME Flags, Values, Stock, [Next]_vars PROVE Stock'
  OBVIOUS
<1>1. CASE CreateContext
  <2>1. CASE held' = held \cup {"context"} /\ Goes("interrupt")
    BY <1>1, <2>1, BuffersList DEF CreateContext, Flags, Values, Stock,
      OpeningInv, ClosingInv, IdleInv, Opening, Closing, Labels, Prepared,
      Filled, Ending, Freeing, NoFrame, NoSws, NoQueue, Joined, Session1, Stops
  <2>2. CASE Fails /\ UNCHANGED held
    BY <1>1, <2>2, BuffersList DEF CreateContext, Flags, Values, Stock,
      OpeningInv, ClosingInv, IdleInv, Opening, Closing, Labels, Prepared,
      Filled, Ending, Freeing, NoFrame, NoSws, NoQueue, Joined, Session1, Stops
  <2> QED
    BY <1>1, <2>1, <2>2 DEF CreateContext
<1>2. CASE CreateInterruptCallback
  BY <1>2, BuffersList DEF CreateInterruptCallback, Flags, Values, Stock,
    OpeningInv, ClosingInv, IdleInv, Opening, Closing, Labels, Prepared,
    Filled, Ending, Freeing, NoFrame, NoSws, NoQueue, Joined, Session1, Stops
<1>3. CASE FindStream
  <2>1. CASE Goes("video_frames")
    BY <1>3, <2>1, BuffersList DEF FindStream, Flags, Values, Stock,
      OpeningInv, ClosingInv, IdleInv, Opening, Closing, Labels, Prepared,
      Filled, Ending, Freeing, NoFrame, NoSws, NoQueue, Joined, Session1, Stops
  <2>2. CASE Fails /\ UNCHANGED <<capture_streams_no, held>>
    BY <1>3, <2>2, BuffersList DEF FindStream, Flags, Values, Stock,
      OpeningInv, ClosingInv, IdleInv, Opening, Closing, Labels, Prepared,
      Filled, Ending, Freeing, NoFrame, NoSws, NoQueue, Joined, Session1, Stops
  <2> QED
    BY <1>3, <2>1, <2>2 DEF FindStream
<1>4. CASE AllocVideoFrames
  <2>1. PICK n \in 0 .. 5 : /\ held' = held \cup {VideoFrames[i] : i \in 1 .. n}
                         /\ IF n = 5 THEN Goes("frames") ELSE Fails
    BY <1>4 DEF AllocVideoFrames
  <2>2. {VideoFrames[i] : i \in 1 .. n} \subseteq Buffers
    BY DEF Buffers
  <2>3. CASE n = 5
    BY <1>4, <2>1, <2>3, BuffersList DEF AllocVideoFrames, Buffers, Flags,
      Values, Stock, OpeningInv, ClosingInv, IdleInv, Opening, Closing, Labels,
      Prepared, Filled, Ending, Freeing, NoFrame, NoSws, NoQueue, Joined,
      Session1, Stops
  <2>4. CASE n # 5
    BY <1>4, <2>1, <2>2, <2>4, BuffersList DEF AllocVideoFrames, Flags, Values,
      Stock, OpeningInv, ClosingInv, IdleInv, Opening, Closing, Labels,
      Prepared, Filled, Ending, Freeing, NoFrame, NoSws, NoQueue, Joined,
      Session1, Stops
  <2> QED
    BY <2>3, <2>4
<1>5. CASE AllocFrames
  BY <1>5, BuffersList DEF AllocFrames, Flags, Values, Stock, OpeningInv,
    ClosingInv, IdleInv, Opening, Closing, Labels, Prepared, Filled, Ending,
    Freeing, NoFrame, NoSws, NoQueue, Joined, Session1, Stops
<1>6. CASE AllocQueues
  BY <1>6, BuffersList DEF AllocQueues, Flags, Values, Stock, OpeningInv,
    ClosingInv, IdleInv, Opening, Closing, Labels, Prepared, Filled, Ending,
    Freeing, NoFrame, NoSws, NoQueue, Joined, Session1, Stops
<1>7. CASE PlayPrepare
  BY <1>7, BuffersList DEF PlayPrepare, Flags, Values, Stock, OpeningInv,
    ClosingInv, IdleInv, Opening, Closing, Labels, Prepared, Filled, Ending,
    Freeing, NoFrame, NoSws, NoQueue, Joined, Session1, Stops
<1>8. CASE CreateDecoder
  BY <1>8, BuffersList DEF CreateDecoder, Flags, Values, Stock, OpeningInv,
    ClosingInv, IdleInv, Opening, Closing, Labels, Prepared, Filled, Ending,
    Freeing, NoFrame, NoSws, NoQueue, Joined, Session1, Stops
<1>9. CASE CreateReader
  <2>1. CASE Fails
    BY <1>9, <2>1, BuffersList DEF CreateReader, Flags, Values, Stock,
      OpeningInv, ClosingInv, IdleInv, Opening, Closing, Labels, Prepared,
      Filled, Ending, Freeing, NoFrame, NoSws, NoQueue, Joined, Session1, Stops
  <2>2. CASE step' = "none"
    <3>1. playing' /\ reader' # "off" /\ UNCHANGED <<input_inited, capture_streams_no, held, decoder>>
      BY <1>9, <2>2 DEF CreateReader
    <3>2. Session1 \subseteq held /\ capture_streams_no = 1 /\ input_inited
      BY <1>9, BuffersList DEF CreateReader, Flags, Values, Stock, OpeningInv,
        ClosingInv, IdleInv, Opening, Closing, Labels, Prepared, Filled,
        Ending, Freeing, NoFrame, NoSws, NoQueue, Joined, Session1, Stops
    <3>3. decoder # "off"
      BY <1>9 DEF CreateReader, Flags, Values, Stock, OpeningInv, ClosingInv,
        IdleInv, Opening, Closing, Labels, Prepared, Filled, Ending, Freeing,
        NoFrame, NoSws, NoQueue, Joined, Session1, Stops
    <3> QED
      BY <2>2, <3>1, <3>2, <3>3 DEF Stock, OpeningInv, ClosingInv, IdleInv,
        Opening, Closing, Labels
  <2> QED
    BY <1>9, <2>1, <2>2 DEF CreateReader
<1>10. CASE OpenInput
  <2>1. CASE Goes("info") /\ input_inited' = TRUE /\ UNCHANGED held
    BY <1>10, <2>1, BuffersList DEF OpenInput, Flags, Values, Stock,
      OpeningInv, ClosingInv, IdleInv, Opening, Closing, Labels, Prepared,
      Filled, Ending, Freeing, NoFrame, NoSws, NoQueue, Joined, Session1, Stops
  <2>2. CASE Fails /\ held' \in {held, held \ {"context"}} /\ UNCHANGED input_inited
    BY <1>10, <2>2, BuffersList DEF OpenInput, Flags, Values, Stock,
      OpeningInv, ClosingInv, IdleInv, Opening, Closing, Labels, Prepared,
      Filled, Ending, Freeing, NoFrame, NoSws, NoQueue, Joined, Session1, Stops
  <2> QED
    BY <1>10, <2>1, <2>2 DEF OpenInput
<1>11. CASE FindStreamInfo
  BY <1>11, BuffersList DEF FindStreamInfo, Flags, Values, Stock, OpeningInv,
    ClosingInv, IdleInv, Opening, Closing, Labels, Prepared, Filled, Ending,
    Freeing, NoFrame, NoSws, NoQueue, Joined, Session1, Stops
<1>12. CASE ReadReturns
  BY <1>12, BuffersList DEF ReadReturns, Flags, Values, Stock, OpeningInv,
    ClosingInv, IdleInv, Opening, Closing, Labels, Prepared, Filled, Ending,
    Freeing, NoFrame, NoSws, NoQueue, Joined, Session1, Stops
<1>13. CASE StopThreads
  BY <1>13, BuffersList DEF StopThreads, Flags, Values, Stock, OpeningInv,
    ClosingInv, IdleInv, Opening, Closing, Labels, Prepared, Filled, Ending,
    Freeing, NoFrame, NoSws, NoQueue, Joined, Session1, Stops
<1>14. CASE JoinReader
  BY <1>14, BuffersList DEF JoinReader, Flags, Values, Stock, OpeningInv,
    ClosingInv, IdleInv, Opening, Closing, Labels, Prepared, Filled, Ending,
    Freeing, NoFrame, NoSws, NoQueue, Joined, Session1, Stops
<1>15. CASE JoinDecoder
  BY <1>15, BuffersList DEF JoinDecoder, Flags, Values, Stock, OpeningInv,
    ClosingInv, IdleInv, Opening, Closing, Labels, Prepared, Filled, Ending,
    Freeing, NoFrame, NoSws, NoQueue, Joined, Session1, Stops
<1>16. CASE FreeQueues
  BY <1>16, BuffersList DEF FreeQueues, Flags, Values, Stock, OpeningInv,
    ClosingInv, IdleInv, Opening, Closing, Labels, Prepared, Filled, Ending,
    Freeing, NoFrame, NoSws, NoQueue, Joined, Session1, Stops
<1>17. CASE FreeSws
  BY <1>17, BuffersList DEF FreeSws, Flags, Values, Stock, OpeningInv,
    ClosingInv, IdleInv, Opening, Closing, Labels, Prepared, Filled, Ending,
    Freeing, NoFrame, NoSws, NoQueue, Joined, Session1, Stops
<1>18. CASE FreeFrames
  BY <1>18, BuffersList DEF FreeFrames, Flags, Values, Stock, OpeningInv,
    ClosingInv, IdleInv, Opening, Closing, Labels, Prepared, Filled, Ending,
    Freeing, NoFrame, NoSws, NoQueue, Joined, Session1, Stops
<1>19. CASE FreeVideoFrames
  BY <1>19, BuffersList DEF FreeVideoFrames, Flags, Values, Stock, OpeningInv,
    ClosingInv, IdleInv, Opening, Closing, Labels, Prepared, Filled, Ending,
    Freeing, NoFrame, NoSws, NoQueue, Joined, Session1, Stops
<1>20. CASE FreeStreams
  BY <1>20, BuffersList DEF FreeStreams, Flags, Values, Stock, OpeningInv,
    ClosingInv, IdleInv, Opening, Closing, Labels, Prepared, Filled, Ending,
    Freeing, NoFrame, NoSws, NoQueue, Joined, Session1, Stops
<1>21. CASE FreeInput
  BY <1>21, BuffersList DEF FreeInput, Flags, Values, Stock, OpeningInv,
    ClosingInv, IdleInv, Opening, Closing, Labels, Prepared, Filled, Ending,
    Freeing, NoFrame, NoSws, NoQueue, Joined, Session1, Stops
<1>22. CASE FreeContext
  BY <1>22, BuffersList DEF FreeContext, Flags, Values, Stock, OpeningInv,
    ClosingInv, IdleInv, Opening, Closing, Labels, Prepared, Filled, Ending,
    Freeing, NoFrame, NoSws, NoQueue, Joined, Session1, Stops
<1>23. CASE ReaderAttaches
  BY <1>23, BuffersList DEF ReaderAttaches, Flags, Values, Stock, OpeningInv,
    ClosingInv, IdleInv, Opening, Closing, Labels, Prepared, Filled, Ending,
    Freeing, NoFrame, NoSws, NoQueue, Joined, Session1, Stops
<1>24. CASE ReaderStops
  BY <1>24, BuffersList DEF ReaderStops, Flags, Values, Stock, OpeningInv,
    ClosingInv, IdleInv, Opening, Closing, Labels, Prepared, Filled, Ending,
    Freeing, NoFrame, NoSws, NoQueue, Joined, Session1, Stops
<1>25. CASE ReaderEnds
  BY <1>25, BuffersList DEF ReaderEnds, Flags, Values, Stock, OpeningInv,
    ClosingInv, IdleInv, Opening, Closing, Labels, Prepared, Filled, Ending,
    Freeing, NoFrame, NoSws, NoQueue, Joined, Session1, Stops
<1>26. CASE ReadAgain
  BY <1>26, BuffersList DEF ReadAgain, Flags, Values, Stock, OpeningInv,
    ClosingInv, IdleInv, Opening, Closing, Labels, Prepared, Filled, Ending,
    Freeing, NoFrame, NoSws, NoQueue, Joined, Session1, Stops
<1>27. CASE DecoderAttaches
  BY <1>27, BuffersList DEF DecoderAttaches, Flags, Values, Stock, OpeningInv,
    ClosingInv, IdleInv, Opening, Closing, Labels, Prepared, Filled, Ending,
    Freeing, NoFrame, NoSws, NoQueue, Joined, Session1, Stops
<1>28. CASE DecoderDraws
  BY <1>28, BuffersList DEF DecoderDraws, Flags, Values, Stock, OpeningInv,
    ClosingInv, IdleInv, Opening, Closing, Labels, Prepared, Filled, Ending,
    Freeing, NoFrame, NoSws, NoQueue, Joined, Session1, Stops
<1>29. CASE DecoderSkips
  BY <1>29, BuffersList DEF DecoderSkips, Flags, Values, Stock, OpeningInv,
    ClosingInv, IdleInv, Opening, Closing, Labels, Prepared, Filled, Ending,
    Freeing, NoFrame, NoSws, NoQueue, Joined, Session1, Stops
<1>30. CASE DecoderPosts
  BY <1>30, BuffersList DEF DecoderPosts, Flags, Values, Stock, OpeningInv,
    ClosingInv, IdleInv, Opening, Closing, Labels, Prepared, Filled, Ending,
    Freeing, NoFrame, NoSws, NoQueue, Joined, Session1, Stops
<1>31. CASE DecoderEnds
  BY <1>31, BuffersList DEF DecoderEnds, Flags, Values, Stock, OpeningInv,
    ClosingInv, IdleInv, Opening, Closing, Labels, Prepared, Filled, Ending,
    Freeing, NoFrame, NoSws, NoQueue, Joined, Session1, Stops
<1>32. CASE DecoderTakes
  BY <1>32, BuffersList DEF DecoderTakes, Flags, Values, Stock, OpeningInv,
    ClosingInv, IdleInv, Opening, Closing, Labels, Prepared, Filled, Ending,
    Freeing, NoFrame, NoSws, NoQueue, Joined, Session1, Stops
<1>33. CASE DecoderDies
  BY <1>33, BuffersList DEF DecoderDies, Flags, Values, Stock, OpeningInv,
    ClosingInv, IdleInv, Opening, Closing, Labels, Prepared, Filled, Ending,
    Freeing, NoFrame, NoSws, NoQueue, Joined, Session1, Stops
<1>34. ASSUME NEW t \in Callers, SetDataSource(t) PROVE Stock'
  BY <1>34, BuffersList, OperationsAssumption DEF SetDataSource, Flags, Values,
    Stock, OpeningInv, ClosingInv, IdleInv, Opening, Closing, Labels, Prepared,
    Filled, Ending, Freeing, NoFrame, NoSws, NoQueue, Joined, Session1, Stops
<1>35. ASSUME NEW t \in Callers, ResumeCall(t) PROVE Stock'
  BY <1>35, BuffersList, OperationsAssumption DEF ResumeCall, Flags, Values,
    Stock, OpeningInv, ClosingInv, IdleInv, Opening, Closing, Labels, Prepared,
    Filled, Ending, Freeing, NoFrame, NoSws, NoQueue, Joined, Session1, Stops
<1>36. ASSUME NEW t \in Callers, StopCall(t) PROVE Stock'
  BY <1>36, BuffersList, OperationsAssumption DEF StopCall, Flags, Values,
    Stock, OpeningInv, ClosingInv, IdleInv, Opening, Closing, Labels, Prepared,
    Filled, Ending, Freeing, NoFrame, NoSws, NoQueue, Joined, Session1, Stops
<1>37. ASSUME NEW t \in Callers, RenderFrameStop(t) PROVE Stock'
  BY <1>37, BuffersList, OperationsAssumption DEF RenderFrameStop, Flags,
    Values, Stock, OpeningInv, ClosingInv, IdleInv, Opening, Closing, Labels,
    Prepared, Filled, Ending, Freeing, NoFrame, NoSws, NoQueue, Joined,
    Session1, Stops
<1>38. ASSUME NEW t \in Callers, LockSource(t) PROVE Stock'
  BY <1>38, BuffersList, OperationsAssumption DEF LockSource, Flags, Values,
    Stock, OpeningInv, ClosingInv, IdleInv, Opening, Closing, Labels, Prepared,
    Filled, Ending, Freeing, NoFrame, NoSws, NoQueue, Joined, Session1, Stops
<1>39. ASSUME NEW t \in Callers, LockStop(t) PROVE Stock'
  BY <1>39, BuffersList, OperationsAssumption DEF LockStop, Flags, Values,
    Stock, OpeningInv, ClosingInv, IdleInv, Opening, Closing, Labels, Prepared,
    Filled, Ending, Freeing, NoFrame, NoSws, NoQueue, Joined, Session1, Stops
<1>40. ASSUME NEW t \in Callers, StopIgnored(t) PROVE Stock'
  BY <1>40, BuffersList, OperationsAssumption DEF StopIgnored, Flags, Values,
    Stock, OpeningInv, ClosingInv, IdleInv, Opening, Closing, Labels, Prepared,
    Filled, Ending, Freeing, NoFrame, NoSws, NoQueue, Joined, Session1, Stops
<1>41. ASSUME NEW t \in Callers, Resume(t) PROVE Stock'
  BY <1>41, BuffersList, OperationsAssumption DEF Resume, Flags, Values, Stock,
    OpeningInv, ClosingInv, IdleInv, Opening, Closing, Labels, Prepared,
    Filled, Ending, Freeing, NoFrame, NoSws, NoQueue, Joined, Session1, Stops
<1>42. ASSUME NEW t \in Callers, ReleaseWindow(t) PROVE Stock'
  BY <1>42, BuffersList, OperationsAssumption DEF ReleaseWindow, Flags, Values,
    Stock, OpeningInv, ClosingInv, IdleInv, Opening, Closing, Labels, Prepared,
    Filled, Ending, Freeing, NoFrame, NoSws, NoQueue, Joined, Session1, Stops
<1>43. ASSUME NEW t \in Callers, NEW s \in Surfaces, Render(t, s) PROVE Stock'
  BY <1>43, BuffersList DEF Render, Flags, Values, Stock, OpeningInv,
    ClosingInv, IdleInv, Opening, Closing, Labels, Prepared, Filled, Ending,
    Freeing, NoFrame, NoSws, NoQueue, Joined, Session1, Stops
<1>44. CASE UNCHANGED vars
  BY <1>44, BuffersList DEF vars, Flags, Values, Stock, OpeningInv, ClosingInv,
    IdleInv, Opening, Closing, Labels, Prepared, Filled, Ending, Freeing,
    NoFrame, NoSws, NoQueue, Joined, Session1, Stops
<1> QED
  BY <1>1, <1>2, <1>3, <1>4, <1>5, <1>6, <1>7, <1>8, <1>9, <1>10, <1>11, <1>12,
    <1>13, <1>14, <1>15, <1>16, <1>17, <1>18, <1>19, <1>20, <1>21, <1>22,
    <1>23, <1>24, <1>25, <1>26, <1>27, <1>28, <1>29, <1>30, <1>31, <1>32,
    <1>33, <1>34, <1>35, <1>36, <1>37, <1>38, <1>39, <1>40, <1>41, <1>42,
    <1>43, <1>44 DEF Next, Internal, Call, Locks, Blocking, Stages,
    ReaderWorks, DecoderWorks

LEMMA InitIInv == Init => IInv
<1> SUFFICES ASSUME Init PROVE IInv
  OBVIOUS
<1>1. Flags
  BY DEF Init, Flags
<1>2. Values
  BY DEF Init, Values, Labels
<1>3. Windows
  BY OperationsAssumption DEF Init, Windows, LockedWindowAlive
<1>4. Stock
  BY DEF Init, Stock, OpeningInv, ClosingInv, IdleInv, Opening, Closing
<1> QED
  BY <1>1, <1>2, <1>3, <1>4 DEF IInv

LEMMA Inductive == Spec => []IInv
<1>1. IInv /\ [Next]_vars => IInv'
  BY FlagsNext, ValuesNext, WindowsNext, StockNext DEF IInv
<1> QED
  BY InitIInv, <1>1, PTL DEF Spec

-----------------------------------------------------------------------------
(* What follows from it.                                                     *)

\* The variables keep their types, and never is a second stream captured.
\* (player.h:156-231; player.c:524-567)
THEOREM TypeCorrect == Spec => []TypeOK
<1>1. IInv => TypeOK
  BY DEF IInv, Flags, Values, Windows, TypeOK
<1> QED
  BY Inductive, <1>1, PTL

\* Whichever stages fail, and however sessions are stopped or replaced, the
\* player holds a whole session or nothing between two operations.
\* (player.c:195-371, 400-424)
THEOREM Balanced == Spec => []SessionBalanced
<1>1. ASSUME IInv PROVE SessionBalanced
  <2>1. CASE operation # None
    BY <2>1 DEF SessionBalanced
  <2>2. CASE operation = None
    <3>1. step = "none" /\ held \subseteq Session1 \cup {"sws"} /\ "sws" \notin Session1
      BY <1>1, <2>2, BuffersList DEF IInv, Values, Session1
    <3> QED
      BY <1>1, <3>1 DEF IInv, Stock, IdleInv, SessionBalanced
  <2> QED
    BY <2>1, <2>2
<1> QED
  BY Inductive, <1>1, PTL

\* Nothing is released while a thread uses it.
\* (decode.c:78-240, 656-810; player.c:745-837)
THEOREM UsersServed == Spec => []NothingDangles
<1>1. ASSUME IInv PROVE NothingDangles
  <2>1. CASE step \in Opening
    BY <1>1, <2>1, BuffersList DEF IInv, Stock, NothingDangles, OpeningInv,
      Opening, Closing, Labels, Prepared, Filled, Ending, Freeing, NoFrame,
      NoSws, NoQueue, Joined, Session1, Stops
  <2>2. CASE step \in Closing
    BY <1>1, <2>2, BuffersList DEF IInv, Values, Stock, NothingDangles,
      ClosingInv, Opening, Closing, Labels, Prepared, Filled, Ending, Freeing,
      NoFrame, NoSws, NoQueue, Joined, Session1, Stops
  <2>3. CASE step = "none"
    BY <1>1, <2>3, BuffersList DEF IInv, Stock, NothingDangles, IdleInv,
      Opening, Closing, Labels, Prepared, Filled, Ending, Freeing, NoFrame,
      NoSws, NoQueue, Joined, Session1, Stops
  <2> QED
    BY <1>1, <2>1, <2>2, <2>3 DEF IInv, Values, Closing
<1> QED
  BY Inductive, <1>1, PTL

\* The window a decoder has locked is alive, whatever surfaces come and go.
\* (player.c:1076-1117; decode.c:307-318, 514)
THEOREM WindowAlive == Spec => []LockedWindowAlive
<1>1. IInv => LockedWindowAlive
  BY DEF IInv, Windows
<1> QED
  BY Inductive, <1>1, PTL

\* When player_stop returns the threads are gone.  (player.c:1059-1073)
THEOREM Quiescent == Spec => StopQuiesces
<1> DEFINE Over(t) == op[t] \in Stops /\ op'[t] \notin Stops
           Quiet   == ~playing' /\ reader' = "off" /\ decoder' = "off" /\ drawing' = None
<1>1. ASSUME IInv, [Next]_vars, NEW t \in Callers, Over(t) PROVE Quiet
  <2>0. Values /\ Windows /\ Stock /\ Windows'
    BY <1>1, WindowsNext DEF IInv
  <2>1. CASE Stages
    <3>1. FreeContext
      <4>1. CASE CreateReader
        BY <1>1, <2>0, <4>1 DEF CreateReader, Values, Stock, OpeningInv, Opening, Stops
      <4>2. CASE ~CreateReader /\ ~FreeContext
        <5>1. op' = op
          BY <2>1, <4>2 DEF Stages, CreateContext, CreateInterruptCallback,
            FindStream, AllocVideoFrames, AllocFrames, AllocQueues,
            PlayPrepare, CreateDecoder, StopThreads, JoinReader, JoinDecoder,
            FreeQueues, FreeSws, FreeFrames, FreeVideoFrames, FreeStreams,
            FreeInput
        <5> QED
          BY <1>1, <5>1
      <4> QED
        BY <4>1, <4>2
    <3>2. reader' = "off" /\ decoder' = "off" /\ ~playing'
      BY <2>0, <3>1 DEF FreeContext, Stock, ClosingInv, IdleInv, Closing,
        Labels, Opening, Joined, NoQueue, NoSws, NoFrame, Freeing, Ending
    <3> QED
      BY <2>0, <3>2 DEF Windows
  <2>2. CASE \E u \in Callers : Locks(u) \/ ReleaseWindow(u)
    <3>1. PICK u \in Callers : Locks(u) \/ ReleaseWindow(u)
      BY <2>2
    <3>2. StopIgnored(u)
      BY <1>1, <2>0, <3>1 DEF Locks, LockSource, LockStop, Resume,
        ReleaseWindow, Values, Stops
    <3> QED
      BY <2>0, <3>2 DEF StopIgnored, Values, Windows, Stock, IdleInv
  <2>3. CASE \E u \in Callers : Call(u)
    <3>1. op' = op \/ \E u \in Callers : op[u] = "none" /\ \E w : op' = [op EXCEPT ![u] = w]
      BY <2>3 DEF Call, SetDataSource, ResumeCall, StopCall, RenderFrameStop,
        Render
    <3> QED
      BY <1>1, <2>0, <3>1 DEF Values, Stops
  <2>4. ASSUME op' = op PROVE Quiet
    BY <1>1, <2>4
  <2> QED
    BY <1>1, <2>1, <2>2, <2>3, <2>4 DEF Next, Internal, vars, OpenInput,
      FindStreamInfo, ReadReturns, Blocking, ReaderWorks, DecoderWorks,
      ReaderAttaches, ReaderStops, ReaderEnds, ReadAgain, DecoderAttaches,
      DecoderDraws, DecoderSkips, DecoderPosts, DecoderEnds, DecoderTakes,
      DecoderDies
<1>2. IInv /\ [Next]_vars => [\A t \in Callers : Over(t) => Quiet]_vars
  BY <1>1
<1> QED
  BY Inductive, <1>2, PTL DEF Spec, StopQuiesces

-----------------------------------------------------------------------------
(* The refinement: Phase, Live and the queue as phase, workers and store of  *)
(* Session.                                                                  *)

\* Every step is one of a Session, or changes nothing a Session shows.
LEMMA SessionStep == IInv /\ [Next]_vars => [S!Next]_(S!vars)
<1> SUFFICES ASSUME IInv, [Next]_vars PROVE [S!Next]_(S!vars)
  OBVIOUS
<1>0. Values /\ Stock
  BY DEF IInv
<1>1. CASE CreateContext
  BY <1>0, <1>1, BuffersList DEF CreateContext, Values, Stock, OpeningInv,
    ClosingInv, IdleInv, S!Next, S!Open, S!CreateStore, S!Start, S!Leave,
    S!Close, S!DestroyStore, S!Closed, S!vars, Phase, Live, Opening, Closing,
    Labels, Prepared, Filled, Ending, Freeing, NoFrame, NoSws, NoQueue, Joined,
    Session1, Stops
<1>2. CASE CreateInterruptCallback
  BY <1>0, <1>2, BuffersList DEF CreateInterruptCallback, Values, Stock,
    OpeningInv, ClosingInv, IdleInv, S!Next, S!Open, S!CreateStore, S!Start,
    S!Leave, S!Close, S!DestroyStore, S!Closed, S!vars, Phase, Live, Opening,
    Closing, Labels, Prepared, Filled, Ending, Freeing, NoFrame, NoSws,
    NoQueue, Joined, Session1, Stops
<1>3. CASE FindStream
  BY <1>0, <1>3, BuffersList DEF FindStream, Values, Stock, OpeningInv,
    ClosingInv, IdleInv, S!Next, S!Open, S!CreateStore, S!Start, S!Leave,
    S!Close, S!DestroyStore, S!Closed, S!vars, Phase, Live, Opening, Closing,
    Labels, Prepared, Filled, Ending, Freeing, NoFrame, NoSws, NoQueue, Joined,
    Session1, Stops
<1>4. CASE AllocVideoFrames
  <2>1. UNCHANGED <<reader, decoder>> /\ step \in Opening /\ step' \in {"frames", "stop_threads"}
    BY <1>4 DEF AllocVideoFrames, Opening
  <2>2. "queue" \in held' <=> "queue" \in held
    BY <1>4, BuffersList DEF AllocVideoFrames, Buffers
  <2> QED
    BY <2>1, <2>2 DEF S!Next, S!Open, S!CreateStore, S!Start, S!Leave, S!Close,
      S!DestroyStore, S!Closed, S!vars, Phase, Live, Opening, Labels
<1>5. CASE AllocFrames
  BY <1>0, <1>5, BuffersList DEF AllocFrames, Values, Stock, OpeningInv,
    ClosingInv, IdleInv, S!Next, S!Open, S!CreateStore, S!Start, S!Leave,
    S!Close, S!DestroyStore, S!Closed, S!vars, Phase, Live, Opening, Closing,
    Labels, Prepared, Filled, Ending, Freeing, NoFrame, NoSws, NoQueue, Joined,
    Session1, Stops
<1>6. CASE AllocQueues
  BY <1>0, <1>6, BuffersList DEF AllocQueues, Values, Stock, OpeningInv,
    ClosingInv, IdleInv, S!Next, S!Open, S!CreateStore, S!Start, S!Leave,
    S!Close, S!DestroyStore, S!Closed, S!vars, Phase, Live, Opening, Closing,
    Labels, Prepared, Filled, Ending, Freeing, NoFrame, NoSws, NoQueue, Joined,
    Session1, Stops
<1>7. CASE PlayPrepare
  BY <1>0, <1>7, BuffersList DEF PlayPrepare, Values, Stock, OpeningInv,
    ClosingInv, IdleInv, S!Next, S!Open, S!CreateStore, S!Start, S!Leave,
    S!Close, S!DestroyStore, S!Closed, S!vars, Phase, Live, Opening, Closing,
    Labels, Prepared, Filled, Ending, Freeing, NoFrame, NoSws, NoQueue, Joined,
    Session1, Stops
<1>8. CASE CreateDecoder
  BY <1>0, <1>8, BuffersList DEF CreateDecoder, Values, Stock, OpeningInv,
    ClosingInv, IdleInv, S!Next, S!Open, S!CreateStore, S!Start, S!Leave,
    S!Close, S!DestroyStore, S!Closed, S!vars, Phase, Live, Opening, Closing,
    Labels, Prepared, Filled, Ending, Freeing, NoFrame, NoSws, NoQueue, Joined,
    Session1, Stops
<1>9. CASE CreateReader
  BY <1>0, <1>9, BuffersList DEF CreateReader, Values, Stock, OpeningInv,
    ClosingInv, IdleInv, S!Next, S!Open, S!CreateStore, S!Start, S!Leave,
    S!Close, S!DestroyStore, S!Closed, S!vars, Phase, Live, Opening, Closing,
    Labels, Prepared, Filled, Ending, Freeing, NoFrame, NoSws, NoQueue, Joined,
    Session1, Stops
<1>10. CASE OpenInput
  BY <1>0, <1>10, BuffersList DEF OpenInput, Values, Stock, OpeningInv,
    ClosingInv, IdleInv, S!Next, S!Open, S!CreateStore, S!Start, S!Leave,
    S!Close, S!DestroyStore, S!Closed, S!vars, Phase, Live, Opening, Closing,
    Labels, Prepared, Filled, Ending, Freeing, NoFrame, NoSws, NoQueue, Joined,
    Session1, Stops
<1>11. CASE FindStreamInfo
  BY <1>0, <1>11, BuffersList DEF FindStreamInfo, Values, Stock, OpeningInv,
    ClosingInv, IdleInv, S!Next, S!Open, S!CreateStore, S!Start, S!Leave,
    S!Close, S!DestroyStore, S!Closed, S!vars, Phase, Live, Opening, Closing,
    Labels, Prepared, Filled, Ending, Freeing, NoFrame, NoSws, NoQueue, Joined,
    Session1, Stops
<1>12. CASE StopThreads
  BY <1>0, <1>12, BuffersList DEF StopThreads, Values, Stock, OpeningInv,
    ClosingInv, IdleInv, S!Next, S!Open, S!CreateStore, S!Start, S!Leave,
    S!Close, S!DestroyStore, S!Closed, S!vars, Phase, Live, Opening, Closing,
    Labels, Prepared, Filled, Ending, Freeing, NoFrame, NoSws, NoQueue, Joined,
    Session1, Stops
<1>13. CASE JoinReader
  BY <1>0, <1>13, BuffersList DEF JoinReader, Values, Stock, OpeningInv,
    ClosingInv, IdleInv, S!Next, S!Open, S!CreateStore, S!Start, S!Leave,
    S!Close, S!DestroyStore, S!Closed, S!vars, Phase, Live, Opening, Closing,
    Labels, Prepared, Filled, Ending, Freeing, NoFrame, NoSws, NoQueue, Joined,
    Session1, Stops
<1>14. CASE JoinDecoder
  BY <1>0, <1>14, BuffersList DEF JoinDecoder, Values, Stock, OpeningInv,
    ClosingInv, IdleInv, S!Next, S!Open, S!CreateStore, S!Start, S!Leave,
    S!Close, S!DestroyStore, S!Closed, S!vars, Phase, Live, Opening, Closing,
    Labels, Prepared, Filled, Ending, Freeing, NoFrame, NoSws, NoQueue, Joined,
    Session1, Stops
<1>15. CASE FreeQueues
  BY <1>0, <1>15, BuffersList DEF FreeQueues, Values, Stock, OpeningInv,
    ClosingInv, IdleInv, S!Next, S!Open, S!CreateStore, S!Start, S!Leave,
    S!Close, S!DestroyStore, S!Closed, S!vars, Phase, Live, Opening, Closing,
    Labels, Prepared, Filled, Ending, Freeing, NoFrame, NoSws, NoQueue, Joined,
    Session1, Stops
<1>16. CASE FreeSws
  BY <1>0, <1>16, BuffersList DEF FreeSws, Values, Stock, OpeningInv,
    ClosingInv, IdleInv, S!Next, S!Open, S!CreateStore, S!Start, S!Leave,
    S!Close, S!DestroyStore, S!Closed, S!vars, Phase, Live, Opening, Closing,
    Labels, Prepared, Filled, Ending, Freeing, NoFrame, NoSws, NoQueue, Joined,
    Session1, Stops
<1>17. CASE FreeFrames
  BY <1>0, <1>17, BuffersList DEF FreeFrames, Values, Stock, OpeningInv,
    ClosingInv, IdleInv, S!Next, S!Open, S!CreateStore, S!Start, S!Leave,
    S!Close, S!DestroyStore, S!Closed, S!vars, Phase, Live, Opening, Closing,
    Labels, Prepared, Filled, Ending, Freeing, NoFrame, NoSws, NoQueue, Joined,
    Session1, Stops
<1>18. CASE FreeVideoFrames
  BY <1>0, <1>18, BuffersList DEF FreeVideoFrames, Values, Stock, OpeningInv,
    ClosingInv, IdleInv, S!Next, S!Open, S!CreateStore, S!Start, S!Leave,
    S!Close, S!DestroyStore, S!Closed, S!vars, Phase, Live, Opening, Closing,
    Labels, Prepared, Filled, Ending, Freeing, NoFrame, NoSws, NoQueue, Joined,
    Session1, Stops
<1>19. CASE FreeStreams
  BY <1>0, <1>19, BuffersList DEF FreeStreams, Values, Stock, OpeningInv,
    ClosingInv, IdleInv, S!Next, S!Open, S!CreateStore, S!Start, S!Leave,
    S!Close, S!DestroyStore, S!Closed, S!vars, Phase, Live, Opening, Closing,
    Labels, Prepared, Filled, Ending, Freeing, NoFrame, NoSws, NoQueue, Joined,
    Session1, Stops
<1>20. CASE FreeInput
  BY <1>0, <1>20, BuffersList DEF FreeInput, Values, Stock, OpeningInv,
    ClosingInv, IdleInv, S!Next, S!Open, S!CreateStore, S!Start, S!Leave,
    S!Close, S!DestroyStore, S!Closed, S!vars, Phase, Live, Opening, Closing,
    Labels, Prepared, Filled, Ending, Freeing, NoFrame, NoSws, NoQueue, Joined,
    Session1, Stops
<1>21. CASE FreeContext
  BY <1>0, <1>21, BuffersList DEF FreeContext, Values, Stock, OpeningInv,
    ClosingInv, IdleInv, S!Next, S!Open, S!CreateStore, S!Start, S!Leave,
    S!Close, S!DestroyStore, S!Closed, S!vars, Phase, Live, Opening, Closing,
    Labels, Prepared, Filled, Ending, Freeing, NoFrame, NoSws, NoQueue, Joined,
    Session1, Stops
<1>22. CASE ReaderAttaches
  BY <1>0, <1>22, BuffersList DEF ReaderAttaches, Values, Stock, OpeningInv,
    ClosingInv, IdleInv, S!Next, S!Open, S!CreateStore, S!Start, S!Leave,
    S!Close, S!DestroyStore, S!Closed, S!vars, Phase, Live, Opening, Closing,
    Labels, Prepared, Filled, Ending, Freeing, NoFrame, NoSws, NoQueue, Joined,
    Session1, Stops
<1>23. CASE ReaderStops
  BY <1>0, <1>23, BuffersList DEF ReaderStops, Values, Stock, OpeningInv,
    ClosingInv, IdleInv, S!Next, S!Open, S!CreateStore, S!Start, S!Leave,
    S!Close, S!DestroyStore, S!Closed, S!vars, Phase, Live, Opening, Closing,
    Labels, Prepared, Filled, Ending, Freeing, NoFrame, NoSws, NoQueue, Joined,
    Session1, Stops
<1>24. CASE ReaderEnds
  BY <1>0, <1>24, BuffersList DEF ReaderEnds, Values, Stock, OpeningInv,
    ClosingInv, IdleInv, S!Next, S!Open, S!CreateStore, S!Start, S!Leave,
    S!Close, S!DestroyStore, S!Closed, S!vars, Phase, Live, Opening, Closing,
    Labels, Prepared, Filled, Ending, Freeing, NoFrame, NoSws, NoQueue, Joined,
    Session1, Stops
<1>25. CASE ReadAgain
  BY <1>0, <1>25, BuffersList DEF ReadAgain, Values, Stock, OpeningInv,
    ClosingInv, IdleInv, S!Next, S!Open, S!CreateStore, S!Start, S!Leave,
    S!Close, S!DestroyStore, S!Closed, S!vars, Phase, Live, Opening, Closing,
    Labels, Prepared, Filled, Ending, Freeing, NoFrame, NoSws, NoQueue, Joined,
    Session1, Stops
<1>26. CASE ReadReturns
  BY <1>0, <1>26, BuffersList DEF ReadReturns, Values, Stock, OpeningInv,
    ClosingInv, IdleInv, S!Next, S!Open, S!CreateStore, S!Start, S!Leave,
    S!Close, S!DestroyStore, S!Closed, S!vars, Phase, Live, Opening, Closing,
    Labels, Prepared, Filled, Ending, Freeing, NoFrame, NoSws, NoQueue, Joined,
    Session1, Stops
<1>27. CASE DecoderAttaches
  BY <1>0, <1>27, BuffersList DEF DecoderAttaches, Values, Stock, OpeningInv,
    ClosingInv, IdleInv, S!Next, S!Open, S!CreateStore, S!Start, S!Leave,
    S!Close, S!DestroyStore, S!Closed, S!vars, Phase, Live, Opening, Closing,
    Labels, Prepared, Filled, Ending, Freeing, NoFrame, NoSws, NoQueue, Joined,
    Session1, Stops
<1>28. CASE DecoderDraws
  BY <1>0, <1>28, BuffersList DEF DecoderDraws, Values, Stock, OpeningInv,
    ClosingInv, IdleInv, S!Next, S!Open, S!CreateStore, S!Start, S!Leave,
    S!Close, S!DestroyStore, S!Closed, S!vars, Phase, Live, Opening, Closing,
    Labels, Prepared, Filled, Ending, Freeing, NoFrame, NoSws, NoQueue, Joined,
    Session1, Stops
<1>29. CASE DecoderSkips
  BY <1>0, <1>29, BuffersList DEF DecoderSkips, Values, Stock, OpeningInv,
    ClosingInv, IdleInv, S!Next, S!Open, S!CreateStore, S!Start, S!Leave,
    S!Close, S!DestroyStore, S!Closed, S!vars, Phase, Live, Opening, Closing,
    Labels, Prepared, Filled, Ending, Freeing, NoFrame, NoSws, NoQueue, Joined,
    Session1, Stops
<1>30. CASE DecoderPosts
  BY <1>0, <1>30, BuffersList DEF DecoderPosts, Values, Stock, OpeningInv,
    ClosingInv, IdleInv, S!Next, S!Open, S!CreateStore, S!Start, S!Leave,
    S!Close, S!DestroyStore, S!Closed, S!vars, Phase, Live, Opening, Closing,
    Labels, Prepared, Filled, Ending, Freeing, NoFrame, NoSws, NoQueue, Joined,
    Session1, Stops
<1>31. CASE DecoderEnds
  BY <1>0, <1>31, BuffersList DEF DecoderEnds, Values, Stock, OpeningInv,
    ClosingInv, IdleInv, S!Next, S!Open, S!CreateStore, S!Start, S!Leave,
    S!Close, S!DestroyStore, S!Closed, S!vars, Phase, Live, Opening, Closing,
    Labels, Prepared, Filled, Ending, Freeing, NoFrame, NoSws, NoQueue, Joined,
    Session1, Stops
<1>32. CASE DecoderTakes
  BY <1>0, <1>32, BuffersList DEF DecoderTakes, Values, Stock, OpeningInv,
    ClosingInv, IdleInv, S!Next, S!Open, S!CreateStore, S!Start, S!Leave,
    S!Close, S!DestroyStore, S!Closed, S!vars, Phase, Live, Opening, Closing,
    Labels, Prepared, Filled, Ending, Freeing, NoFrame, NoSws, NoQueue, Joined,
    Session1, Stops
<1>33. CASE DecoderDies
  BY <1>0, <1>33, BuffersList DEF DecoderDies, Values, Stock, OpeningInv,
    ClosingInv, IdleInv, S!Next, S!Open, S!CreateStore, S!Start, S!Leave,
    S!Close, S!DestroyStore, S!Closed, S!vars, Phase, Live, Opening, Closing,
    Labels, Prepared, Filled, Ending, Freeing, NoFrame, NoSws, NoQueue, Joined,
    Session1, Stops
<1>34. ASSUME NEW t \in Callers, LockSource(t) PROVE [S!Next]_(S!vars)
  BY <1>0, <1>34, OperationsAssumption DEF LockSource, Values, Stock,
    OpeningInv, ClosingInv, IdleInv, S!Next, S!Open, S!CreateStore, S!Start,
    S!Leave, S!Close, S!DestroyStore, S!Closed, S!vars, Phase, Live, Opening,
    Closing, Labels, Prepared, Filled, Ending, Freeing, NoFrame, NoSws,
    NoQueue, Joined, Session1, Stops
<1>35. ASSUME NEW t \in Callers, LockStop(t) PROVE [S!Next]_(S!vars)
  BY <1>0, <1>35, OperationsAssumption DEF LockStop, Values, Stock, OpeningInv,
    ClosingInv, IdleInv, S!Next, S!Open, S!CreateStore, S!Start, S!Leave,
    S!Close, S!DestroyStore, S!Closed, S!vars, Phase, Live, Opening, Closing,
    Labels, Prepared, Filled, Ending, Freeing, NoFrame, NoSws, NoQueue, Joined,
    Session1, Stops
<1>36. CASE UNCHANGED <<step, playing, held, reader, decoder>>
  BY <1>36 DEF S!Next, S!Open, S!CreateStore, S!Start, S!Leave, S!Close,
    S!DestroyStore, S!Closed, S!vars, Phase, Live
<1> QED
  BY <1>1, <1>2, <1>3, <1>4, <1>5, <1>6, <1>7, <1>8, <1>9, <1>10, <1>11, <1>12,
    <1>13, <1>14, <1>15, <1>16, <1>17, <1>18, <1>19, <1>20, <1>21, <1>22,
    <1>23, <1>24, <1>25, <1>26, <1>27, <1>28, <1>29, <1>30, <1>31, <1>32,
    <1>33, <1>34, <1>35, <1>36 DEF Next, Internal, vars, Call, SetDataSource,
    ResumeCall, StopCall, RenderFrameStop, Render, Locks, StopIgnored, Resume,
    ReleaseWindow, Blocking, Stages, ReaderWorks, DecoderWorks

\* The operations are a Session, whatever fails: threads only while it is open
\* or being opened or closed, the queue there before them and after them.
\* (player.c:195-371, 400-424, 745-780; decode.c:36-76)
THEOREM Refinement == Spec => ImplementsSession
<1>1. Init => S!Init
  BY DEF Init, S!Init, Phase, Live, Opening, Labels
<1>2. IInv /\ [Next]_vars => [S!Next]_(S!vars)
  BY SessionStep
<1> QED
  BY Inductive, <1>1, <1>2, PTL DEF Spec, ImplementsSession, S!Spec

SP == INSTANCE SessionProofs
        WITH Threads <- {"reader", "decoder"}, phase <- Phase, workers <- Live,
             store <- "queue" \in held

\* Whoever calls and whatever fails, a thread that has not ended has the queue,
\* and a closed player has neither.  (player.c:195-430; decode.c:36-76)
THEOREM QueueOutlivesThreads == Spec => []S!WorkersHaveStore
<1>1. S!Init <=> SP!Init
  BY DEF S!Init, SP!Init
<1>2. [S!Next]_S!vars <=> [SP!Next]_SP!vars
  BY DEF S!Next, SP!Next, S!vars, SP!vars, S!Open, SP!Open, S!CreateStore,
    SP!CreateStore, S!Start, SP!Start, S!Leave, SP!Leave, S!Close, SP!Close,
    S!DestroyStore, SP!DestroyStore, S!Closed, SP!Closed
<1>3. S!WorkersHaveStore <=> SP!WorkersHaveStore
  BY DEF S!WorkersHaveStore, SP!WorkersHaveStore
<1>4. SP!Spec => []SP!WorkersHaveStore
  BY SP!StoreOutlivesWorkers
<1> QED BY Refinement, <1>1, <1>2, <1>3, <1>4, PTL
  DEF ImplementsSession, S!Spec, SP!Spec
=============================================================================

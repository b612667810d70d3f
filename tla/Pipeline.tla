------------------------------ MODULE Pipeline ------------------------------
(* The threads of one player: player_read_from_stream (the reader), one      *)
(* player_decode (the decoder) and the thread that runs the operations of    *)
(* player.c under mutex_operation (the controller).  They share the packet   *)
(* queue, the flags stop, stop_streams and pause, one mutex (mutex_queue)    *)
(* and one condition variable.  A critical section is one action unless it   *)
(* touches the queue several times: mutex_queue then names its holder.       *)
(* Decoding, the window and the clock are nondeterministic.                  *)
EXTENDS Integers, FiniteSets

CONSTANTS Size,        \* elements of the packet queue
          MaxPackets,  \* bound: packets read between two calls of open_input
          Foreign,     \* packets of streams that are not captured
          Faults       \* what may fail, a subset of FaultKinds

FaultKinds == {"create_decoder", "create_reader", "attach_decoder",
               "attach_reader", "decode", "uninit", "dup"}

ASSUME PipelineAssumption ==
  /\ Size \in Nat \ {0} /\ MaxPackets \in Nat
  /\ Foreign \subseteq 1 .. MaxPackets /\ Faults \subseteq FaultKinds

Reader   == "reader"
Decoder  == "decoder"
Ctrl     == "ctrl"
NoThread == "nobody"

Packets  == 1 .. MaxPackets
Empty    == 0      \* an AVPacket without data
Garbage  == -1     \* an AVPacket nobody ever wrote
Contents == [eos: BOOLEAN, pkt: Packets \cup {Empty, Garbage}]

VARIABLES
  live, next_to_write, next_to_read, ready, in_read, elem, to_write, waiting,
  mutex_queue,    \* who is inside a critical section of several steps
  stop, stop_streams, pause, interrupt,      \* fields of struct Player
  rpc, rpkt,      \* reader: label, and its local AVPacket
  dpc, derr,      \* decoder: label, and err < 0
  cpc,            \* controller: label, inside mutex_operation unless idle/playing
  stop_call,      \* a player_stop set interrupt and waits for mutex_operation
  nread, freed    \* packets read from the source, and how often each was freed

queue  == <<live, next_to_write, next_to_read, ready, in_read, elem, to_write>>
reader == <<rpc, rpkt>>
decoder == <<dpc, derr>>
ctrl   == <<cpc, stop_call, interrupt>>
flags  == <<stop, stop_streams, pause>>
heap   == <<nread, freed>>
vars   == <<queue, waiting, mutex_queue, flags, reader, decoder, ctrl, heap>>

Fresh == {[eos |-> b, pkt |-> Garbage] : b \in BOOLEAN}

Q == INSTANCE PacketQueue
       WITH Producers <- {Reader}, Consumer <- Decoder, Owner <- Ctrl,
            Values <- Contents

Init ==
  /\ Q!Init
  /\ mutex_queue = NoThread
  /\ stop = TRUE /\ stop_streams = FALSE /\ pause = FALSE /\ interrupt = FALSE
  /\ rpc = "off" /\ rpkt = Empty /\ dpc = "off" /\ derr = FALSE
  /\ cpc = "idle" /\ stop_call = FALSE
  /\ nread = 0 /\ freed = [p \in Packets |-> 0]

\* t is not blocked and can be, or is, inside the critical section
Enters(t)  == t \notin waiting /\ mutex_queue \in {NoThread, t}
Keeps(t)   == mutex_queue' = t
Leaves     == mutex_queue' = NoThread

\* av_free_packet: an empty packet stays empty
Release(p) ==
  /\ freed' = IF p \in Packets THEN [freed EXCEPT ![p] = @ + 1] ELSE freed
  /\ UNCHANGED nread

(***************************************************************************)
(* player_read_from_stream                                                 *)
(***************************************************************************)
ReaderRest == UNCHANGED <<decoder, ctrl>>
ReaderGoes(label) == rpc' = label /\ UNCHANGED rpkt

ReaderAttach ==
  /\ rpc = "attach"
  /\ \/ ReaderGoes("read")
     \/ "attach_reader" \in Faults /\ ReaderGoes("done")
  /\ UNCHANGED <<queue, waiting, mutex_queue, flags, heap>> /\ ReaderRest

\* av_read_frame returns a packet
ReadPacket ==
  /\ rpc = "read" /\ nread < MaxPackets
  /\ nread' = nread + 1 /\ rpkt' = nread + 1 /\ rpc' = "push"
  /\ UNCHANGED <<queue, waiting, mutex_queue, flags, freed>> /\ ReaderRest

\* av_read_frame returns an error: end of stream, failure or interrupt
ReadFails ==
  /\ rpc = "read" /\ ReaderGoes("eos")
  /\ UNCHANGED <<queue, waiting, mutex_queue, flags, heap>> /\ ReaderRest

ReaderReturns == ReadPacket \/ ReadFails

\* a packet of another stream is freed and forgotten
MutReaderSkips ==
  /\ rpc = "push" /\ Enters(Reader) /\ ~stop /\ rpkt \in Foreign
  /\ rpkt' = Empty /\ rpc' = "read"
  /\ UNCHANGED <<queue, waiting, mutex_queue, flags, heap>> /\ ReaderRest
ReaderSkips ==
  /\ rpc = "push" /\ Enters(Reader) /\ ~stop /\ rpkt \in Foreign
  /\ Release(rpkt) /\ rpkt' = Empty /\ rpc' = "read"
  /\ UNCHANGED <<queue, waiting, mutex_queue, flags>> /\ ReaderRest

\* player_read_from_stream_check_func lets queue_push_start go on
WantsSlot == (rpc = "push" /\ rpkt \notin Foreign) \/ rpc = "eos"
MutMayPush == WantsSlot /\ Enters(Reader)
MayPush == WantsSlot /\ Enters(Reader) /\ ~stop

ReaderReserves ==
  /\ MayPush /\ Q!PushStart(Reader)
  /\ \/ rpc = "push" /\ ReaderGoes("fill") /\ Leaves
     \/ rpc = "eos" /\ ReaderGoes("eosfill") /\ Keeps(Reader)
  /\ UNCHANGED <<flags, heap>> /\ ReaderRest

ReaderWaitsForRoom ==
  /\ MayPush /\ Q!PushWait(Reader)
  /\ UNCHANGED <<mutex_queue, flags, heap, reader>> /\ ReaderRest

\* the packet is copied into the element ...
ReaderFills ==
  /\ rpc = "fill" /\ Q!Fill(Reader, [eos |-> FALSE, pkt |-> rpkt])
  /\ ReaderGoes("dup")
  /\ UNCHANGED <<mutex_queue, flags, heap>> /\ ReaderRest

\* ... which owns it once av_dup_packet succeeded (the local AVPacket keeps
\* its copy, but av_read_frame blanks it before anything could free it)
MutReaderDups ==
  /\ rpc = "dup"
  /\ \/ ReaderGoes("finish") /\ UNCHANGED <<queue, waiting>>
     \/ "dup" \in Faults /\ Q!PushAbandon(Reader) /\ ReaderGoes("exit")
  /\ UNCHANGED <<mutex_queue, flags, heap>> /\ ReaderRest
ReaderDups ==
  /\ rpc = "dup"
  /\ \/ rpkt' = Empty /\ rpc' = "finish" /\ UNCHANGED <<queue, waiting>>
     \/ "dup" \in Faults /\ Q!PushAbandon(Reader) /\ ReaderGoes("exit")
  /\ UNCHANGED <<mutex_queue, flags, heap>> /\ ReaderRest

ReaderFinishes ==
  /\ rpc = "finish" /\ Enters(Reader) /\ Q!PushFinish(Reader)
  /\ ReaderGoes("read")
  /\ UNCHANGED <<mutex_queue, flags, heap>> /\ ReaderRest

\* the end of stream: only the flag of the element is written
MutReaderMarksEnd ==
  /\ rpc = "eosfill"
  /\ Q!Fill(Reader, [eos |-> FALSE, pkt |-> elem[to_write[Reader]].pkt])
  /\ ReaderGoes("eosfinish")
  /\ UNCHANGED <<mutex_queue, flags, heap>> /\ ReaderRest
ReaderMarksEnd ==
  /\ rpc = "eosfill"
  /\ Q!Fill(Reader, [eos |-> TRUE, pkt |-> elem[to_write[Reader]].pkt])
  /\ ReaderGoes("eosfinish")
  /\ UNCHANGED <<mutex_queue, flags, heap>> /\ ReaderRest

ReaderSendsEnd ==
  /\ rpc = "eosfinish" /\ Q!PushFinish(Reader) /\ ReaderGoes("eoswait")
  /\ UNCHANGED <<mutex_queue, flags, heap>> /\ ReaderRest

ReaderWaitsForStop ==
  /\ rpc = "eoswait" /\ Enters(Reader) /\ ~stop
  /\ Q!Block(Reader) /\ Leaves
  /\ UNCHANGED <<queue, flags, heap, reader>> /\ ReaderRest

\* exit_loop: the streams are told to stop, and the reader waits for them
ReaderExits ==
  /\ Enters(Reader)
  /\ rpc = "exit" \/ (rpc \in {"push", "eos", "eoswait"} /\ stop)
  /\ Release(rpkt) /\ rpkt' = Empty /\ rpc' = "stopwait"
  /\ stop_streams' = TRUE /\ waiting' = {Reader} /\ Leaves
  /\ UNCHANGED <<queue, stop, pause>> /\ ReaderRest

ReaderWaitsForStreams ==
  /\ rpc = "stopwait" /\ Enters(Reader) /\ stop_streams /\ Q!Block(Reader)
  /\ UNCHANGED <<queue, mutex_queue, flags, heap, reader>> /\ ReaderRest

\* the codec is flushed and the thread ends
MutReaderEnds ==
  /\ rpc = "stopwait" /\ Enters(Reader) /\ ReaderGoes("done")
  /\ UNCHANGED <<queue, waiting, mutex_queue, flags, heap>> /\ ReaderRest
ReaderEnds ==
  /\ rpc = "stopwait" /\ Enters(Reader) /\ ~stop_streams /\ ReaderGoes("done")
  /\ UNCHANGED <<queue, waiting, mutex_queue, flags, heap>> /\ ReaderRest

\* all of the reader but the call it cannot finish on its own
ReaderWorks ==
  \/ ReaderAttach \/ ReaderSkips \/ ReaderReserves \/ ReaderWaitsForRoom
  \/ ReaderFills \/ ReaderDups \/ ReaderFinishes \/ ReaderMarksEnd
  \/ ReaderSendsEnd \/ ReaderWaitsForStop \/ ReaderExits
  \/ ReaderWaitsForStreams \/ ReaderEnds

(***************************************************************************)
(* player_decode                                                           *)
(***************************************************************************)
DecoderRest == UNCHANGED <<reader, ctrl>>
DecoderGoes(label) == dpc' = label /\ UNCHANGED derr

Current == elem[next_to_read]

DecoderAttach ==
  /\ dpc = "attach"
  /\ \/ DecoderGoes("pop")
     \/ "attach_decoder" \in Faults /\ DecoderGoes("done")
  /\ UNCHANGED <<queue, waiting, mutex_queue, flags, heap>> /\ DecoderRest

DecoderPops ==
  /\ dpc = "pop" /\ Enters(Decoder) /\ ~stop_streams
  /\ Q!PopStart /\ DecoderGoes("decode")
  /\ UNCHANGED <<mutex_queue, flags, heap>> /\ DecoderRest

DecoderWaitsForPacket ==
  /\ dpc = "pop" /\ Enters(Decoder) /\ ~stop_streams /\ Q!PopWait
  /\ UNCHANGED <<mutex_queue, flags, heap, decoder>> /\ DecoderRest

\* what avcodec_decode_video2 may answer with an error
MayFail ==
  \/ "decode" \in Faults /\ Current.pkt # Garbage
  \/ "uninit" \in Faults /\ Current.pkt = Garbage

\* player_decode_video up to its wait: a frame to show, no frame or no
\* window, or an error
DecoderDecodes ==
  /\ dpc = "decode"
  /\ \/ DecoderGoes("frame") \/ DecoderGoes("free")
     \/ MayFail /\ dpc' = "free" /\ derr' = TRUE
  /\ UNCHANGED <<queue, waiting, mutex_queue, flags, heap>> /\ DecoderRest

\* player_wait_for_frame: stopped
FrameSkipped ==
  /\ dpc = "frame" /\ Enters(Decoder) /\ stop_streams /\ DecoderGoes("free")
  /\ UNCHANGED <<queue, waiting, mutex_queue, flags, heap>> /\ DecoderRest

FramePaused ==
  /\ dpc = "frame" /\ Enters(Decoder) /\ ~stop_streams /\ pause
  /\ Q!Block(Decoder)
  /\ UNCHANGED <<queue, mutex_queue, flags, heap, decoder>> /\ DecoderRest

\* the frame's time has come
FrameDue ==
  /\ dpc = "frame" /\ Enters(Decoder) /\ ~stop_streams /\ ~pause
  /\ DecoderGoes("free")
  /\ UNCHANGED <<queue, waiting, mutex_queue, flags, heap>> /\ DecoderRest

\* or not yet: pthread_cond_timedwait, ended by a broadcast or its deadline
FrameEarly ==
  /\ dpc = "frame" /\ Enters(Decoder) /\ ~stop_streams /\ ~pause
  /\ Q!Block(Decoder) /\ DecoderGoes("sleep")
  /\ UNCHANGED <<queue, mutex_queue, flags, heap>> /\ DecoderRest

SleepEnds ==
  /\ dpc = "sleep" /\ waiting' = waiting \ {Decoder} /\ DecoderGoes("frame")
  /\ UNCHANGED <<queue, mutex_queue, flags, heap>> /\ DecoderRest

\* the packet of an element is freed, in the loop or while draining
DecoderFrees ==
  /\ dpc \in {"free", "drainfree"}
  /\ \/ Current.eos /\ UNCHANGED <<queue, waiting, heap>>
     \/ ~Current.eos /\ Release(Current.pkt) /\ Q!Use([Current EXCEPT !.pkt = Empty])
  /\ DecoderGoes(IF dpc = "free" THEN "give" ELSE "drainfinish")
  /\ UNCHANGED <<mutex_queue, flags>> /\ DecoderRest

DecoderGives ==
  /\ dpc = "give" /\ Enters(Decoder) /\ Q!PopFinish
  /\ DecoderGoes(IF derr THEN "err" ELSE "pop")
  /\ UNCHANGED <<mutex_queue, flags, heap>> /\ DecoderRest

\* "goto stop", asked to or after an error: the mutex is kept while draining
DecoderStops ==
  /\ Enters(Decoder) /\ (dpc = "err" \/ (dpc = "pop" /\ stop_streams))
  /\ Keeps(Decoder) /\ DecoderGoes("drain")
  /\ UNCHANGED <<queue, waiting, flags, heap>> /\ DecoderRest

DecoderDrains ==
  /\ \/ dpc = "drain" /\ Q!PopStart /\ DecoderGoes("drainfree")
     \/ dpc = "drainfinish" /\ Q!PopFinish /\ DecoderGoes("drain")
  /\ UNCHANGED <<mutex_queue, flags, heap>> /\ DecoderRest

MutDecoderEnds ==
  /\ dpc = "drain"
  /\ stop_streams' = FALSE /\ Q!Broadcast /\ Leaves /\ DecoderGoes("done")
  /\ UNCHANGED <<queue, stop, pause, heap>> /\ DecoderRest
DecoderEnds ==
  /\ dpc = "drain" /\ ~Q!Readable
  /\ stop_streams' = FALSE /\ Q!Broadcast /\ Leaves /\ DecoderGoes("done")
  /\ UNCHANGED <<queue, stop, pause, heap>> /\ DecoderRest

DecoderWorks ==
  \/ DecoderAttach \/ DecoderPops \/ DecoderWaitsForPacket \/ DecoderDecodes
  \/ FrameSkipped \/ FramePaused \/ FrameDue \/ FrameEarly \/ SleepEnds
  \/ DecoderFrees \/ DecoderGives \/ DecoderStops \/ DecoderDrains \/ DecoderEnds

(***************************************************************************)
(* player_set_data_source, player_stop and jni_player_resume               *)
(***************************************************************************)
CtrlRest == UNCHANGED <<reader, decoder>>
CtrlGoes(label) == cpc' = label /\ UNCHANGED <<stop_call, interrupt>>

\* up to player_create_interrupt_callback, which forgets an earlier interrupt
OpenStarts ==
  /\ cpc = "idle" /\ cpc' = "open"
  /\ pause' = TRUE /\ interrupt' = FALSE
  /\ UNCHANGED <<queue, waiting, mutex_queue, stop, stop_streams, heap, stop_call>>
  /\ CtrlRest

\* a stage before the threads fails: nothing runs yet
OpenFails ==
  /\ cpc = "open" /\ mutex_queue = NoThread /\ CtrlGoes("idle")
  /\ stop' = TRUE /\ Q!Broadcast
  /\ UNCHANGED <<queue, mutex_queue, stop_streams, pause, heap>> /\ CtrlRest

\* the stages up to player_alloc_queues succeed
OpenSucceeds ==
  /\ cpc = "open" /\ Q!QueueInit /\ CtrlGoes("prepare")
  /\ nread' = 0 /\ freed' = [p \in Packets |-> 0]
  /\ UNCHANGED <<waiting, mutex_queue, flags>> /\ CtrlRest

PlayPrepare ==
  /\ cpc = "prepare" /\ mutex_queue = NoThread /\ CtrlGoes("create_decoder")
  /\ stop' = FALSE /\ stop_streams' = FALSE /\ Q!Broadcast
  /\ UNCHANGED <<queue, mutex_queue, pause, heap>> /\ CtrlRest

CreateDecoder ==
  /\ cpc = "create_decoder"
  /\ \/ dpc' = "attach" /\ derr' = FALSE /\ CtrlGoes("create_reader")
     \/ "create_decoder" \in Faults /\ CtrlGoes("fail") /\ UNCHANGED decoder
  /\ UNCHANGED <<queue, waiting, mutex_queue, flags, heap, reader>>

CreateReader ==
  /\ cpc = "create_reader"
  /\ \/ rpc' = "attach" /\ UNCHANGED rpkt /\ CtrlGoes("playing")
     \/ "create_reader" \in Faults /\ CtrlGoes("fail") /\ UNCHANGED reader
  /\ UNCHANGED <<queue, waiting, mutex_queue, flags, heap, decoder>>

MutResume ==
  /\ cpc = "playing" /\ mutex_queue = NoThread /\ pause
  /\ pause' = FALSE
  /\ UNCHANGED <<queue, waiting, mutex_queue, stop, stop_streams, heap, ctrl>>
  /\ CtrlRest
Resume ==
  /\ cpc = "playing" /\ mutex_queue = NoThread /\ pause
  /\ pause' = FALSE /\ Q!Broadcast
  /\ UNCHANGED <<queue, mutex_queue, stop, stop_streams, heap, ctrl>> /\ CtrlRest

\* player_stop sets interrupt before it waits for mutex_operation
StopCall ==
  /\ ~stop_call /\ stop_call' = TRUE /\ interrupt' = TRUE /\ UNCHANGED cpc
  /\ UNCHANGED <<queue, waiting, mutex_queue, flags, heap>> /\ CtrlRest

StopIgnored ==
  /\ cpc = "idle" /\ stop_call /\ stop_call' = FALSE
  /\ UNCHANGED <<queue, waiting, mutex_queue, flags, heap, cpc, interrupt>>
  /\ CtrlRest

\* player_play_prepare_free, called by player_stop, by a new
\* player_set_data_source (which sets no interrupt), or after an error
MutStopThreads ==
  /\ cpc \in {"playing", "fail"} /\ mutex_queue = NoThread
  /\ cpc' = "join_reader" /\ stop' = TRUE
  /\ stop_call' \in IF cpc = "fail" THEN {stop_call} ELSE {stop_call, FALSE}
  /\ UNCHANGED <<queue, waiting, mutex_queue, stop_streams, pause, heap, interrupt>>
  /\ CtrlRest
StopThreads ==
  /\ cpc \in {"playing", "fail"} /\ mutex_queue = NoThread
  /\ cpc' = "join_reader" /\ stop' = TRUE /\ Q!Broadcast
  /\ stop_call' \in IF cpc = "fail" THEN {stop_call} ELSE {stop_call, FALSE}
  /\ UNCHANGED <<queue, mutex_queue, stop_streams, pause, heap, interrupt>>
  /\ CtrlRest

MutJoinReader ==
  /\ cpc = "join_reader" /\ rpc' = "off" /\ UNCHANGED rpkt
  /\ CtrlGoes("join_decoder")
  /\ UNCHANGED <<queue, waiting, mutex_queue, flags, heap, decoder>>
JoinReader ==
  /\ cpc = "join_reader" /\ rpc \in {"off", "done"}
  /\ rpc' = "off" /\ UNCHANGED rpkt /\ CtrlGoes("join_decoder")
  /\ UNCHANGED <<queue, waiting, mutex_queue, flags, heap, decoder>>

MutJoinDecoder ==
  /\ cpc = "join_decoder" /\ CtrlGoes("free")
  /\ UNCHANGED <<queue, waiting, mutex_queue, flags, heap, decoder, reader>>
JoinDecoder ==
  /\ cpc = "join_decoder" /\ dpc \in {"off", "done"}
  /\ dpc' = "off" /\ UNCHANGED derr /\ CtrlGoes("free")
  /\ UNCHANGED <<queue, waiting, mutex_queue, flags, heap, reader>>

\* queue_free, then the codec and the input are closed; the wait of
\* queue_free is never reached, as QueueContract says
FreeQueue ==
  /\ cpc = "free" /\ Enters(Ctrl) /\ Q!Free /\ CtrlGoes("idle")
  /\ UNCHANGED <<mutex_queue, flags, heap>> /\ CtrlRest

CtrlWorks ==
  \/ OpenFails \/ OpenSucceeds \/ PlayPrepare \/ CreateDecoder \/ CreateReader
  \/ JoinReader \/ JoinDecoder \/ FreeQueue
  \/ (cpc = "fail" /\ StopThreads)

Users ==
  \/ OpenStarts \/ Resume \/ StopCall \/ StopIgnored
  \/ (cpc = "playing" /\ StopThreads)

\* spurious wake-ups
Wake == Q!Wake /\ UNCHANGED <<mutex_queue, flags, reader, decoder, ctrl, heap>>

Next == ReaderReturns \/ ReaderWorks \/ DecoderWorks \/ CtrlWorks \/ Users \/ Wake

Spec == Init /\ [][Next]_vars

(***************************************************************************)
(* Every thread goes on when it can, and an early frame is due some day.   *)
(* av_read_frame is only sure to return once it is interrupted; a source   *)
(* that always answers is a stronger assumption.                           *)
(***************************************************************************)
Fairness ==
  /\ WF_vars(ReaderWorks) /\ WF_vars(DecoderWorks) /\ WF_vars(CtrlWorks)
  /\ SF_vars(FrameDue)
  /\ WF_vars(interrupt /\ ReaderReturns)

InterruptibleSpec == Spec /\ Fairness
ResponsiveSpec    == Spec /\ Fairness /\ WF_vars(ReaderReturns)

-----------------------------------------------------------------------------
\* The shared fields and the labels of the threads.  (player.h, struct Player)
TypeOK ==
  /\ Q!TypeOK
  /\ mutex_queue \in {NoThread, Reader, Decoder}
  /\ stop \in BOOLEAN /\ stop_streams \in BOOLEAN /\ pause \in BOOLEAN
  /\ interrupt \in BOOLEAN /\ derr \in BOOLEAN /\ stop_call \in BOOLEAN
  /\ rpc \in {"off", "attach", "read", "push", "fill", "dup", "finish", "eos",
              "eosfill", "eosfinish", "eoswait", "exit", "stopwait", "done"}
  /\ dpc \in {"off", "attach", "pop", "decode", "frame", "sleep", "free", "give",
              "err", "drain", "drainfree", "drainfinish", "done"}
  /\ cpc \in {"idle", "open", "prepare", "create_decoder", "create_reader",
              "fail", "playing", "join_reader", "join_decoder", "free"}
  /\ rpkt \in Packets \cup {Empty}
  /\ nread \in 0 .. MaxPackets /\ freed \in [Packets -> 0 .. 1]

\* The elements between next_to_read and next_to_write that hold packet p and
\* are responsible for it: complete, or filled and about to be.
HeldBy(p) ==
  {s \in Q!Slots : /\ live /\ Q!InRange(s) /\ elem[s].pkt = p
                   /\ ready[s] \/ (to_write[Reader] = s /\ rpc = "finish")}

\* Every packet the source delivered is freed once, or belongs to exactly one
\* place that will free it: the reader's local packet or one element.
\* (decode.c:169-171, 186-188, 775-783, 792, 874)
PacketConservation ==
  \A p \in 1 .. nread :
    freed[p] + Cardinality(HeldBy(p)) + (IF rpkt = p THEN 1 ELSE 0) = 1

\* When the player is idle again no packet of the session is left unfreed,
\* however its threads ended.  (decode.c:183-191, 789-792)
NoLeak == cpc = "idle" => \A p \in 1 .. nread : freed[p] = 1

\* A packet is decoded while it is alive and after every captured packet read
\* before it; the end of stream is decoded after all of them.
\* (decode.c:103-151, 686-728)
DecodeOrder ==
  dpc = "decode" =>
    LET first == IF Current.eos THEN nread + 1 ELSE Current.pkt IN
      /\ ~Current.eos => Current.pkt \in 1 .. nread /\ freed[Current.pkt] = 0
      /\ \A p \in 1 .. nread : p < first => freed[p] = 1

\* The asserts of queue.c never fail, and queue_free meets the contract it
\* relies on: no reader, no writer, nobody blocked.
\* (queue.c:102-105, 180, 209, 240, 255; player.c:745-780)
QueueContract ==
  /\ dpc \in {"pop", "drain"} => ~in_read
  /\ dpc \in {"give", "drainfinish"} => in_read
  /\ cpc = "free" => ~in_read /\ to_write[Reader] = Q!NoSlot /\ waiting = {}

\* One condition variable carries room, data, stop, stop_streams and pause;
\* nobody sleeps on it once the thing it waits for is there.
\* (decode.c:538, 725, 799; queue.c:146, 214)
NoLostWakeup ==
  /\ Reader \in waiting =>
       \/ rpc \in {"push", "eos"} /\ ~stop /\ Q!Full
       \/ rpc = "eoswait" /\ ~stop
       \/ rpc = "stopwait" /\ stop_streams
  /\ Decoder \in waiting =>
       \/ dpc = "pop" /\ ~stop_streams /\ ~Q!Readable
       \/ dpc = "frame" /\ ~stop_streams /\ pause
       \/ dpc = "sleep"

\* The reader flushes the codec and ends only when the decoder has drained the
\* queue and will not touch the codec again.  (decode.c:798-807)
CodecFlushedAlone ==
  [][rpc = "stopwait" /\ rpc' = "done"
       => dpc = "done" /\ ~Q!Readable]_vars

\* The queue as its own module sees it: only threads that wait for room, data
\* or the end of a pop are blocked on it.
QueueWaiters ==
  {t \in waiting : \/ t = Reader /\ rpc \in {"push", "eos"}
                   \/ t = Decoder /\ dpc = "pop"
                   \/ t = Ctrl}

PQ == INSTANCE PacketQueue
        WITH Producers <- {Reader}, Consumer <- Decoder, Owner <- Ctrl,
             Values <- Contents, waiting <- QueueWaiters

\* The threads use the queue as PacketQueue allows, whatever else is sent
\* over its mutex and condition variable.  (decode.c, player.c:698-780)
UsesQueue == PQ!Spec

\* Reader and decoder keep to the session that the operations of player.c give
\* them: they live on a queue that is there before they start and until they
\* have ended, however they end.  (decode.c:36-76; player.c:195-371, 745-780)
Phase ==
  CASE cpc = "idle" -> "closed"
    [] cpc \in {"open", "prepare", "create_decoder", "create_reader"} -> "opening"
    [] cpc = "playing" -> "open"
    [] OTHER -> "closing"
Live == (IF rpc \in {"off", "done"} THEN {} ELSE {Reader})
          \cup (IF dpc \in {"off", "done"} THEN {} ELSE {Decoder})
S == INSTANCE Session
       WITH Threads <- {Reader, Decoder}, phase <- Phase, workers <- Live, store <- live
ImplementsSession == S!Spec

\* A stop is under way until the threads are joined and the queue is freed.
Stopping == cpc \in {"join_reader", "join_decoder", "free"}

\* A stop ends: the joins of player_start_decoding_threads_free return.
\* (player.c:745-767; decode.c:794-798)
StopCompletes == Stopping ~> (cpc = "idle")

\* With any failure and a source that may stall, a stop hangs in one of three
\* ways: the reader waits for a decoder that is gone, the decoder for a reader
\* that is gone, or the reader reads from a stalled source that nobody
\* interrupts.  (decode.c:173-176, 672-677, 794-799; player.c:334-340, 443-466)
ReaderOrphaned  == cpc = "join_reader" /\ rpc = "stopwait" /\ dpc = "done"
DecoderOrphaned ==
  cpc = "join_decoder" /\ rpc = "off" /\ dpc # "done" /\ ~stop_streams
ReaderStalled   == cpc = "join_reader" /\ rpc = "read" /\ ~interrupt
HangsKnown ==
  \/ []<>~Stopping
  \/ <>[]ReaderOrphaned \/ <>[]DecoderOrphaned \/ <>[]ReaderStalled

\* While playback is not paused every packet that was read is freed, unless the
\* decoder has failed: neither the frame clock nor the full queue nor a stalled
\* source stops the flow.  (decode.c:78-239, 656-891)
PacketsConsumed ==
  \A p \in Packets :
    (p <= nread /\ ~pause) ~> (pause \/ freed[p] = 1 \/ dpc = "done")
=============================================================================

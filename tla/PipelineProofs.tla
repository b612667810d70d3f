--------------------------- MODULE PipelineProofs ---------------------------
(* The reader and decoder of decode.c on a ring of any size, with any number *)
(* of packets and every fault: what is proved of each packet, of the queue's *)
(* contract, of the sleepers on its condition variable, and that the threads *)
(* implement PacketQueue and Session.                                        *)
EXTENDS Pipeline, FiniteSetTheorems, TLAPS

-----------------------------------------------------------------------------
(* The inductive invariant: first where the threads are.                     *)

Slots == Q!Slots
\* the slot the reader has reserved
Reserved == to_write[Reader]
\* labels at which the reader holds a slot, at which the decoder holds an
\* element, and at which it drains the queue with mutex_queue locked
Writing  == {"fill", "dup", "finish", "eosfill", "eosfinish"}
Working  == {"decode", "frame", "sleep", "free", "give", "drainfree", "drainfinish"}
Draining == {"drain", "drainfree", "drainfinish"}

\* a label says whether its thread holds a slot, an element or mutex_queue
\* (queue.c:121-260; decode.c:711-725, 775-793)
Labels ==
  /\ Reserved # Q!NoSlot <=> rpc \in Writing
  /\ in_read <=> dpc \in Working
  /\ mutex_queue = Reader => rpc \in {"eosfill", "eosfinish", "eoswait"}
  /\ rpc \in {"eosfill", "eosfinish"} => mutex_queue = Reader
  /\ mutex_queue = Decoder <=> dpc \in Draining

\* which threads there are at each label of the controller
\* (player.c:698-780)
Control ==
  /\ stop <=> cpc \in {"idle", "open", "prepare", "join_reader", "join_decoder", "free"}
  /\ live <=> cpc \notin {"idle", "open"}
  /\ cpc \in {"idle", "open", "prepare", "create_decoder", "free"}
       => rpc = "off" /\ dpc = "off"
  /\ cpc = "create_reader" => rpc = "off" /\ dpc # "off"
  /\ cpc = "playing" => rpc # "off" /\ dpc # "off"
  /\ cpc \in {"fail", "join_decoder"} => rpc = "off"
  /\ stop_streams => rpc = "stopwait"

USE DEF ReaderRest, ReaderGoes, DecoderRest, DecoderGoes, CtrlRest, CtrlGoes,
  Enters, Keeps, Leaves, Q!Broadcast, Q!Block, Q!Runs, queue, reader, decoder,
  ctrl, flags, heap, Reader, Decoder, Ctrl, NoThread, Empty, Garbage

\* TypeOK in parts: the flags
Flags ==
  /\ stop \in BOOLEAN /\ stop_streams \in BOOLEAN /\ pause \in BOOLEAN
  /\ interrupt \in BOOLEAN /\ derr \in BOOLEAN /\ stop_call \in BOOLEAN

-----------------------------------------------------------------------------
(* The types and the labels are kept.                                       *)

\* The flags stay flags.
LEMMA FlagsNext == Flags /\ [Next]_vars => Flags'
<1> SUFFICES ASSUME Flags, [Next]_vars PROVE Flags'
  OBVIOUS
<1> USE DEF Flags
<1>1. CASE ReaderReturns \/ ReaderWorks
  BY <1>1, Zenon DEF ReaderReturns, ReaderWorks, ReaderAttach, ReadPacket,
    ReadFails, ReaderSkips, ReaderReserves, ReaderWaitsForRoom, ReaderFills,
    ReaderDups, ReaderFinishes, ReaderMarksEnd, ReaderSendsEnd,
    ReaderWaitsForStop, ReaderExits, ReaderWaitsForStreams, ReaderEnds
<1>2. CASE DecoderWorks
  BY <1>2, Zenon DEF DecoderWorks, DecoderAttach, DecoderPops,
    DecoderWaitsForPacket, DecoderDecodes, FrameSkipped, FramePaused, FrameDue,
    FrameEarly, SleepEnds, DecoderFrees, DecoderGives, DecoderStops,
    DecoderDrains, DecoderEnds
<1>3. CASE CtrlWorks \/ Users
  BY <1>3, Zenon DEF CtrlWorks, Users, OpenStarts, OpenFails, OpenSucceeds,
    PlayPrepare, CreateDecoder, CreateReader, Resume, StopCall, StopIgnored,
    StopThreads, JoinReader, JoinDecoder, FreeQueue
<1>4. CASE Wake \/ UNCHANGED vars
  BY <1>4, Zenon DEF Wake, vars
<1> QED BY <1>1, <1>2, <1>3, <1>4 DEF Next

\* the labels, the packet in the reader and the count of packets
Places ==
  /\ mutex_queue \in {NoThread, Reader, Decoder}
  /\ rpc \in {"off", "attach", "read", "push", "fill", "dup", "finish", "eos",
              "eosfill", "eosfinish", "eoswait", "exit", "stopwait", "done"}
  /\ dpc \in {"off", "attach", "pop", "decode", "frame", "sleep", "free", "give",
              "err", "drain", "drainfree", "drainfinish", "done"}
  /\ cpc \in {"idle", "open", "prepare", "create_decoder", "create_reader",
              "fail", "playing", "join_reader", "join_decoder", "free"}
  /\ rpkt \in Packets \cup {Empty}
  /\ nread \in 0 .. MaxPackets
\* The labels stay labels; no more than MaxPackets are read.
LEMMA PlacesNext == Places /\ [Next]_vars => Places'
<1> SUFFICES ASSUME Places, [Next]_vars PROVE Places'
  OBVIOUS
<1> USE PipelineAssumption DEF Places, Packets, Release
<1>1. CASE ReaderReturns
  BY <1>1 DEF ReaderReturns, ReadPacket, ReadFails
<1>2. CASE ReaderWorks
  BY <1>2 DEF ReaderWorks, ReaderAttach, ReaderSkips, ReaderReserves,
    ReaderWaitsForRoom, ReaderFills, ReaderDups, ReaderFinishes, ReaderMarksEnd,
    ReaderSendsEnd, ReaderWaitsForStop, ReaderExits, ReaderWaitsForStreams,
    ReaderEnds
<1>3. CASE DecoderWorks
  BY <1>3 DEF DecoderWorks, DecoderAttach, DecoderPops, DecoderWaitsForPacket,
    DecoderDecodes, FrameSkipped, FramePaused, FrameDue, FrameEarly, SleepEnds,
    DecoderFrees, DecoderGives, DecoderStops, DecoderDrains, DecoderEnds
<1>4. CASE CtrlWorks /\ ~StopThreads
  BY <1>4 DEF CtrlWorks, OpenFails, OpenSucceeds, PlayPrepare, CreateDecoder,
    CreateReader, JoinReader, JoinDecoder, FreeQueue
<1>5. CASE Users /\ ~StopThreads
  BY <1>5 DEF Users, OpenStarts, Resume, StopCall, StopIgnored
<1>6. CASE Wake \/ UNCHANGED vars
  BY <1>6 DEF Wake, vars
<1>7. CASE StopThreads
  BY <1>7 DEF StopThreads
<1> QED BY <1>1, <1>2, <1>3, <1>4, <1>5, <1>6, <1>7 DEF Next

\* the controller never sleeps on cond_queue
Sleepers == waiting \subseteq {Reader, Decoder}

\* all that does not depend on what the elements hold
Skeleton == Flags /\ Places /\ Sleepers /\ Labels /\ Control /\ NoLostWakeup
\* Every action keeps the labels and the controller in step, and whoever ends
\* a wait wakes its sleeper.  (decode.c:538, 725, 799; queue.c:146-260)
LEMMA SkeletonNext == Q!TypeOK /\ Skeleton /\ [Next]_vars
  => (Labels /\ Control /\ NoLostWakeup)'
<1> SUFFICES ASSUME Q!TypeOK, Skeleton, [Next]_vars
             PROVE  (Labels /\ Control /\ NoLostWakeup)'
  OBVIOUS
<1> USE PipelineAssumption DEF Flags, Places, Skeleton, Control, Labels,
  NoLostWakeup, Q!Full, Q!Readable, Writing, Working, Draining, Packets, Slots,
  Q!Slots, Reserved, Q!TypeOK, Q!NoSlot
<1>1. CASE ReaderAttach
  BY <1>1 DEF ReaderAttach
<1>2. CASE ReadPacket
  BY <1>2 DEF ReadPacket
<1>3. CASE ReadFails
  BY <1>3 DEF ReadFails
<1>4. CASE ReaderSkips
  BY <1>4 DEF ReaderSkips, Release
<1>5. CASE ReaderReserves
  BY <1>5 DEF ReaderReserves, MayPush, WantsSlot, Q!PushStart, Q!CanPush
<1>6. CASE ReaderWaitsForRoom
  BY <1>6 DEF ReaderWaitsForRoom, MayPush, WantsSlot, Q!PushWait, Q!CanPush,
    Q!ring
<1>7. CASE ReaderFills
  BY <1>7 DEF ReaderFills, Q!Fill, Q!Pushing
<1>8. CASE ReaderDups
  BY <1>8 DEF ReaderDups, Q!PushAbandon, Q!Pushing, Q!ring
<1>9. CASE ReaderFinishes
  BY <1>9 DEF ReaderFinishes, Q!PushFinish, Q!Pushing
<1>10. CASE ReaderMarksEnd
  BY <1>10 DEF ReaderMarksEnd, Q!Fill, Q!Pushing
<1>11. CASE ReaderSendsEnd
  BY <1>11 DEF ReaderSendsEnd, Q!PushFinish, Q!Pushing
<1>12. CASE ReaderWaitsForStop
  BY <1>12 DEF ReaderWaitsForStop
<1>13. CASE ReaderExits
  BY <1>13 DEF ReaderExits, Release
<1>14. CASE ReaderWaitsForStreams
  BY <1>14 DEF ReaderWaitsForStreams
<1>15. CASE ReaderEnds
  BY <1>15 DEF ReaderEnds
<1>16. CASE DecoderAttach
  BY <1>16 DEF DecoderAttach
<1>17. CASE DecoderPops
  BY <1>17 DEF DecoderPops, Q!PopStart, Q!CanPop
<1>18. CASE DecoderWaitsForPacket
  BY <1>18 DEF DecoderWaitsForPacket, Q!PopWait, Q!CanPop, Q!ring
<1>19. CASE DecoderDecodes
  BY <1>19 DEF DecoderDecodes
<1>20. CASE FrameSkipped
  BY <1>20 DEF FrameSkipped
<1>21. CASE FramePaused
  BY <1>21 DEF FramePaused
<1>22. CASE FrameDue
  BY <1>22 DEF FrameDue
<1>23. CASE FrameEarly
  BY <1>23 DEF FrameEarly
<1>24. CASE SleepEnds
  BY <1>24 DEF SleepEnds
<1>25. CASE DecoderFrees
  BY <1>25 DEF DecoderFrees, Release, Q!Use
<1>26. CASE DecoderGives
  BY <1>26 DEF DecoderGives, Q!PopFinish
<1>27. CASE DecoderStops
  BY <1>27 DEF DecoderStops
<1>28. CASE DecoderDrains
  BY <1>28 DEF DecoderDrains, Q!PopStart, Q!CanPop, Q!PopFinish
<1>29. CASE DecoderEnds
  BY <1>29 DEF DecoderEnds
<1>30. CASE OpenStarts
  BY <1>30 DEF OpenStarts
<1>31. CASE OpenFails
  BY <1>31 DEF OpenFails
<1>32. CASE OpenSucceeds
  BY <1>32 DEF OpenSucceeds, Q!QueueInit
<1>33. CASE PlayPrepare
  BY <1>33 DEF PlayPrepare
<1>34. CASE CreateDecoder
  BY <1>34 DEF CreateDecoder
<1>35. CASE CreateReader
  BY <1>35 DEF CreateReader
<1>36. CASE Resume
  BY <1>36 DEF Resume
<1>37. CASE StopCall
  BY <1>37 DEF StopCall
<1>38. CASE StopIgnored
  BY <1>38 DEF StopIgnored
<1>39. CASE StopThreads
  BY <1>39 DEF StopThreads
<1>40. CASE JoinReader
  BY <1>40 DEF JoinReader
<1>41. CASE JoinDecoder
  BY <1>41 DEF JoinDecoder
<1>42. CASE FreeQueue
  BY <1>42 DEF FreeQueue, Q!Free
<1>43. CASE Wake
  BY <1>43 DEF Wake, Q!Wake, Q!ring
<1>44. CASE UNCHANGED vars
  BY <1>44 DEF vars
<1> QED
  BY <1>1, <1>2, <1>3, <1>4, <1>5, <1>6, <1>7, <1>8, <1>9, <1>10, <1>11, <1>12,
    <1>13, <1>14, <1>15, <1>16, <1>17, <1>18, <1>19, <1>20, <1>21, <1>22, <1>23,
    <1>24, <1>25, <1>26, <1>27, <1>28, <1>29, <1>30, <1>31, <1>32, <1>33, <1>34,
    <1>35, <1>36, <1>37, <1>38, <1>39, <1>40, <1>41, <1>42, <1>43, <1>44 DEF Next,
    ReaderReturns, ReaderWorks, DecoderWorks, CtrlWorks, Users

\* Only reader and decoder wait.
LEMMA SleepersNext == Sleepers /\ [Next]_vars => Sleepers'
<1> SUFFICES ASSUME Sleepers, [Next]_vars PROVE Sleepers'
  OBVIOUS
<1> USE DEF Sleepers
<1>1. CASE ReaderReturns \/ ReaderWorks
  BY <1>1, Zenon DEF ReaderReturns, ReaderWorks, Q!PushWait, Q!PushStart,
    Q!PushFinish, Q!PushAbandon, Q!Fill, ReaderAttach, ReadPacket, ReadFails,
    ReaderSkips, ReaderReserves, ReaderWaitsForRoom, ReaderFills, ReaderDups,
    ReaderFinishes, ReaderMarksEnd, ReaderSendsEnd, ReaderWaitsForStop,
    ReaderExits, ReaderWaitsForStreams, ReaderEnds
<1>2. CASE DecoderWorks
  BY <1>2, Zenon DEF DecoderWorks, Q!PopStart, Q!PopWait, Q!PopFinish, Q!Use,
    DecoderAttach, DecoderPops, DecoderWaitsForPacket, DecoderDecodes,
    FrameSkipped, FramePaused, FrameDue, FrameEarly, SleepEnds, DecoderFrees,
    DecoderGives, DecoderStops, DecoderDrains, DecoderEnds
<1>3. CASE CtrlWorks \/ Users
  BY <1>3, Zenon DEF CtrlWorks, Users, Q!QueueInit, Q!Free, OpenStarts, OpenFails,
    OpenSucceeds, PlayPrepare, CreateDecoder, CreateReader, Resume, StopCall,
    StopIgnored, StopThreads, JoinReader, JoinDecoder, FreeQueue
<1>4. CASE Wake \/ UNCHANGED vars
  BY <1>4, Zenon DEF Wake, vars, Q!Wake
<1> QED BY <1>1, <1>2, <1>3, <1>4 DEF Next

-----------------------------------------------------------------------------
(* The queue under its own proofs: every step is one of PacketQueue, and     *)
(* keeps what PacketQueueProofs shows of it.                                 *)

\* the queue as PacketQueue sees it, with the theorems about it
QP == INSTANCE PacketQueueProofs
        WITH Producers <- {Reader}, Consumer <- Decoder, Owner <- Ctrl,
             Values <- Contents, waiting <- QueueWaiters

\* A step that leaves the queue alone, and wakes at most threads that wait on
\* it, is for the queue a spurious wake-up or no step at all.
LEMMA Quiet ==
  UNCHANGED queue /\ QueueWaiters' \subseteq QueueWaiters => [QP!Next]_QP!vars
BY DEF QP!Next, QP!Wake, QP!vars, QP!ring

\* Every step is one that PacketQueue allows, or leaves the queue alone.
\* (decode.c:78-240, 656-810; player.c:698-780)
LEMMA QueueNext == Q!TypeOK /\ Skeleton /\ [Next]_vars => [QP!Next]_QP!vars
<1> SUFFICES ASSUME Q!TypeOK, Skeleton, [Next]_vars PROVE [QP!Next]_QP!vars
  OBVIOUS
<1> USE DEF Skeleton, Places, Labels, Control, Q!TypeOK, QueueWaiters, Reserved,
  Writing, Working, Draining
<1>1. CASE ReaderReserves
  <2>1. QP!PushStart(Reader)
    BY <1>1 DEF ReaderReserves, MayPush, WantsSlot, Q!PushStart, Q!CanPush,
      QP!PushStart, QP!CanPush, QP!Runs, QP!Broadcast, Q!Full, QP!Full,
      Q!queue_get_next, QP!queue_get_next, Q!NoSlot, QP!NoSlot
  <2> QED BY <2>1 DEF QP!Next
<1>2. CASE ReaderWaitsForRoom
  <2>1. QP!PushWait(Reader)
    BY <1>2 DEF ReaderWaitsForRoom, MayPush, WantsSlot, Q!PushWait, Q!CanPush,
      Q!ring, QP!PushWait, QP!CanPush, QP!Runs, QP!Block, QP!ring, Q!Full,
      QP!Full, Q!queue_get_next, QP!queue_get_next, Q!NoSlot, QP!NoSlot
  <2> QED BY <2>1 DEF QP!Next
<1>3. ASSUME ReaderFills \/ ReaderMarksEnd PROVE [QP!Next]_QP!vars
  <2>1. PICK v \in Contents : Q!Fill(Reader, v)
    BY <1>3 DEF ReaderFills, ReaderMarksEnd, Q!Fill, Q!Pushing, Contents, Q!NoSlot
  <2>2. QP!Fill(Reader, v)
    BY <1>3, <2>1 DEF ReaderFills, ReaderMarksEnd, Q!Fill, Q!Pushing, QP!Fill,
      QP!Pushing, QP!Runs, Q!NoSlot, QP!NoSlot
  <2> QED BY <2>2 DEF QP!Next
<1>4. CASE ReaderDups
  <2>1. CASE UNCHANGED queue
    BY <1>4, <2>1, Quiet DEF ReaderDups, Q!PushAbandon
  <2>2. CASE Q!PushAbandon(Reader) /\ rpc = "dup" /\ rpc' = "exit" /\ UNCHANGED dpc
    <3>1. QP!PushAbandon(Reader)
      BY <2>2 DEF Q!PushAbandon, Q!Pushing, Q!ring, QP!PushAbandon, QP!Pushing,
        QP!ring, QP!Runs, Q!NoSlot, QP!NoSlot
    <3> QED BY <3>1 DEF QP!Next
  <2> QED BY <1>4, <2>1, <2>2 DEF ReaderDups
<1>5. ASSUME ReaderFinishes \/ ReaderSendsEnd PROVE [QP!Next]_QP!vars
  <2>1. QP!PushFinish(Reader)
    BY <1>5 DEF ReaderFinishes, ReaderSendsEnd, Q!PushFinish, Q!Pushing,
      QP!PushFinish, QP!Pushing, QP!Runs, QP!Broadcast, Q!NoSlot, QP!NoSlot
  <2> QED BY <2>1 DEF QP!Next
<1>6. ASSUME \/ DecoderPops
             \/ (dpc = "drain" /\ Q!PopStart /\ UNCHANGED rpc /\ dpc' = "drainfree")
      PROVE  [QP!Next]_QP!vars
  <2>1. QP!PopStart
    BY <1>6 DEF DecoderPops, Q!PopStart, Q!CanPop, QP!PopStart, QP!CanPop,
      QP!Runs, Q!Readable, QP!Readable
  <2> QED BY <2>1 DEF QP!Next
<1>7. CASE DecoderWaitsForPacket
  <2>1. QP!PopWait
    BY <1>7 DEF DecoderWaitsForPacket, Q!PopWait, Q!CanPop, Q!ring, QP!PopWait,
      QP!CanPop, QP!Runs, QP!Block, QP!ring, Q!Readable, QP!Readable
  <2> QED BY <2>1 DEF QP!Next
<1>8. CASE DecoderFrees
  <2>1. CASE UNCHANGED <<queue, waiting>>
    BY <1>8, <2>1, Quiet DEF DecoderFrees
  <2>2. CASE Q!Use([Current EXCEPT !.pkt = Empty])
    <3> DEFINE v == [Current EXCEPT !.pkt = Empty]
    <3>1. v \in Contents
      BY DEF Contents, Current
    <3> HIDE DEF v
    <3>2. QP!Use(v)
      BY <1>8, <2>2 DEF v, DecoderFrees, Q!Use, QP!Use, QP!Runs
    <3> QED BY <3>1, <3>2 DEF QP!Next
  <2> QED BY <1>8, <2>1, <2>2 DEF DecoderFrees
<1>9. ASSUME \/ DecoderGives
             \/ (dpc = "drainfinish" /\ Q!PopFinish /\ UNCHANGED rpc /\ dpc' = "drain")
      PROVE  [QP!Next]_QP!vars
  <2>1. QP!PopFinish
    BY <1>9 DEF DecoderGives, Q!PopFinish, QP!PopFinish, QP!Runs, QP!Broadcast,
      Q!queue_get_next, QP!queue_get_next
  <2> QED BY <2>1 DEF QP!Next
<1>10. CASE DecoderDrains
  BY <1>6, <1>9, <1>10 DEF DecoderDrains
<1>11. CASE OpenSucceeds
  <2>1. QP!QueueInit
    BY <1>11 DEF OpenSucceeds, Q!QueueInit, QP!QueueInit, Q!Slots, QP!Slots
  <2> QED BY <2>1 DEF QP!Next
<1>12. CASE FreeQueue
  <2>1. QP!Free /\ QP!Quiescent
    BY <1>12 DEF FreeQueue, Q!Free, QP!Free, QP!Quiescent, QP!Runs, QP!NoSlot,
      Q!NoSlot, Q!Threads
  <2> QED BY <2>1 DEF QP!Next
<1>13. ASSUME \/ ReaderReturns \/ ReaderAttach \/ ReaderSkips \/ ReaderWaitsForStop
              \/ ReaderExits
              \/ ReaderWaitsForStreams \/ ReaderEnds
       PROVE  [QP!Next]_QP!vars
  <2>1. UNCHANGED queue /\ QueueWaiters' \subseteq QueueWaiters
    BY <1>13 DEF ReaderReturns, ReadPacket, ReadFails, ReaderAttach, ReaderSkips,
      ReaderWaitsForStop, ReaderExits, ReaderWaitsForStreams, ReaderEnds,
      NoLostWakeup
  <2> QED BY <2>1, Quiet
<1>14. ASSUME \/ DecoderAttach \/ DecoderDecodes \/ FrameSkipped \/ FramePaused
              \/ FrameDue
              \/ FrameEarly \/ SleepEnds \/ DecoderStops \/ DecoderEnds
       PROVE  [QP!Next]_QP!vars
  <2>1. UNCHANGED queue /\ QueueWaiters' \subseteq QueueWaiters
    BY <1>14 DEF DecoderAttach, DecoderDecodes, FrameSkipped, FramePaused,
      FrameDue, FrameEarly, SleepEnds, DecoderStops, DecoderEnds, NoLostWakeup
  <2> QED BY <2>1, Quiet
<1>15. ASSUME \/ OpenFails \/ PlayPrepare \/ CreateDecoder \/ CreateReader
              \/ JoinReader \/ JoinDecoder
              \/ OpenStarts \/ Resume \/ StopCall \/ StopIgnored
       PROVE  [QP!Next]_QP!vars
  <2>1. UNCHANGED queue /\ QueueWaiters' \subseteq QueueWaiters
    BY <1>15 DEF OpenFails, PlayPrepare, CreateDecoder, CreateReader, JoinReader,
      JoinDecoder, OpenStarts, Resume, StopCall, StopIgnored
  <2> QED BY <2>1, Quiet
<1>16. CASE Wake \/ UNCHANGED vars
  <2>1. UNCHANGED queue /\ QueueWaiters' \subseteq QueueWaiters
    BY <1>16 DEF Wake, Q!Wake, Q!ring, vars
  <2> QED BY <2>1, Quiet
<1>17. CASE StopThreads
  <2>1. UNCHANGED queue /\ QueueWaiters' \subseteq QueueWaiters
    BY <1>17 DEF StopThreads
  <2> QED BY <2>1, Quiet
<1> QED
  BY <1>1, <1>2, <1>3, <1>4, <1>5, <1>6, <1>7, <1>8, <1>9, <1>10, <1>11, <1>12,
    <1>13, <1>14, <1>15, <1>16, <1>17 DEF Next, ReaderWorks, DecoderWorks,
    CtrlWorks, Users

-----------------------------------------------------------------------------
(* The ring while a session lives.                                           *)

\* the reader of this session has not begun to read
Unstarted ==
  cpc \in {"prepare", "create_decoder", "create_reader", "fail"} \/ rpc = "attach"

\* only the last element can be unready: the one the reader is pushing, or the
\* one it gave up on its way out
HoleLast ==
  \A s \in Slots :
    Q!InRange(s) /\ ~ready[s] =>
      /\ Q!queue_get_next(s) = next_to_write
      /\ Reserved = s \/ rpc \in {"exit", "stopwait", "done", "off"}

\* a session starts with an empty queue
EmptyAtStart == Unstarted => next_to_write = next_to_read /\ nread = 0

\* what is said of the slots
Ring == Q!SlotOwnership /\ HoleLast /\ EmptyAtStart

\* The assumptions of PacketQueue hold for the queue of a player.
LEMMA QueueAssumptions ==
  /\ Size \in Nat \ {0}
  /\ Decoder \notin {Reader} /\ Ctrl \notin {Reader} /\ Ctrl # Decoder
  /\ {Reader} \cap {"ready", "lost"} = {}
  /\ Fresh \subseteq Contents
BY PipelineAssumption DEF Fresh, Contents, Reader, Decoder, Ctrl

\* Both instances of the queue see the same ring.
LEMMA SameRing ==
  /\ Q!TypeOK => QP!TypeOK
  /\ QP!TypeOK /\ waiting \subseteq Q!Threads => Q!TypeOK
  /\ Q!SlotOwnership <=> QP!SlotOwnership
BY DEF Q!TypeOK, QP!TypeOK, Q!Slots, QP!Slots, Q!NoSlot, QP!NoSlot, Q!Threads,
  QP!Threads, QueueWaiters, Q!SlotOwnership, QP!SlotOwnership, Q!ExclusiveWrite,
  QP!ExclusiveWrite, Q!ReadsComplete, QP!ReadsComplete, Q!InRange, QP!InRange

\* So they do in the next state.
LEMMA SameRingNext ==
  /\ (QP!TypeOK /\ waiting \subseteq Q!Threads => Q!TypeOK)'
  /\ (Q!SlotOwnership <=> QP!SlotOwnership)'
BY DEF Q!TypeOK, QP!TypeOK, Q!Slots, QP!Slots, Q!NoSlot, QP!NoSlot, Q!Threads,
  QP!Threads, QueueWaiters, Q!SlotOwnership, QP!SlotOwnership, Q!ExclusiveWrite,
  QP!ExclusiveWrite, Q!ReadsComplete, QP!ReadsComplete, Q!InRange, QP!InRange

\* The queue keeps its types.
LEMMA QueueTypeNext == Q!TypeOK /\ Skeleton /\ [Next]_vars => Q!TypeOK'
<1> SUFFICES ASSUME Q!TypeOK, Skeleton, [Next]_vars PROVE Q!TypeOK'
  OBVIOUS
<1>1. QP!TypeOK /\ [QP!Next]_QP!vars
  BY SameRing, QueueNext
<1>2. QP!TypeOK'
  BY <1>1, QueueAssumptions, QP!TypeStep
<1>3. waiting' \subseteq Q!Threads
  BY SleepersNext DEF Skeleton, Sleepers, Q!Threads
<1> QED BY <1>2, <1>3, SameRingNext

\* A slot keeps its owner.  (queue.c:121-260)
LEMMA OwnershipNext == Q!TypeOK /\ Skeleton /\ Q!SlotOwnership /\ [Next]_vars
  => Q!SlotOwnership'
<1> SUFFICES ASSUME Q!TypeOK, Skeleton, Q!SlotOwnership, [Next]_vars
             PROVE  Q!SlotOwnership'
  OBVIOUS
<1>1. QP!TypeOK /\ QP!SlotOwnership /\ [QP!Next]_QP!vars
  BY SameRing, QueueNext
<1>2. QP!FreedUnused
  BY DEF QP!FreedUnused, QP!NoSlot, Q!NoSlot, Skeleton, Control, Labels, Reserved,
    Writing
<1>3. QP!SlotOwnership'
  BY <1>1, <1>2, QueueAssumptions, QP!OwnershipStep
<1> QED BY <1>3, SameRingNext

\* s was reserved before t, for two slots in use
Before(s, t) ==
  IF (s >= next_to_read) <=> (t >= next_to_read) THEN s < t ELSE s >= next_to_read

\* The successor of a slot, without the remainder.  (queue.c:47-49)
LEMMA NextSlot ==
  ASSUME NEW v \in Slots
  PROVE  /\ Q!queue_get_next(v) = IF v + 1 = Size THEN 0 ELSE v + 1
         /\ Q!queue_get_next(v) \in Slots
<1>1. /\ QP!queue_get_next(v) = IF v + 1 = Size THEN 0 ELSE v + 1
      /\ QP!queue_get_next(v) \in QP!Slots
  BY QueueAssumptions, QP!GetNext DEF Slots, Q!Slots, QP!Slots
<1> QED BY <1>1 DEF Q!queue_get_next, QP!queue_get_next, Slots, Q!Slots, QP!Slots

\* A push adds its slot as the youngest.  (queue.c:121-153)
LEMMA Grows ==
  ASSUME Q!TypeOK, ~Q!Full, next_to_read' = next_to_read,
         next_to_write' = Q!queue_get_next(next_to_write)
  PROVE  /\ next_to_write \in Slots /\ ~Q!InRange(next_to_write)
         /\ \A s \in Slots : Q!InRange(s)' <=> (Q!InRange(s) \/ s = next_to_write)
         /\ \A s \in Slots : Q!InRange(s) => Before(s, next_to_write)
         /\ \A s \in Slots : Q!InRange(s) => Q!queue_get_next(s) # next_to_write'
         /\ \A s, t \in Slots : Before(s, t)' <=> Before(s, t)
<1>1. \A s \in Slots : Q!queue_get_next(s) = IF s + 1 = Size THEN 0 ELSE s + 1
  BY NextSlot
<1> QED
  BY <1>1, PipelineAssumption DEF Q!TypeOK, Q!Full, Q!InRange, Q!Slots, Slots,
    Before

\* A pop takes the oldest slot away.  (queue.c:253-260)
LEMMA Shrinks ==
  ASSUME Q!TypeOK, Q!InRange(next_to_read), next_to_write' = next_to_write,
         next_to_read' = Q!queue_get_next(next_to_read)
  PROVE  /\ \A s \in Slots : Q!InRange(s)' <=> (Q!InRange(s) /\ s # next_to_read)
         /\ \A s, t \in Slots :
              Q!InRange(s) /\ Q!InRange(t) /\ s # next_to_read /\ t # next_to_read
                => (Before(s, t)' <=> Before(s, t))
<1>1. \A s \in Slots : Q!queue_get_next(s) = IF s + 1 = Size THEN 0 ELSE s + 1
  BY NextSlot
<1> QED
  BY <1>1, PipelineAssumption DEF Q!TypeOK, Q!InRange, Q!Slots, Slots, Before

\* Every other element is younger than the one at next_to_read.
LEMMA Oldest ==
  ASSUME Q!TypeOK, NEW s \in Slots, Q!InRange(s), s # next_to_read
  PROVE  Before(next_to_read, s)
BY PipelineAssumption DEF Q!TypeOK, Q!InRange, Q!Slots, Slots, Before

\* Every other element is older than the one next to next_to_write.
LEMMA Last ==
  ASSUME Q!TypeOK, NEW s \in Slots, NEW t \in Slots, Q!InRange(s), Q!InRange(t), s # t,
         Q!queue_get_next(t) = next_to_write
  PROVE  Before(s, t)
<1>1. Q!queue_get_next(t) = IF t + 1 = Size THEN 0 ELSE t + 1
  BY NextSlot
<1> QED
  BY <1>1, PipelineAssumption DEF Q!TypeOK, Q!InRange, Q!Slots, Slots, Before

\* Of two slots one was reserved first.
LEMMA Ordered ==
  ASSUME Q!TypeOK, NEW s \in Slots, NEW t \in Slots, s # t
  PROVE  Before(s, t) \/ Before(t, s)
BY PipelineAssumption DEF Q!TypeOK, Q!Slots, Slots, Before

\* The last element is the only unready one, and a session starts empty.
LEMMA RingNext == Q!TypeOK /\ Skeleton /\ Ring /\ [Next]_vars
  => (HoleLast /\ EmptyAtStart)'
<1> SUFFICES ASSUME Q!TypeOK, Skeleton, Ring, [Next]_vars
             PROVE  (HoleLast /\ EmptyAtStart)'
  OBVIOUS
<1> USE DEF Ring, Skeleton, Flags, Places, Labels, Control, Reserved, Writing,
  Working, Draining, Unstarted
<1>1. CASE ReaderReserves
  <2>1. /\ ~Q!Full /\ next_to_read' = next_to_read /\ rpc' \in Writing
        /\ next_to_write' = Q!queue_get_next(next_to_write)
        /\ to_write' = [to_write EXCEPT ![Reader] = next_to_write]
        /\ ready' = [ready EXCEPT ![next_to_write] = FALSE]
        /\ UNCHANGED cpc /\ rpc \notin Writing
        /\ rpc \notin {"exit", "stopwait", "done", "off", "attach"}
    BY <1>1 DEF ReaderReserves, MayPush, WantsSlot, Q!PushStart, Q!CanPush
  <2>2. HoleLast'
    BY <2>1, Grows DEF HoleLast, Q!TypeOK, Q!NoSlot, Q!queue_get_next, Slots,
      Q!Slots
  <2>3. EmptyAtStart'
    BY <2>1 DEF EmptyAtStart
  <2> QED BY <2>2, <2>3
<1>2. ASSUME ReaderFinishes \/ ReaderSendsEnd PROVE (HoleLast /\ EmptyAtStart)'
  BY <1>2 DEF ReaderFinishes, ReaderSendsEnd, Q!PushFinish, Q!Pushing, Q!TypeOK,
    Q!NoSlot, HoleLast, EmptyAtStart, Q!InRange, Q!queue_get_next, Slots, Q!Slots
<1>3. CASE ReaderDups
  BY <1>3 DEF ReaderDups, Q!PushAbandon, Q!Pushing, Q!ring, Q!NoSlot, HoleLast,
    EmptyAtStart, Q!InRange, Q!queue_get_next, Slots, Q!Slots
<1>4. ASSUME Q!PopFinish, UNCHANGED <<rpc, cpc, nread>>
      PROVE  (HoleLast /\ EmptyAtStart)'
  <2>1. /\ next_to_write' = next_to_write
        /\ next_to_read' = Q!queue_get_next(next_to_read)
        /\ UNCHANGED <<ready, to_write>> /\ Q!InRange(next_to_read)
    BY <1>4 DEF Q!PopFinish, Q!SlotOwnership, Q!ReadsComplete
  <2>2. HoleLast'
    BY <1>4, <2>1, Shrinks DEF HoleLast, Slots, Q!Slots, Q!queue_get_next
  <2>3. ~Unstarted
    BY <2>1, PipelineAssumption DEF EmptyAtStart, Q!InRange, Q!TypeOK, Q!Slots
  <2> QED BY <1>4, <2>2, <2>3 DEF EmptyAtStart
<1>5. CASE OpenSucceeds
  BY <1>5 DEF OpenSucceeds, Q!QueueInit, HoleLast, EmptyAtStart, Q!InRange, Slots,
    Q!Slots
<1>6. CASE DecoderPops \/ (dpc = "drain" /\ DecoderDrains)
  BY <1>6 DEF DecoderPops, DecoderDrains, Q!PopStart, HoleLast, EmptyAtStart,
    Q!InRange, Slots, Q!Slots, Q!queue_get_next
<1>7. ASSUME UNCHANGED <<next_to_write, next_to_read, ready, to_write>>,
             rpc \in {"exit", "stopwait", "done", "off"}
               => Unstarted \/ rpc' \in {"exit", "stopwait", "done", "off"},
             Unstarted' => Unstarted /\ UNCHANGED nread
      PROVE  (HoleLast /\ EmptyAtStart)'
  <2>1. EmptyAtStart'
    BY <1>7 DEF EmptyAtStart
  <2>2. CASE Unstarted
    <3>1. \A s \in Slots : ~Q!InRange(s)'
      BY <1>7, <2>2, PipelineAssumption DEF EmptyAtStart, Q!InRange, Q!TypeOK,
        Q!Slots, Slots
    <3> QED BY <2>1, <3>1 DEF HoleLast, Slots, Q!Slots
  <2>3. CASE ~Unstarted
    BY <1>7, <2>1, <2>3 DEF HoleLast, Q!InRange, Slots, Q!Slots, Q!queue_get_next
  <2> QED BY <2>2, <2>3
<1>8. CASE \/ ReaderReturns \/ ReaderAttach \/ ReaderSkips \/ ReaderWaitsForRoom
           \/ ReaderFills \/ ReaderMarksEnd
           \/ ReaderWaitsForStop \/ ReaderExits \/ ReaderWaitsForStreams
           \/ ReaderEnds
  <2>1. /\ UNCHANGED <<next_to_write, next_to_read, ready, to_write>>
        /\ rpc \in {"exit", "stopwait", "done", "off"}
             => Unstarted \/ rpc' \in {"exit", "stopwait", "done", "off"}
        /\ Unstarted' => Unstarted /\ UNCHANGED nread
    BY <1>8 DEF ReaderReturns, ReadPacket, ReadFails, ReaderAttach, ReaderSkips,
      ReaderWaitsForRoom, Q!PushWait, Q!ring, ReaderFills, ReaderMarksEnd, Q!Fill,
      ReaderWaitsForStop, ReaderExits, Release, ReaderWaitsForStreams, ReaderEnds
  <2> QED BY <1>7, <2>1
<1>9. CASE \/ DecoderAttach \/ DecoderDecodes \/ FrameSkipped \/ FramePaused
           \/ FrameDue \/ DecoderWaitsForPacket
           \/ FrameEarly \/ SleepEnds \/ DecoderStops \/ DecoderEnds \/ DecoderFrees
  <2>1. UNCHANGED <<next_to_write, next_to_read, ready, to_write, rpc, cpc, nread>>
    BY <1>9 DEF DecoderAttach, DecoderDecodes, FrameSkipped, FramePaused,
      FrameDue, FrameEarly, DecoderWaitsForPacket, Q!PopWait, Q!ring, SleepEnds,
      DecoderStops, DecoderEnds, DecoderFrees, Q!Use, Release
  <2> QED BY <1>7, <2>1
<1>10. CASE \/ OpenFails \/ PlayPrepare \/ CreateDecoder \/ CreateReader
            \/ JoinReader \/ JoinDecoder
            \/ OpenStarts \/ Resume \/ StopCall \/ StopIgnored \/ StopThreads
            \/ FreeQueue
  <2>1. /\ UNCHANGED <<next_to_write, next_to_read, ready, to_write>>
        /\ rpc \in {"exit", "stopwait", "done", "off"}
             => Unstarted \/ rpc' \in {"exit", "stopwait", "done", "off"}
        /\ Unstarted' => Unstarted /\ UNCHANGED nread
    BY <1>10 DEF OpenFails, PlayPrepare, CreateDecoder, CreateReader, JoinReader,
      JoinDecoder, OpenStarts, Resume, StopCall, StopIgnored, StopThreads,
      FreeQueue, Q!Free
  <2> QED BY <1>7, <2>1
<1>11. CASE Wake \/ UNCHANGED vars
  <2>1. UNCHANGED <<next_to_write, next_to_read, ready, to_write, rpc, cpc, nread>>
    BY <1>11 DEF Wake, Q!Wake, Q!ring, vars
  <2> QED BY <1>7, <2>1
<1>12. CASE DecoderGives \/ (dpc = "drainfinish" /\ DecoderDrains)
  BY <1>4, <1>12 DEF DecoderGives, DecoderDrains
<1> QED
  BY <1>1, <1>2, <1>3, <1>5, <1>6, <1>8, <1>9, <1>10, <1>11, <1>12 DEF Next,
    ReaderWorks, DecoderWorks, CtrlWorks, Users, DecoderDrains

-----------------------------------------------------------------------------
(* The books: where each packet is.                                          *)

\* an element that is responsible for its packet
Held(s) == Q!InRange(s) /\ (ready[s] \/ (Reserved = s /\ rpc = "finish"))

\* the reader carries the last packet until it gives it away
Carried ==
  IF rpc \in {"push", "fill", "dup", "exit"}
    THEN nread >= 1 /\ rpkt = nread /\ freed[rpkt] = 0
    ELSE rpkt = Empty

\* no packet is freed twice, or before it is read
Counted == freed \in [Packets -> 0 .. 1] /\ \A p \in Packets : p > nread => freed[p] = 0

\* the packet of an element is not freed and not in the reader's hands
Alive ==
  \A s \in Slots : Held(s) /\ elem[s].pkt \in Packets =>
    elem[s].pkt <= nread /\ freed[elem[s].pkt] = 0 /\ elem[s].pkt # rpkt

\* packets lie in the ring in the order they were read
InOrder ==
  \A s, t \in Slots :
    /\ Held(s) /\ Held(t) /\ Before(s, t)
    /\ elem[s].pkt \in Packets /\ elem[t].pkt \in Packets
    => elem[s].pkt < elem[t].pkt

\* a packet that is not freed is with the reader or in an element
Kept ==
  \A p \in 1 .. nread :
    freed[p] = 1 \/ p = rpkt \/ \E s \in Slots : Held(s) /\ elem[s].pkt = p

\* the end of stream is the last element, without a packet, and the reader
\* pushes nothing after it
EndLast ==
  \A s \in Slots : Held(s) /\ elem[s].eos =>
    /\ Q!queue_get_next(s) = next_to_write /\ elem[s].pkt \notin Packets
    /\ rpc \in {"eoswait", "stopwait", "done", "off"}

\* the decoder has freed the packet of its element, and not given it back
Giving == dpc \in {"give", "drainfinish"}

\* every other element has its packet
Loaded ==
  /\ \A s \in Slots : Held(s) /\ ~elem[s].eos /\ ~(s = next_to_read /\ Giving)
       => elem[s].pkt \in Packets
  /\ Giving => elem[next_to_read].pkt \notin Packets

\* a slot that is not in use has no packet
Spent == \A s \in Slots : ~Q!InRange(s) => elem[s].pkt \notin Packets

\* how far the reader has come with the element it pushes
Written ==
  /\ rpc \in {"fill", "eosfill"} => elem[Reserved].pkt \notin Packets
  /\ rpc \in {"dup", "finish"} => elem[Reserved] = [eos |-> FALSE, pkt |-> nread]
  /\ rpc = "eosfinish" => elem[Reserved].eos /\ elem[Reserved].pkt \notin Packets

\* the account of all packets
Books ==
  /\ Carried /\ Counted /\ Alive /\ InOrder /\ Kept
  /\ EndLast /\ Loaded /\ Spent /\ Written

\* the threads leave an empty queue behind, and a session that is over no packet
\* (decode.c:169-191, 775-807)
Ends ==
  /\ rpc = "stopwait" /\ ~stop_streams => dpc = "done" /\ ~Q!Readable
  /\ live /\ rpc \in {"off", "done"} => ~Q!Readable
  /\ ~live => \A p \in 1 .. nread : freed[p] = 1

\* the inductive invariant
IInv == Q!TypeOK /\ Skeleton /\ Ring /\ Ends /\ Books

\* The slot the reader is pushing is the last one in use.
LEMMA ReservedSlot ==
  ASSUME Q!TypeOK, Skeleton, Ring, rpc \in Writing
  PROVE  /\ Reserved \in Slots /\ Q!InRange(Reserved) /\ ~ready[Reserved]
         /\ Q!queue_get_next(Reserved) = next_to_write
BY DEF Q!TypeOK, Skeleton, Labels, Ring, HoleLast, Q!SlotOwnership,
  Q!ExclusiveWrite, Reserved, Writing, Slots

\* The slot the decoder works on holds a complete element.
LEMMA CurrentSlot ==
  ASSUME Q!TypeOK, Ring, in_read
  PROVE  next_to_read \in Slots /\ Q!InRange(next_to_read) /\ Held(next_to_read)
BY DEF Q!TypeOK, Ring, Q!SlotOwnership, Q!ReadsComplete, Held, Slots

-----------------------------------------------------------------------------
(* One action after the other keeps the books.                               *)

\* labels at which the reader has a packet or a slot
Handling == {"push", "fill", "dup", "exit", "finish", "eosfill", "eosfinish"}
\* labels at which it pushes nothing more
Quitting == {"eoswait", "stopwait", "done", "off"}

\* Steps that move no packet.
LEMMA Steady ==
  ASSUME Books,
         UNCHANGED <<next_to_write, next_to_read, ready, elem, to_write, nread,
                     freed, rpkt>>,
         rpc' # rpc => rpc \notin Handling /\ rpc' \notin Handling,
         rpc \in Quitting => rpc' \in Quitting \/ \A s \in Slots : ~Held(s),
         Giving' <=> Giving
  PROVE  Books'
<1>1. \A s \in Slots : Held(s)' <=> Held(s)
  BY DEF Held, Handling, Reserved, Q!InRange
<1>2. (Carried /\ Counted /\ Written)'
  BY DEF Books, Carried, Counted, Written, Handling, Reserved
<1>3. (Alive /\ InOrder /\ Kept /\ EndLast /\ Loaded /\ Spent)'
  BY <1>1 DEF Books, Alive, InOrder, Kept, EndLast, Loaded, Spent, Quitting,
    Before, Q!InRange, Q!queue_get_next, Slots, Q!Slots
<1> QED BY <1>2, <1>3 DEF Books

\* A packet that was read is the youngest, and the reader has it.
\* (decode.c:684-689)
LEMMA ReadPacketBooks == IInv /\ ReadPacket => Books'
<1> SUFFICES ASSUME IInv, ReadPacket PROVE Books'
  OBVIOUS
<1>1. /\ UNCHANGED <<next_to_write, next_to_read, ready, elem, to_write, freed, dpc>>
      /\ rpc = "read" /\ rpc' = "push" /\ nread' = nread + 1 /\ rpkt' = nread + 1
      /\ nread < MaxPackets
      /\ nread \in 0 .. MaxPackets /\ rpkt = Empty
  BY DEF ReadPacket, IInv, Books, Carried, Skeleton, Places
<1>2. \A s \in Slots : Held(s)' <=> Held(s)
  BY <1>1 DEF Held, Reserved, Q!InRange
<1>3. Carried' /\ Counted' /\ Written' /\ Kept'
  BY <1>1, <1>2, PipelineAssumption DEF IInv, Books, Carried, Counted, Written,
    Kept, Packets, Slots, Q!Slots
<1>4. Alive' /\ InOrder' /\ EndLast' /\ Loaded' /\ Spent'
  BY <1>1, <1>2, PipelineAssumption DEF IInv, Books, Alive, InOrder, EndLast,
    Loaded, Giving, Spent, Before, Packets, Slots, Q!Slots, Q!InRange,
    Q!queue_get_next
<1> QED BY <1>3, <1>4 DEF Books

\* A packet of a stream that is not captured is freed at once.
\* (decode.c:745-754, 874)
LEMMA ReaderSkipsBooks == IInv /\ ReaderSkips => Books'
<1> SUFFICES ASSUME IInv, ReaderSkips PROVE Books'
  OBVIOUS
<1>1. /\ UNCHANGED <<next_to_write, next_to_read, ready, elem, to_write, nread, dpc>>
      /\ rpc = "push" /\ rpc' = "read" /\ rpkt' = Empty /\ nread \in 1 .. MaxPackets
      /\ rpkt = nread /\ rpkt \in Packets /\ freed[rpkt] = 0
      /\ freed' = [freed EXCEPT ![rpkt] = freed[rpkt] + 1]
  BY PipelineAssumption DEF ReaderSkips, Release, IInv, Books, Carried, Skeleton,
    Places, Packets
<1>2. \A s \in Slots : Held(s)' <=> Held(s)
  BY <1>1 DEF Held, Reserved, Q!InRange
<1>3. Carried' /\ Counted' /\ Written' /\ Kept'
  BY <1>1, <1>2, PipelineAssumption DEF IInv, Books, Carried, Counted, Written,
    Kept, Packets, Slots, Q!Slots
<1>4. Alive' /\ InOrder' /\ EndLast' /\ Loaded' /\ Spent'
  BY <1>1, <1>2, PipelineAssumption DEF IInv, Books, Counted, Alive, InOrder,
    EndLast, Loaded, Giving, Spent, Before, Packets, Slots, Q!Slots, Q!InRange,
    Q!queue_get_next
<1> QED BY <1>3, <1>4 DEF Books

\* On its way out the reader frees the packet it has.  (decode.c:789-793)
LEMMA ReaderExitsBooks == IInv /\ ReaderExits => Books'
<1> SUFFICES ASSUME IInv, ReaderExits PROVE Books'
  OBVIOUS
<1>1. /\ UNCHANGED <<next_to_write, next_to_read, ready, elem, to_write, nread, dpc>>
      /\ rpc \in {"exit", "push", "eos", "eoswait"} /\ rpc' = "stopwait"
      /\ rpkt' = Empty /\ nread \in 0 .. MaxPackets
      /\ freed' = IF rpkt \in Packets THEN [freed EXCEPT ![rpkt] = freed[rpkt] + 1]
                                      ELSE freed
      /\ rpkt \in Packets => rpkt = nread /\ freed[rpkt] = 0
      /\ rpkt \notin Packets => rpkt = Empty
  BY PipelineAssumption DEF ReaderExits, Release, IInv, Books, Carried, Skeleton,
    Places, Packets
<1>2. \A s \in Slots : Held(s)' <=> Held(s)
  BY <1>1 DEF Held, Reserved, Q!InRange
<1>3. Carried' /\ Counted' /\ Written' /\ Kept'
  BY <1>1, <1>2, PipelineAssumption DEF IInv, Books, Carried, Counted, Written,
    Kept, Packets, Slots, Q!Slots
<1>4. Alive' /\ InOrder' /\ EndLast' /\ Loaded' /\ Spent'
  BY <1>1, <1>2, PipelineAssumption DEF IInv, Books, Counted, Alive, InOrder,
    EndLast, Loaded, Giving, Spent, Before, Packets, Slots, Q!Slots, Q!InRange,
    Q!queue_get_next
<1> QED BY <1>3, <1>4 DEF Books

\* A slot that is reserved holds nothing yet.  (queue.c:121-153)
LEMMA ReaderReservesBooks == IInv /\ ReaderReserves => Books'
<1> SUFFICES ASSUME IInv, ReaderReserves PROVE Books'
  OBVIOUS
<1>1. /\ ~Q!Full /\ next_to_read' = next_to_read
      /\ next_to_write' = Q!queue_get_next(next_to_write)
      /\ to_write' = [to_write EXCEPT ![Reader] = next_to_write]
      /\ ready' = [ready EXCEPT ![next_to_write] = FALSE]
      /\ \/ rpc = "push" /\ rpc' = "fill"
         \/ rpc = "eos" /\ rpc' = "eosfill"
      /\ UNCHANGED <<elem, nread, freed, rpkt, dpc>>
  BY DEF ReaderReserves, MayPush, WantsSlot, Q!PushStart
<1>2. /\ next_to_write \in Slots /\ ~Q!InRange(next_to_write)
      /\ \A s \in Slots : Q!InRange(s)' <=> (Q!InRange(s) \/ s = next_to_write)
      /\ \A s, t \in Slots : Before(s, t)' <=> Before(s, t)
  BY <1>1, Grows DEF IInv
<1>3. \A s \in Slots : Held(s)' <=> Held(s)
  BY <1>1, <1>2 DEF Held, Slots, Q!Slots, IInv, Q!TypeOK
<1>4. Reserved' = next_to_write
  BY <1>1 DEF IInv, Q!TypeOK, Reserved
<1>5. Carried' /\ Counted' /\ Written' /\ Kept' /\ Spent'
  BY <1>1, <1>2, <1>3, <1>4 DEF IInv, Books, Carried, Counted, Written, Kept,
    Spent, Slots, Q!Slots
<1>6. Alive' /\ InOrder' /\ EndLast' /\ Loaded'
  BY <1>1, <1>2, <1>3 DEF IInv, Books, Alive, InOrder, EndLast, Loaded, Giving,
    Slots, Q!Slots
<1> QED BY <1>5, <1>6 DEF Books

\* The element that is filled is not responsible for a packet yet.
\* (decode.c:715, 775-777)
LEMMA ReaderFillsBooks == IInv /\ (ReaderFills \/ ReaderMarksEnd) => Books'
<1> SUFFICES ASSUME IInv, ReaderFills \/ ReaderMarksEnd PROVE Books'
  OBVIOUS
<1>1. /\ UNCHANGED <<next_to_write, next_to_read, ready, to_write, nread, freed,
                     rpkt, dpc>>
      /\ \/ /\ rpc = "fill" /\ rpc' = "dup"
            /\ elem' = [elem EXCEPT ![Reserved] = [eos |-> FALSE, pkt |-> rpkt]]
         \/ /\ rpc = "eosfill" /\ rpc' = "eosfinish"
            /\ elem' = [elem EXCEPT ![Reserved] =
                                   [eos |-> TRUE, pkt |-> elem[Reserved].pkt]]
  BY DEF ReaderFills, ReaderMarksEnd, Q!Fill, Reserved
<1>2. /\ Reserved \in Slots /\ Q!InRange(Reserved) /\ ~ready[Reserved]
      /\ Reserved' = Reserved
  BY <1>1, ReservedSlot DEF IInv, Writing, Reserved
<1>3. \A s \in Slots : Held(s)' <=> Held(s)
  BY <1>1, <1>2 DEF Held, Q!InRange
<1>4. \A s \in Slots : s # Reserved => elem'[s] = elem[s]
  BY <1>1 DEF IInv, Q!TypeOK, Slots
<1>5. /\ rpc' = "dup" => elem'[Reserved] = [eos |-> FALSE, pkt |-> rpkt]
      /\ rpc' = "eosfinish"
           => elem'[Reserved] = [eos |-> TRUE, pkt |-> elem[Reserved].pkt]
  BY <1>1, <1>2 DEF IInv, Q!TypeOK, Slots
<1>6. ~Held(Reserved)
  BY <1>1, <1>2 DEF Held
<1>7. next_to_read = Reserved => ~Giving
  BY <1>2, CurrentSlot, <1>6 DEF Giving, IInv, Skeleton, Labels, Working
<1>8. Carried' /\ Counted' /\ Written' /\ Kept' /\ Spent'
  <2>1. Carried' /\ Counted'
    BY <1>1 DEF IInv, Books, Carried, Counted
  <2>2. Written'
    <3>1. CASE rpc = "fill"
      BY <1>1, <1>2, <1>5, <3>1 DEF IInv, Books, Carried, Written
    <3>2. CASE rpc = "eosfill"
      <4>1. /\ elem'[Reserved] = [eos |-> TRUE, pkt |-> elem[Reserved].pkt]
            /\ elem[Reserved].pkt \notin Packets
        BY <1>1, <1>5, <3>2 DEF IInv, Books, Written
      <4>2. elem'[Reserved].eos /\ elem'[Reserved].pkt \notin Packets
        BY <4>1
      <4> QED BY <1>1, <1>2, <3>2, <4>2 DEF Written
    <3> QED BY <1>1, <3>1, <3>2
  <2>3. Kept' /\ Spent'
    BY <1>1, <1>2, <1>3, <1>4, <1>6 DEF IInv, Books, Kept, Spent, Slots, Q!Slots,
      Q!InRange
  <2> QED BY <2>1, <2>2, <2>3
<1>9. Alive' /\ InOrder' /\ EndLast' /\ Loaded'
  <2>1. Giving => next_to_read # Reserved /\ next_to_read \in Slots
    BY <1>7 DEF IInv, Q!TypeOK, Slots
  <2> QED BY <1>1, <1>2, <1>3, <1>4, <1>6, <2>1 DEF IInv, Books, Alive, InOrder,
    EndLast, Loaded, Giving, Before
<1> QED BY <1>8, <1>9 DEF Books

\* Once av_dup_packet succeeds the packet belongs to the element, which is the
\* youngest; when it fails the slot is given up and the reader keeps the packet.
\* (decode.c:779-783)
LEMMA ReaderDupsBooks == IInv /\ ReaderDups => Books'
<1> SUFFICES ASSUME IInv, ReaderDups PROVE Books'
  OBVIOUS
<1>1. /\ Reserved \in Slots /\ Q!InRange(Reserved) /\ ~ready[Reserved]
      /\ Q!queue_get_next(Reserved) = next_to_write
  BY ReservedSlot DEF IInv, Writing, ReaderDups
<1>2. /\ rpc = "dup" /\ nread >= 1 /\ rpkt = nread /\ freed[nread] = 0
      /\ nread \in 1 .. MaxPackets
      /\ elem[Reserved] = [eos |-> FALSE, pkt |-> nread]
  BY DEF ReaderDups, IInv, Books, Carried, Written, Skeleton, Places
<1>3. CASE rpc' = "exit"
  <2>1. UNCHANGED <<next_to_write, next_to_read, ready, elem, nread, freed, rpkt,
                    dpc>>
    BY <1>3 DEF ReaderDups, Q!PushAbandon, Q!ring
  <2>2. \A s \in Slots : Held(s)' <=> Held(s)
    BY <1>2, <1>3, <2>1 DEF Held, Q!InRange
  <2>3. Carried' /\ Counted' /\ Written' /\ Kept' /\ Spent'
    BY <1>2, <1>3, <2>1, <2>2 DEF IInv, Books, Carried, Counted, Written, Kept,
      Spent, Slots, Q!Slots, Q!InRange
  <2>4. Alive' /\ InOrder' /\ EndLast' /\ Loaded'
    BY <1>2, <1>3, <2>1, <2>2 DEF IInv, Books, Alive, InOrder, EndLast, Loaded,
      Giving, Before, Slots, Q!Slots
  <2> QED BY <2>3, <2>4 DEF Books
<1>4. CASE rpc' = "finish" /\ rpkt' = Empty
  <2>1. UNCHANGED <<next_to_write, next_to_read, ready, elem, to_write, nread,
                    freed, dpc>>
    BY <1>4 DEF ReaderDups
  <2>2. \A s \in Slots : Held(s)' <=> (Held(s) \/ s = Reserved)
    BY <1>1, <1>2, <1>4, <2>1 DEF Held, Q!InRange, Reserved
  <2>3. Carried' /\ Counted' /\ Written' /\ Spent'
    BY <1>2, <1>4, <2>1 DEF IInv, Books, Carried, Counted, Written, Spent, Slots,
      Q!Slots, Q!InRange, Reserved
  <2>4. Kept'
    BY <1>1, <1>2, <1>4, <2>1, <2>2 DEF IInv, Books, Kept, Slots, Q!Slots
  <2>5. \A s \in Slots : Held(s) => s # Reserved /\ Before(s, Reserved)
    BY <1>1, <1>2, Last DEF Held, IInv
  <2>6. \A s \in Slots : ~Before(Reserved, s) \/ ~Held(s)
    BY <2>5, <1>1 DEF Before, IInv, Q!TypeOK, Slots, Q!Slots
  <2>7. Alive'
    BY <1>2, <1>4, <2>1, <2>2, PipelineAssumption DEF IInv, Books, Alive, Slots,
      Q!Slots, Packets
  <2>8. InOrder'
    <3> SUFFICES ASSUME NEW s \in Slots, NEW t \in Slots,
                        Held(s)', Held(t)', Before(s, t),
                        elem[s].pkt \in Packets, elem[t].pkt \in Packets
                 PROVE  elem[s].pkt < elem[t].pkt
      BY <2>1 DEF InOrder, Before, Slots, Q!Slots
    <3>1. CASE Held(s) /\ Held(t)
      BY <3>1 DEF IInv, Books, InOrder
    <3>2. CASE Held(s) /\ t = Reserved
      BY <1>2, <3>2, PipelineAssumption DEF IInv, Books, Alive, Packets
    <3>3. CASE s = Reserved
      BY <2>2, <2>6, <3>3, <1>1 DEF Before, IInv, Q!TypeOK, Slots, Q!Slots
    <3> QED BY <2>2, <3>1, <3>2, <3>3
  <2>9. EndLast' /\ Loaded'
    BY <1>1, <1>2, <1>4, <2>1, <2>2, PipelineAssumption DEF IInv, Books, EndLast,
      Loaded, Giving, Slots, Q!Slots, Packets
  <2> QED BY <2>3, <2>4, <2>7, <2>8, <2>9 DEF Books
<1> QED BY <1>3, <1>4 DEF ReaderDups

\* An element that is complete stays responsible.  (queue.c:166-177)
LEMMA ReaderFinishesBooks == IInv /\ ReaderFinishes => Books'
<1> SUFFICES ASSUME IInv, ReaderFinishes PROVE Books'
  OBVIOUS
<1>1. /\ UNCHANGED <<next_to_write, next_to_read, elem, nread, freed, rpkt, dpc>>
      /\ rpc = "finish" /\ rpc' = "read" /\ rpkt = Empty
      /\ ready' = [ready EXCEPT ![Reserved] = TRUE]
      /\ to_write' = [to_write EXCEPT ![Reader] = Q!NoSlot]
  BY DEF ReaderFinishes, Q!PushFinish, Reserved, IInv, Books, Carried
<1>2. Reserved \in Slots /\ Q!InRange(Reserved)
  BY <1>1, ReservedSlot DEF IInv, Writing
<1>3. \A s \in Slots : Held(s)' <=> Held(s)
  BY <1>1, <1>2 DEF Held, Q!InRange, IInv, Q!TypeOK, Slots
<1>4. Carried' /\ Counted' /\ Written' /\ Kept' /\ Spent'
  BY <1>1, <1>3 DEF IInv, Books, Carried, Counted, Written, Kept, Spent, Slots,
    Q!Slots, Q!InRange
<1>5. Alive' /\ InOrder' /\ EndLast' /\ Loaded'
  BY <1>1, <1>3 DEF IInv, Books, Alive, InOrder, EndLast, Loaded, Giving, Before,
    Slots, Q!Slots
<1> QED BY <1>4, <1>5 DEF Books

\* The end of stream comes after every packet.  (decode.c:697-728)
LEMMA ReaderSendsEndBooks == IInv /\ ReaderSendsEnd => Books'
<1> SUFFICES ASSUME IInv, ReaderSendsEnd PROVE Books'
  OBVIOUS
<1>1. /\ UNCHANGED <<next_to_write, next_to_read, elem, nread, freed, rpkt, dpc>>
      /\ rpc = "eosfinish" /\ rpc' = "eoswait" /\ rpkt = Empty
      /\ ready' = [ready EXCEPT ![Reserved] = TRUE]
      /\ to_write' = [to_write EXCEPT ![Reader] = Q!NoSlot]
      /\ elem[Reserved].eos /\ elem[Reserved].pkt \notin Packets
  BY DEF ReaderSendsEnd, Q!PushFinish, Reserved, IInv, Books, Carried, Written
<1>2. /\ Reserved \in Slots /\ Q!InRange(Reserved)
      /\ Q!queue_get_next(Reserved) = next_to_write
  BY <1>1, ReservedSlot DEF IInv, Writing
<1>3. \A s \in Slots : Held(s)' <=> (Held(s) \/ s = Reserved)
  BY <1>1, <1>2 DEF Held, Q!InRange, IInv, Q!TypeOK, Slots
<1>4. Carried' /\ Counted' /\ Written' /\ Kept' /\ Spent'
  BY <1>1, <1>3 DEF IInv, Books, Carried, Counted, Written, Kept, Spent, Slots,
    Q!Slots, Q!InRange
<1>5. Alive' /\ InOrder' /\ EndLast' /\ Loaded'
  BY <1>1, <1>2, <1>3 DEF IInv, Books, Alive, InOrder, EndLast, Loaded, Giving,
    Before, Slots, Q!Slots, Q!queue_get_next
<1> QED BY <1>4, <1>5 DEF Books

\* The packet of the element at next_to_read, the oldest there is, is freed and
\* taken out of the element; all younger ones stay.  (decode.c:169-172, 187-192)
LEMMA DecoderFreesBooks == IInv /\ DecoderFrees => Books'
<1> SUFFICES ASSUME IInv, DecoderFrees PROVE Books'
  OBVIOUS
<1>1. /\ next_to_read \in Slots /\ Q!InRange(next_to_read) /\ Held(next_to_read)
      /\ ~Giving /\ Giving'
  BY CurrentSlot DEF IInv, Skeleton, Labels, Working, DecoderFrees, Giving
<1>2. UNCHANGED <<next_to_write, next_to_read, ready, to_write, nread, rpc, rpkt>>
  BY DEF DecoderFrees, Q!Use, Release
<1>3. \A s \in Slots : Held(s)' <=> Held(s)
  BY <1>2 DEF Held, Reserved, Q!InRange
<1>4. CASE elem[next_to_read].eos /\ UNCHANGED <<elem, freed>>
  <2>1. Carried' /\ Counted' /\ Written' /\ Kept' /\ Spent'
    BY <1>2, <1>3, <1>4 DEF IInv, Books, Carried, Counted, Written, Kept, Spent,
      Slots, Q!Slots, Q!InRange, Reserved
  <2>2. Alive' /\ InOrder' /\ EndLast' /\ Loaded'
    BY <1>1, <1>2, <1>3, <1>4 DEF IInv, Books, Alive, InOrder, EndLast, Loaded,
      Before, Slots, Q!Slots, Q!queue_get_next
  <2> QED BY <2>1, <2>2 DEF Books
<1>5. CASE /\ ~elem[next_to_read].eos /\ Release(elem[next_to_read].pkt)
           /\ Q!Use([elem[next_to_read] EXCEPT !.pkt = Empty])
  <2> DEFINE p == elem[next_to_read].pkt
             c == [elem[next_to_read] EXCEPT !.pkt = Empty]
  <2>1. p \in Packets /\ p <= nread /\ freed[p] = 0 /\ p # rpkt
    BY <1>1, <1>5 DEF IInv, Books, Loaded, Alive
  <2>2. freed' = [freed EXCEPT ![p] = freed[p] + 1]
    BY <1>5, <2>1 DEF Release
  <2>3. elem' = [elem EXCEPT ![next_to_read] = c]
    BY <1>5 DEF Q!Use
  <2>4. elem[next_to_read] \in Contents
    BY <1>1 DEF IInv, Q!TypeOK, Slots
  <2>5. c.pkt = Empty /\ ~c.eos
    BY <1>5, <2>4 DEF Contents
  <2> HIDE DEF c
  <2>6. /\ elem'[next_to_read] = c
        /\ \A s \in Slots : s # next_to_read => elem'[s] = elem[s]
    BY <1>1, <2>3 DEF IInv, Q!TypeOK, Slots
  <2>7. Empty \notin Packets
    BY PipelineAssumption DEF Packets
  <2>8. in_read /\ ready[next_to_read]
    BY DEF IInv, Skeleton, Labels, Working, DecoderFrees, Ring, Q!SlotOwnership,
      Q!ReadsComplete
  <2>9. rpc \in Writing => Reserved \in Slots /\ Reserved # next_to_read
    BY <2>8, ReservedSlot DEF IInv
  <2> HIDE DEF p
  <2>10. Carried' /\ Counted'
    <3>1. Carried'
      BY <1>2, <2>1, <2>2, PipelineAssumption DEF IInv, Books, Carried, Counted,
        Skeleton, Places, Packets
    <3>2. Counted'
      BY <1>2, <2>1, <2>2, PipelineAssumption DEF IInv, Books, Counted, Skeleton,
        Places, Packets
    <3> QED BY <3>1, <3>2
  <2>11. Written'
    BY <1>2, <2>6, <2>9 DEF IInv, Books, Written, Writing, Reserved
  <2>12. Kept'
    <3> SUFFICES ASSUME NEW q \in 1 .. nread
                 PROVE  \/ freed'[q] = 1 \/ q = rpkt
                        \/ \E s \in Slots : Held(s) /\ elem'[s].pkt = q
      BY <1>2, <1>3 DEF Kept, Slots, Q!Slots
    <3>1. q \in Packets
      BY PipelineAssumption DEF IInv, Skeleton, Places, Packets
    <3>2. CASE q = p
      BY <2>1, <2>2, <3>2, <3>1 DEF IInv, Books, Counted
    <3>3. CASE q # p
      <4>1. freed'[q] = freed[q]
        BY <2>2, <3>1, <3>3 DEF IInv, Books, Counted
      <4>2. \A s \in Slots : elem[s].pkt = q => elem'[s] = elem[s]
        BY <2>6, <3>3 DEF p
      <4> QED BY <4>1, <4>2 DEF IInv, Books, Kept
    <3> QED BY <3>2, <3>3
  <2>13. Spent'
    BY <1>2, <2>5, <2>6, <2>7 DEF IInv, Books, Spent, Slots, Q!Slots, Q!InRange
  <2>14. \A s \in Slots : elem'[s].pkt \in Packets
           => s # next_to_read /\ elem'[s] = elem[s]
    BY <2>5, <2>6, <2>7
  <2>15. Alive'
    <3> SUFFICES ASSUME NEW s \in Slots, Held(s), elem'[s].pkt \in Packets
                 PROVE  /\ elem[s].pkt <= nread /\ elem[s].pkt # rpkt
                        /\ freed'[elem[s].pkt] = 0
      BY <1>2, <1>3, <2>14 DEF Alive, Slots, Q!Slots
    <3>1. s # next_to_read /\ elem[s].pkt \in Packets
      BY <2>14
    <3>2. elem[s].pkt <= nread /\ freed[elem[s].pkt] = 0 /\ elem[s].pkt # rpkt
      BY <3>1 DEF IInv, Books, Alive
    <3>3. Before(next_to_read, s)
      BY <3>1, Oldest DEF IInv, Held
    <3>4. elem[s].pkt # p
      BY <1>1, <3>1, <3>3, <2>1, PipelineAssumption DEF p, IInv, Books, InOrder,
        Packets
    <3> QED BY <2>1, <2>2, <3>1, <3>2, <3>4 DEF IInv, Books, Counted
  <2>16. InOrder'
    BY <1>2, <1>3, <2>14 DEF IInv, Books, InOrder, Before, Slots, Q!Slots
  <2>17. EndLast' /\ Loaded'
    BY <1>1, <1>2, <1>3, <2>5, <2>6, <2>7 DEF IInv, Books, EndLast, Loaded, Slots,
      Q!Slots, Q!queue_get_next
  <2> QED BY <2>10, <2>11, <2>12, <2>13, <2>15, <2>16, <2>17 DEF Books
<1> QED BY <1>4, <1>5 DEF DecoderFrees, Current, queue

\* An element that is given back has no packet any more.  (queue.c:253-260)
LEMMA PopFinishBooks ==
  IInv /\ Giving /\ ~Giving' /\ Q!PopFinish /\ UNCHANGED <<rpc, rpkt, nread, freed>>
    => Books'
<1> SUFFICES ASSUME IInv, Giving, ~Giving', Q!PopFinish,
                    UNCHANGED <<rpc, rpkt, nread, freed>>
             PROVE  Books'
  OBVIOUS
<1>1. /\ next_to_write' = next_to_write
      /\ next_to_read' = Q!queue_get_next(next_to_read)
      /\ UNCHANGED <<ready, elem, to_write>> /\ in_read
  BY DEF Q!PopFinish
<1>2. next_to_read \in Slots /\ Q!InRange(next_to_read) /\ Held(next_to_read)
  BY <1>1, CurrentSlot DEF IInv
<1>3. /\ \A s \in Slots : Q!InRange(s)' <=> (Q!InRange(s) /\ s # next_to_read)
      /\ \A s, t \in Slots :
           Q!InRange(s) /\ Q!InRange(t) /\ s # next_to_read /\ t # next_to_read
             => (Before(s, t)' <=> Before(s, t))
  BY <1>1, <1>2, Shrinks DEF IInv
<1>4. \A s \in Slots : Held(s)' <=> (Held(s) /\ s # next_to_read)
  BY <1>1, <1>3 DEF Held, Reserved
<1>5. elem[next_to_read].pkt \notin Packets
  BY DEF IInv, Books, Loaded
<1>6. Carried' /\ Counted' /\ Written' /\ Spent'
  BY <1>1, <1>3, <1>5 DEF IInv, Books, Carried, Counted, Written, Spent, Slots,
    Q!Slots, Reserved
<1>7. Kept'
  BY <1>1, <1>4, <1>5, PipelineAssumption DEF IInv, Books, Kept, Slots, Q!Slots,
    Skeleton, Places, Packets
<1>8. Alive' /\ EndLast' /\ Loaded'
  BY <1>1, <1>4 DEF IInv, Books, Alive, EndLast, Loaded, Slots, Q!Slots,
    Q!queue_get_next
<1>9. InOrder'
  <2>1. \A s, t \in Slots : Held(s)' /\ Held(t)'
          => Held(s) /\ Held(t) /\ (Before(s, t)' <=> Before(s, t))
    BY <1>3, <1>4 DEF Held
  <2> QED BY <1>1, <2>1 DEF IInv, Books, InOrder, Slots, Q!Slots
<1> QED BY <1>6, <1>7, <1>8, <1>9 DEF Books

\* A new session starts with nothing.  (player.c:195-332)
LEMMA OpenSucceedsBooks == IInv /\ OpenSucceeds => Books'
<1> SUFFICES ASSUME IInv, OpenSucceeds PROVE Books'
  OBVIOUS
<1>1. /\ next_to_write' = 0 /\ next_to_read' = 0 /\ elem' \in [Slots -> Fresh]
      /\ nread' = 0
      /\ freed' = [p \in Packets |-> 0] /\ rpc = "off" /\ dpc = "off"
      /\ UNCHANGED <<rpc, rpkt, dpc, to_write>>
  BY DEF OpenSucceeds, Q!QueueInit, IInv, Skeleton, Control, Slots
<1>2. \A s \in Slots : ~Q!InRange(s)' /\ ~Held(s)'
  BY <1>1 DEF Held, Q!InRange, Slots, Q!Slots
<1>3. \A s \in Slots : elem'[s].pkt \notin Packets
  BY <1>1, PipelineAssumption DEF Fresh, Packets
<1>4. Carried' /\ Counted' /\ Written' /\ Kept' /\ Spent'
  BY <1>1, <1>3 DEF IInv, Books, Carried, Counted, Written, Kept, Spent, Slots,
    Q!Slots
<1>5. Alive' /\ InOrder' /\ EndLast' /\ Loaded'
  BY <1>1, <1>2 DEF Alive, InOrder, EndLast, Loaded, Giving, Slots, Q!Slots
<1> QED BY <1>4, <1>5 DEF Books

\* Every step keeps the books.
LEMMA BooksNext == IInv /\ [Next]_vars => Books'
<1> SUFFICES ASSUME IInv, [Next]_vars PROVE Books'
  OBVIOUS
<1> USE DEF Handling, Quitting, Giving
<1>0. Books /\ Skeleton /\ Ring
  BY DEF IInv
<1>1. CASE \/ ReadFails \/ ReaderAttach \/ ReaderWaitsForRoom \/ ReaderWaitsForStop
           \/ ReaderWaitsForStreams \/ ReaderEnds
  <2>1. /\ UNCHANGED <<next_to_write, next_to_read, ready, elem, to_write, nread,
                       freed, rpkt, dpc>>
        /\ rpc' # rpc => rpc \notin Handling /\ rpc' \notin Handling
        /\ rpc \in Quitting => rpc' \in Quitting
    BY <1>1 DEF ReadFails, ReaderAttach, ReaderWaitsForRoom, Q!PushWait, Q!ring,
      ReaderWaitsForStop, ReaderWaitsForStreams, ReaderEnds
  <2> QED BY <1>0, <2>1, Steady
<1>2. CASE \/ DecoderAttach \/ DecoderPops \/ DecoderWaitsForPacket
           \/ DecoderDecodes \/ FrameSkipped \/ FramePaused
           \/ FrameDue \/ FrameEarly \/ SleepEnds \/ DecoderStops \/ DecoderEnds
           \/ (dpc = "drain" /\ DecoderDrains)
  <2>1. /\ UNCHANGED <<next_to_write, next_to_read, ready, elem, to_write, nread,
                       freed, rpkt, rpc>>
        /\ ~Giving /\ ~Giving'
    BY <1>2 DEF DecoderAttach, DecoderPops, Q!PopStart, DecoderWaitsForPacket,
      Q!PopWait, Q!ring, DecoderDecodes, FrameSkipped, FramePaused, FrameDue,
      FrameEarly, SleepEnds, DecoderStops, DecoderEnds, DecoderDrains
  <2> QED BY <1>0, <2>1, Steady
<1>3. CASE \/ OpenStarts \/ OpenFails \/ PlayPrepare \/ CreateDecoder \/ Resume
           \/ StopCall \/ StopIgnored
           \/ StopThreads \/ JoinReader \/ JoinDecoder \/ FreeQueue
  <2>1. /\ UNCHANGED <<next_to_write, next_to_read, ready, elem, to_write, nread,
                       freed, rpkt>>
        /\ rpc' # rpc => rpc \notin Handling /\ rpc' \notin Handling
        /\ rpc \in Quitting => rpc' \in Quitting
        /\ Giving' <=> Giving
    BY <1>0, <1>3 DEF Skeleton, Control, OpenStarts, OpenFails, PlayPrepare,
      CreateDecoder, Resume, StopCall, StopIgnored, StopThreads, JoinReader,
      JoinDecoder, FreeQueue, Q!Free
  <2> QED BY <1>0, <2>1, Steady
<1>4. CASE CreateReader
  <2>1. /\ UNCHANGED <<next_to_write, next_to_read, ready, elem, to_write, nread,
                       freed, rpkt, dpc>>
        /\ rpc' # rpc => rpc \notin Handling /\ rpc' \notin Handling
    BY <1>0, <1>4 DEF CreateReader, Skeleton, Control
  <2>2. \A s \in Slots : ~Held(s)
    BY <1>0, <1>4, PipelineAssumption DEF CreateReader, Ring, EmptyAtStart,
      Unstarted, Held, Q!InRange, IInv, Q!TypeOK, Slots, Q!Slots
  <2> QED BY <1>0, <2>1, <2>2, Steady
<1>5. CASE Wake \/ UNCHANGED vars
  <2>1. UNCHANGED <<next_to_write, next_to_read, ready, elem, to_write, nread,
                    freed, rpkt, rpc, dpc>>
    BY <1>5 DEF Wake, Q!Wake, Q!ring, vars
  <2> QED BY <1>0, <2>1, Steady
<1>6. CASE DecoderGives \/ (dpc = "drainfinish" /\ DecoderDrains)
  BY <1>6, PopFinishBooks DEF DecoderGives, DecoderDrains
<1>7. CASE ReadPacket \/ ReaderSkips \/ ReaderExits
  BY <1>7, ReadPacketBooks, ReaderSkipsBooks, ReaderExitsBooks
<1>8. CASE \/ ReaderReserves \/ ReaderFills \/ ReaderMarksEnd \/ ReaderDups
           \/ ReaderFinishes \/ ReaderSendsEnd
  BY <1>8, ReaderReservesBooks, ReaderFillsBooks, ReaderDupsBooks,
    ReaderFinishesBooks, ReaderSendsEndBooks
<1>9. CASE DecoderFrees \/ OpenSucceeds
  BY <1>9, DecoderFreesBooks, OpenSucceedsBooks
<1> QED
  BY <1>1, <1>2, <1>3, <1>4, <1>5, <1>6, <1>7, <1>8, <1>9 DEF Next, ReaderReturns,
    ReaderWorks, DecoderWorks, CtrlWorks, Users, DecoderDrains

\* Once nothing can be read and the reader pushes nothing, no element holds a packet.
LEMMA NothingHeld ==
  ASSUME IInv, ~Q!Readable, rpc \in Quitting PROVE \A s \in Slots : ~Held(s)
<1> SUFFICES ASSUME NEW s \in Slots, Held(s) PROVE FALSE
  OBVIOUS
<1>1. Q!InRange(s) /\ ready[s]
  BY DEF Held, Quitting
<1>2. next_to_read \in Slots /\ Q!InRange(next_to_read) /\ ~ready[next_to_read]
  BY <1>1, PipelineAssumption DEF Q!Readable, Q!InRange, IInv, Q!TypeOK, Slots,
    Q!Slots
<1>3. Q!queue_get_next(next_to_read) = next_to_write
  BY <1>2 DEF IInv, Ring, HoleLast
<1>4. Before(next_to_read, s)
  BY <1>1, <1>2, Oldest DEF IInv
<1>5. Before(s, next_to_read)
  BY <1>1, <1>2, <1>3, Last DEF IInv
<1> QED BY <1>1, <1>2, <1>4, <1>5 DEF Before, IInv, Q!TypeOK, Slots, Q!Slots

\* An element under way is a readable one.
LEMMA InReadReadable == IInv /\ in_read => Q!Readable
BY PipelineAssumption DEF IInv, Ring, Q!SlotOwnership, Q!ReadsComplete,
  Q!Readable, Q!InRange, Q!TypeOK, Q!Slots

\* Reader and decoder end with an empty queue: the reader waits until the
\* decoder has drained it, also when the decoder has failed.
\* (decode.c:169-191, 789-807)
LEMMA EndsNext == IInv /\ [Next]_vars => Ends'
<1> SUFFICES ASSUME IInv, [Next]_vars PROVE Ends'
  OBVIOUS
<1> USE DEF Quitting
<1>0. Skeleton /\ Ring /\ Ends /\ Books
  BY DEF IInv
<1>same. ASSUME UNCHANGED <<next_to_write, next_to_read, ready>>,
             live' => live, ~live => UNCHANGED <<nread, freed>>,
             ~live' => UNCHANGED live,
             rpc' = "stopwait" /\ ~stop_streams'
               => \/ rpc = "stopwait" /\ ~stop_streams /\ UNCHANGED dpc
                  \/ dpc' = "done" /\ ~Q!Readable,
             rpc' \in {"off", "done"} => rpc \in {"off", "done"} \/ ~Q!Readable
      PROVE Ends'
  BY <1>0, <1>same DEF Ends, Q!Readable
<1>1. CASE \/ ReaderReturns \/ ReaderSkips \/ ReaderWaitsForRoom \/ ReaderFills
           \/ ReaderMarksEnd \/ ReaderWaitsForStop
           \/ ReaderExits \/ ReaderWaitsForStreams
  BY <1>0, <1>1, <1>same DEF Skeleton, Control, ReaderReturns, ReadPacket,
    ReadFails, ReaderSkips, ReaderWaitsForRoom, Q!PushWait, Q!ring, ReaderFills,
    ReaderMarksEnd, Q!Fill, ReaderWaitsForStop, ReaderExits, ReaderWaitsForStreams
<1>2. CASE ReaderAttach \/ ReaderEnds
  <2>1. ~Q!Readable
    BY <1>0, <1>2 DEF ReaderAttach, ReaderEnds, Ring, EmptyAtStart, Unstarted,
      Ends, Q!Readable
  <2> QED
    BY <1>0, <1>2, <1>same, <2>1 DEF Skeleton, Control, ReaderAttach, ReaderEnds
<1>3. CASE ReaderReserves \/ ReaderFinishes \/ ReaderSendsEnd \/ ReaderDups
  <2>1. rpc' \notin {"off", "done", "stopwait"} /\ live /\ live'
    BY <1>0, <1>3 DEF Skeleton, Control, ReaderReserves, MayPush, WantsSlot,
      Q!PushStart, ReaderFinishes, ReaderSendsEnd, Q!PushFinish, ReaderDups,
      Q!PushAbandon, Q!Pushing, Q!CanPush, Q!ring
  <2> QED BY <2>1 DEF Ends
<1>4. CASE \/ DecoderAttach \/ DecoderPops \/ DecoderWaitsForPacket
           \/ DecoderDecodes \/ FrameSkipped \/ FramePaused
           \/ FrameDue \/ FrameEarly \/ SleepEnds \/ DecoderStops \/ DecoderFrees
           \/ (dpc = "drain" /\ DecoderDrains)
  <2>1. /\ UNCHANGED <<next_to_write, next_to_read, ready, live, rpc, stop_streams>>
        /\ dpc # "done" /\ dpc # "off"
    BY <1>4 DEF DecoderAttach, DecoderPops, Q!PopStart, DecoderWaitsForPacket,
      Q!PopWait, Q!ring, DecoderDecodes, FrameSkipped, FramePaused, FrameDue,
      FrameEarly, SleepEnds, DecoderStops, DecoderFrees, Q!Use, DecoderDrains
  <2>2. live
    BY <1>0, <2>1 DEF Skeleton, Control
  <2>3. ~(rpc = "stopwait" /\ ~stop_streams)
    BY <1>0, <2>1 DEF Ends
  <2> QED BY <1>same, <2>1, <2>2, <2>3
<1>5. CASE DecoderEnds
  BY <1>0, <1>5, <1>same DEF Skeleton, Control, DecoderEnds
<1>6. CASE DecoderGives \/ (dpc = "drainfinish" /\ DecoderDrains)
  <2>1. /\ Q!Readable /\ live /\ live' /\ UNCHANGED <<rpc, stop_streams>>
        /\ dpc # "done"
    BY <1>6, InReadReadable DEF DecoderGives, DecoderDrains, Q!PopFinish, Q!Runs
  <2> QED BY <1>0, <2>1 DEF Ends
<1>7. CASE OpenSucceeds
  BY <1>0, <1>7 DEF OpenSucceeds, Q!QueueInit, Ends, Q!Readable, Skeleton, Control
<1>8. CASE FreeQueue
  <2>1. rpc = "off" /\ live /\ ~live' /\ UNCHANGED <<nread, freed, rpc>>
    BY <1>0, <1>8 DEF FreeQueue, Q!Free, Skeleton, Control
  <2>2. rpkt = Empty /\ \A s \in Slots : ~Held(s)
    BY <1>0, <2>1, NothingHeld DEF Ends, Books, Carried
  <2>3. \A p \in 1 .. nread : freed[p] = 1
    BY <1>0, <2>2 DEF Books, Kept
  <2> QED BY <2>1, <2>3 DEF Ends
<1>9. CASE \/ OpenStarts \/ OpenFails \/ PlayPrepare \/ CreateDecoder \/ Resume
           \/ StopCall \/ StopIgnored
  BY <1>0, <1>9, <1>same DEF Skeleton, Control, OpenStarts, OpenFails, PlayPrepare,
    CreateDecoder, Resume, StopCall, StopIgnored
<1>10. CASE CreateReader \/ JoinReader \/ JoinDecoder
  BY <1>0, <1>10, <1>same DEF Skeleton, Control, CreateReader, JoinReader,
    JoinDecoder
<1>12. CASE StopThreads
  BY <1>0, <1>12, <1>same DEF StopThreads
<1>11. CASE Wake \/ UNCHANGED vars
  BY <1>0, <1>11, <1>same DEF Wake, Q!Wake, Q!ring, vars
<1> QED
  BY <1>1, <1>2, <1>3, <1>4, <1>5, <1>6, <1>7, <1>8, <1>9, <1>10, <1>11, <1>12
    DEF Next, ReaderWorks, DecoderWorks, CtrlWorks, Users, DecoderDrains

-----------------------------------------------------------------------------
(* The theorems.                                                             *)

\* The player starts without session, queue or packet.
LEMMA InitIInv == Init => IInv
<1> SUFFICES ASSUME Init PROVE IInv
  OBVIOUS
<1>1. QP!Init
  BY DEF Init, Q!Init, QP!Init, Q!Slots, QP!Slots, Q!NoSlot, QP!NoSlot,
    QueueWaiters
<1>2. QP!TypeOK /\ QP!SlotOwnership
  BY <1>1, QueueAssumptions, QP!InitIndInv DEF QP!IndInv
<1>3. Q!TypeOK /\ Q!SlotOwnership
  BY <1>2, SameRing DEF Init, Q!Init
<1>4. Skeleton
  <2>1. Flags /\ Sleepers
    BY Zenon DEF Init, Q!Init, Flags, Sleepers
  <2>2. Places /\ Labels /\ Control /\ NoLostWakeup
    BY PipelineAssumption DEF Init, Q!Init, Places, Labels, Control, NoLostWakeup,
      Reserved, Writing, Working, Draining, Packets
  <2> QED BY <2>1, <2>2 DEF Skeleton
<1>5. HoleLast /\ EmptyAtStart /\ \A s \in Slots : ~Q!InRange(s) /\ ~Held(s)
  BY DEF Init, Q!Init, HoleLast, EmptyAtStart, Held, Q!InRange, Slots, Q!Slots
<1>6. Ends
  BY DEF Init, Q!Init, Ends
<1>7. Carried /\ Counted /\ Written /\ Kept
  BY DEF Init, Q!Init, Carried, Counted, Written, Kept
<1>8. Spent
  <2>1. \A s \in Slots : elem[s].pkt \notin Packets
    BY PipelineAssumption DEF Init, Q!Init, Fresh, Packets, Slots
  <2> QED BY <2>1 DEF Spent
<1>9. Alive /\ InOrder /\ EndLast /\ Loaded
  BY <1>5 DEF Alive, InOrder, EndLast, Loaded, Init, Giving
<1> QED BY <1>3, <1>4, <1>5, <1>6, <1>7, <1>8, <1>9 DEF IInv, Ring, Books

\* IInv is inductive.
LEMMA Inductive == Spec => []IInv
<1>1. IInv /\ [Next]_vars => IInv'
  <2> SUFFICES ASSUME IInv, [Next]_vars PROVE IInv'
    OBVIOUS
  <2>1. Q!TypeOK' /\ Q!SlotOwnership'
    BY QueueTypeNext, OwnershipNext DEF IInv, Ring
  <2>2. Skeleton'
    BY FlagsNext, PlacesNext, SleepersNext, SkeletonNext DEF IInv, Skeleton
  <2>3. Ring'
    BY <2>1, RingNext DEF IInv, Ring
  <2> QED BY <2>1, <2>2, <2>3, EndsNext, BooksNext DEF IInv
<1> QED BY InitIInv, <1>1, PTL DEF Spec

\* The shared fields keep their types: no packet is freed twice.
\* (player.h:156-231; decode.c)
THEOREM TypeCorrect == Spec => []TypeOK
<1>1. IInv => TypeOK
  BY DEF IInv, Skeleton, Flags, Places, Books, Counted, TypeOK
<1> QED BY Inductive, <1>1, PTL

\* No assert of queue.c fails and the queue is freed when nobody is on it, for
\* any ring and any fault.  (queue.c:102-105, 180, 209, 240, 255; player.c:745-780)
THEOREM Contract == Spec => []QueueContract
<1>1. IInv => QueueContract
  BY DEF IInv, Skeleton, Sleepers, Labels, Control, NoLostWakeup, QueueContract,
    Reserved, Writing, Working
<1> QED BY Inductive, <1>1, PTL

\* Nobody sleeps on the shared condition variable once what it waits for is
\* there.  (decode.c:538, 725, 799; queue.c:146, 214)
THEOREM Wakeups == Spec => []NoLostWakeup
<1>1. IInv => NoLostWakeup
  BY DEF IInv, Skeleton
<1> QED BY Inductive, <1>1, PTL

\* No session leaves a packet unfreed, however its threads ended.
\* (decode.c:183-191, 789-792)
THEOREM Leakless == Spec => []NoLeak
<1>1. IInv => NoLeak
  BY DEF IInv, Skeleton, Control, Ends, NoLeak
<1> QED BY Inductive, <1>1, PTL

\* Every packet is freed once or has exactly one owner who will free it.
\* (decode.c:169-171, 186-188, 775-783, 792, 874)
THEOREM Conservation == Spec => []PacketConservation
<1>1. IInv => PacketConservation
  <2> SUFFICES ASSUME IInv, NEW p \in 1 .. nread
               PROVE  freed[p] + Cardinality(HeldBy(p))
                        + (IF rpkt = p THEN 1 ELSE 0) = 1
    BY DEF PacketConservation
  <2>1. p \in Packets /\ freed[p] \in 0 .. 1
    BY PipelineAssumption DEF IInv, Skeleton, Places, Books, Counted, Packets
  <2>2. \A s \in HeldBy(p) : s \in Slots /\ Held(s) /\ elem[s].pkt = p /\ live
    BY DEF HeldBy, Held, Slots, Reserved
  <2>3. HeldBy(p) # {} => freed[p] = 0 /\ p # rpkt
    BY <2>1, <2>2 DEF IInv, Books, Alive
  <2>4. rpkt = p => freed[p] = 0
    BY <2>1, PipelineAssumption DEF IInv, Books, Carried, Packets
  <2>5. CASE HeldBy(p) = {}
    <3>1. Cardinality(HeldBy(p)) = 0
      BY <2>5, FS_EmptySet
    <3>2. freed[p] = 1 \/ p = rpkt
      <4>1. CASE live
        BY <2>5, <4>1 DEF IInv, Books, Kept, HeldBy, Held, Slots, Reserved
      <4>2. CASE ~live
        BY <4>2 DEF IInv, Ends
      <4> QED BY <4>1, <4>2
    <3> QED BY <3>1, <3>2, <2>4
  <2>6. ASSUME NEW s \in HeldBy(p)
        PROVE  freed[p] + Cardinality(HeldBy(p)) + (IF rpkt = p THEN 1 ELSE 0) = 1
    <3>1. ASSUME NEW t \in HeldBy(p) PROVE t = s
      <4>1. ~Before(s, t) /\ ~Before(t, s)
        BY <2>1, <2>2, PipelineAssumption DEF IInv, Books, InOrder, Packets
      <4> QED BY <4>1, <2>2, Ordered DEF IInv
    <3>2. HeldBy(p) = {s}
      BY <3>1
    <3>3. Cardinality(HeldBy(p)) = 1
      BY <3>2, FS_Singleton
    <3> QED BY <3>3, <2>3
  <2> QED BY <2>5, <2>6
<1> QED BY Inductive, <1>1, PTL

\* Packets are decoded alive and in the order they were read, the end of stream
\* after all of them.  (decode.c:103-151, 686-728)
THEOREM Order == Spec => []DecodeOrder
<1>1. IInv => DecodeOrder
  <2> SUFFICES ASSUME IInv, dpc = "decode" PROVE DecodeOrder
    BY DEF DecodeOrder
  <2>1. /\ next_to_read \in Slots /\ Q!InRange(next_to_read) /\ Held(next_to_read)
        /\ ~Giving
    BY CurrentSlot DEF IInv, Skeleton, Labels, Working, Giving
  <2>2. nread \in Nat /\ 1 .. nread \subseteq Packets
    BY PipelineAssumption DEF IInv, Skeleton, Places, Packets
  <2>3. ASSUME NEW p \in 1 .. nread, NEW s \in Slots,
               Held(s), elem[s].pkt = p, s # next_to_read
        PROVE  ~Current.eos /\ Current.pkt < p
    <3>1. Before(next_to_read, s) /\ ~Before(s, next_to_read)
      BY <2>1, <2>3, Oldest DEF Held, IInv, Before, Q!TypeOK, Slots, Q!Slots
    <3>2. ~elem[next_to_read].eos
      BY <2>1, <2>3, <3>1, Last DEF Held, IInv, Books, EndLast
    <3>3. elem[next_to_read].pkt \in Packets
      BY <2>1, <3>2 DEF IInv, Books, Loaded
    <3> QED
      BY <2>1, <2>2, <2>3, <3>1, <3>2, <3>3 DEF IInv, Books, InOrder, Current
  <2>4. CASE ~Current.eos
    <3>1. Current.pkt \in 1 .. nread /\ freed[Current.pkt] = 0 /\ Current.pkt # rpkt
      BY <2>1, <2>4, PipelineAssumption, <2>2 DEF IInv, Books, Loaded, Alive,
        Current, Packets
    <3>2. ASSUME NEW p \in 1 .. nread, p < Current.pkt PROVE freed[p] = 1
      <4>1. p # rpkt
        BY <2>2, <3>1, <3>2 DEF IInv, Books, Carried
      <4>2. ASSUME NEW s \in Slots, Held(s), elem[s].pkt = p PROVE FALSE
        BY <2>2, <2>3, <3>1, <3>2, <4>2 DEF Current
      <4> QED BY <4>1, <4>2 DEF IInv, Books, Kept
    <3> QED BY <2>4, <3>1, <3>2 DEF DecodeOrder
  <2>5. CASE Current.eos
    <3>1. ASSUME NEW p \in 1 .. nread PROVE freed[p] = 1
      <4>1. p # rpkt
        BY <2>1, <2>5 DEF IInv, Books, EndLast, Carried, Current
      <4>2. ASSUME NEW s \in Slots, Held(s), elem[s].pkt = p PROVE FALSE
        <5>1. s # next_to_read
          BY <2>1, <2>2, <2>5, <4>2 DEF IInv, Books, EndLast, Current
        <5> QED BY <2>3, <2>5, <4>2, <5>1
      <4> QED BY <4>1, <4>2 DEF IInv, Books, Kept
    <3> QED BY <2>5, <3>1 DEF DecodeOrder
  <2> QED BY <2>4, <2>5
<1> QED BY Inductive, <1>1, PTL

\* The reader ends only when the decoder has drained the queue and is done.
\* (decode.c:798-807)
THEOREM CodecFlush == Spec => CodecFlushedAlone
<1>1. IInv /\ [Next]_vars
        => [rpc = "stopwait" /\ rpc' = "done" => dpc = "done" /\ ~Q!Readable]_vars
  <2> SUFFICES ASSUME IInv, [Next]_vars, rpc = "stopwait", rpc' = "done"
               PROVE  dpc = "done" /\ ~Q!Readable
    OBVIOUS
  <2>1. ~stop_streams
    BY SMTT(60) DEF Next, ReaderReturns, ReadPacket, ReadFails, ReaderWorks,
      ReaderAttach, ReaderSkips, ReaderReserves, ReaderWaitsForRoom, ReaderFills,
      ReaderDups, ReaderFinishes, ReaderMarksEnd, ReaderSendsEnd,
      ReaderWaitsForStop, ReaderExits, ReaderWaitsForStreams, ReaderEnds,
      DecoderWorks, DecoderAttach, DecoderPops, DecoderWaitsForPacket,
      DecoderDecodes, FrameSkipped, FramePaused, FrameDue, FrameEarly, SleepEnds,
      DecoderFrees, DecoderGives, DecoderStops, DecoderDrains, DecoderEnds,
      CtrlWorks, OpenFails, OpenSucceeds, PlayPrepare, CreateDecoder,
      CreateReader, StopThreads, JoinReader, JoinDecoder, FreeQueue, Users,
      OpenStarts, Resume, StopCall, StopIgnored, Wake, vars
  <2> QED BY <2>1 DEF IInv, Ends
<1> QED BY Inductive, <1>1, PTL DEF Spec, CodecFlushedAlone

\* The threads use the queue as PacketQueue allows.
\* (decode.c:78-240, 656-810; player.c:698-780)
THEOREM QueueUsed == Spec => UsesQueue
<1>1. Init => PQ!Init
  BY DEF Init, Q!Init, PQ!Init, Q!Slots, PQ!Slots, Q!NoSlot, PQ!NoSlot,
    QueueWaiters
<1>2. IInv /\ [Next]_vars => [PQ!Next]_PQ!vars
  <2>1. QP!Next <=> PQ!Next
    BY DEF QP!Next, PQ!Next, QP!QueueInit, PQ!QueueInit, QP!Wake, PQ!Wake,
      QP!Quiescent, PQ!Quiescent, QP!FreeWait, PQ!FreeWait, QP!Free, PQ!Free,
      QP!PushStart, PQ!PushStart, QP!PushWait, PQ!PushWait, QP!PushFinish,
      PQ!PushFinish, QP!PushAbandon, PQ!PushAbandon, QP!Fill, PQ!Fill,
      QP!PopStart, PQ!PopStart, QP!PopWait, PQ!PopWait, QP!PopFinish,
      PQ!PopFinish, QP!PopRollBack, PQ!PopRollBack, QP!Use, PQ!Use, QP!CanPush,
      PQ!CanPush, QP!Pushing, PQ!Pushing, QP!CanPop, PQ!CanPop, QP!Runs, PQ!Runs,
      QP!Block, PQ!Block, QP!Broadcast, PQ!Broadcast, QP!Full, PQ!Full,
      QP!Readable, PQ!Readable, QP!queue_get_next, PQ!queue_get_next, QP!Slots,
      PQ!Slots, QP!NoSlot, PQ!NoSlot, QP!ring, PQ!ring
  <2>2. UNCHANGED QP!vars <=> UNCHANGED PQ!vars
    BY DEF QP!vars, PQ!vars, QP!ring, PQ!ring
  <2> QED BY <2>1, <2>2, QueueNext DEF IInv
<1> QED BY Inductive, <1>1, <1>2, PTL DEF Spec, UsesQueue, PQ!Spec

\* What the reader sends reaches the decoder as through a bounded FIFO: whole,
\* in order and at most Size - 1 entries at a time.  (queue.c:47-267; decode.c)
THEOREM QueueIsFifo == Spec => QP!ImplementsFifo
<1>1. Init => QP!Init
  BY DEF Init, Q!Init, QP!Init, Q!Slots, QP!Slots, Q!NoSlot, QP!NoSlot,
    QueueWaiters
<1>2. IInv /\ [Next]_vars => [QP!Next]_QP!vars
  BY QueueNext DEF IInv
<1>3. Spec => QP!Spec
  BY Inductive, <1>1, <1>2, PTL DEF Spec, QP!Spec
<1>4. QP!Spec => QP!ImplementsFifo
  BY QueueAssumptions, QP!Refinement
<1> QED BY <1>3, <1>4

\* A step that starts and ends no thread, no phase and no queue is a stutter.
LEMMA SessionSame == UNCHANGED <<Phase, Live, live>> => [S!Next]_S!vars
BY DEF S!vars

\* The threads keep to a Session: they live on a queue that is there before
\* they start and until they have ended.  (decode.c:36-76; player.c:195-371, 745-780)
THEOREM SessionKept == Spec => ImplementsSession
<1>1. Init => S!Init
  BY DEF Init, Q!Init, S!Init, Phase, Live
<1>2. IInv /\ [Next]_vars => [S!Next]_S!vars
  <2> SUFFICES ASSUME IInv, [Next]_vars PROVE [S!Next]_S!vars
    OBVIOUS
  <2>0. Control /\ Places
    BY DEF IInv, Skeleton
  <2>1. CASE ReaderAttach \/ ReaderEnds
    <3>1. CASE rpc' = "done"
      <4>1. S!Leave(Reader)
        BY <2>1, <3>1 DEF ReaderAttach, ReaderEnds, S!Leave, Phase, Live
      <4> QED BY <4>1 DEF S!Next
    <3>2. CASE rpc' # "done"
      BY <2>1, <3>2, SessionSame DEF ReaderAttach, ReaderEnds, Phase, Live
    <3> QED BY <3>1, <3>2
  <2>2. CASE DecoderAttach \/ DecoderEnds
    <3>1. CASE dpc' = "done"
      <4>1. S!Leave(Decoder)
        BY <2>2, <3>1 DEF DecoderAttach, DecoderEnds, S!Leave, Phase, Live
      <4> QED BY <4>1 DEF S!Next
    <3>2. CASE dpc' # "done"
      BY <2>2, <3>2, SessionSame DEF DecoderAttach, DecoderEnds, Phase, Live
    <3> QED BY <3>1, <3>2
  <2>3. CASE OpenStarts
    <3>1. S!Open
      BY <2>0, <2>3 DEF OpenStarts, Control, S!Open, Phase, Live
    <3> QED BY <3>1 DEF S!Next
  <2>4. CASE OpenFails \/ FreeQueue
    <3>1. S!Closed
      BY <2>0, <2>4 DEF OpenFails, FreeQueue, Q!Free, Control, S!Closed, Phase,
        Live
    <3> QED BY <3>1 DEF S!Next
  <2>5. CASE OpenSucceeds
    <3>1. S!CreateStore
      BY <2>0, <2>5 DEF OpenSucceeds, Q!QueueInit, Control, S!CreateStore, Phase,
        Live
    <3> QED BY <3>1 DEF S!Next
  <2>6. CASE CreateDecoder
    <3>1. S!Start(Decoder) \/ S!Close
      BY <2>0, <2>6 DEF CreateDecoder, Control, S!Start, S!Close, Phase, Live
    <3> QED BY <3>1 DEF S!Next
  <2>7. CASE CreateReader
    <3>1. S!Start(Reader) \/ S!Close
      BY <2>0, <2>7 DEF CreateReader, Control, S!Start, S!Close, Phase, Live
    <3> QED BY <3>1 DEF S!Next
  <2>8. CASE StopThreads
    <3>1. CASE cpc = "playing"
      <4>1. S!Close
        BY <2>8, <3>1 DEF StopThreads, S!Close, Phase, Live
      <4> QED BY <4>1 DEF S!Next
    <3>2. CASE cpc = "fail"
      BY <2>8, <3>2, SessionSame DEF StopThreads, Phase, Live
    <3> QED BY <2>8, <3>1, <3>2 DEF StopThreads
  <2>9. CASE \/ PlayPrepare \/ JoinReader \/ JoinDecoder \/ Resume \/ StopCall
             \/ StopIgnored
    BY <2>9, SessionSame DEF PlayPrepare, JoinReader, JoinDecoder, Resume,
      StopCall, StopIgnored, Phase, Live
  <2>10. CASE \/ ReaderReturns \/ ReaderSkips \/ ReaderReserves
              \/ ReaderWaitsForRoom
              \/ ReaderFills \/ ReaderDups \/ ReaderFinishes \/ ReaderMarksEnd
              \/ ReaderSendsEnd \/ ReaderWaitsForStop \/ ReaderExits
              \/ ReaderWaitsForStreams
    <3>1. /\ rpc \notin {"off", "done"} /\ rpc' \notin {"off", "done"}
          /\ UNCHANGED <<cpc, dpc, live>>
      BY <2>10 DEF ReaderReturns, ReadPacket, ReadFails, ReaderSkips,
        ReaderReserves, MayPush, WantsSlot, Q!PushStart, ReaderWaitsForRoom,
        Q!PushWait, Q!ring, ReaderFills, ReaderDups, Q!PushAbandon,
        ReaderFinishes, ReaderMarksEnd, Q!Fill, ReaderSendsEnd, Q!PushFinish,
        ReaderWaitsForStop, ReaderExits, ReaderWaitsForStreams
    <3> QED BY <3>1, SessionSame DEF Phase, Live
  <2>11. CASE \/ DecoderPops \/ DecoderWaitsForPacket \/ DecoderDecodes
              \/ FrameSkipped \/ FramePaused \/ FrameDue \/ FrameEarly \/ SleepEnds
              \/ DecoderFrees \/ DecoderGives \/ DecoderStops \/ DecoderDrains
    <3>1. /\ dpc \notin {"off", "done"} /\ dpc' \notin {"off", "done"}
          /\ UNCHANGED <<cpc, rpc, live>>
      BY <2>11 DEF DecoderPops, Q!PopStart, DecoderWaitsForPacket, Q!PopWait,
        Q!ring, DecoderDecodes, FrameSkipped, FramePaused, FrameDue, FrameEarly,
        SleepEnds, DecoderFrees, Q!Use, DecoderGives, Q!PopFinish, DecoderStops,
        DecoderDrains
    <3> QED BY <3>1, SessionSame DEF Phase, Live
  <2>12. CASE Wake \/ UNCHANGED vars
    <3>1. UNCHANGED <<cpc, rpc, dpc, live>>
      BY <2>12 DEF Wake, Q!Wake, Q!ring, vars
    <3> QED BY <3>1, SessionSame DEF Phase, Live
  <2> QED
    BY <2>1, <2>2, <2>3, <2>4, <2>5, <2>6, <2>7, <2>8, <2>9, <2>10, <2>11, <2>12
      DEF Next, ReaderWorks, DecoderWorks, CtrlWorks, Users
<1> QED BY Inductive, <1>1, <1>2, PTL DEF Spec, ImplementsSession, S!Spec

SP == INSTANCE SessionProofs
        WITH Threads <- {Reader, Decoder}, phase <- Phase, workers <- Live, store <- live

\* A thread that has not ended has the queue, and a session that is closed has
\* neither threads nor a queue.  (decode.c:36-76; player.c:745-780)
THEOREM QueueOutlivesThreads == Spec => []S!WorkersHaveStore
<1>1. S!Init <=> SP!Init
  BY DEF S!Init, SP!Init
<1>2. [S!Next]_S!vars <=> [SP!Next]_SP!vars
  BY DEF S!Next, SP!Next, S!vars, SP!vars, S!Open, SP!Open, S!CreateStore,
    SP!CreateStore, S!Start, SP!Start, S!Leave, SP!Leave, S!Close, SP!Close,
    S!DestroyStore, SP!DestroyStore, S!Closed, SP!Closed
<1>3. S!WorkersHaveStore <=> SP!WorkersHaveStore
  BY DEF S!WorkersHaveStore, SP!WorkersHaveStore
<1>4. SP!Spec => []SP!WorkersHaveStore
  BY SP!StoreOutlivesWorkers
<1> QED BY SessionKept, <1>1, <1>2, <1>3, <1>4, PTL
  DEF ImplementsSession, S!Spec, SP!Spec
=============================================================================

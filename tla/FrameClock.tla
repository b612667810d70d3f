----------------------------- MODULE FrameClock -----------------------------
(* When a frame is shown.  player_wait_for_frame compares the time stamp of  *)
(* the frame with the playing time (wall clock minus start_time), puts       *)
(* start_time right when the frame is late or the first of its session, and  *)
(* otherwise sleeps in naps of at most Cap until the frame is due.  The      *)
(* decoder holds mutex_queue from a check to the nap that follows; only the  *)
(* clock moves meanwhile, in the steps the environment allows.               *)
EXTENDS Integers

CONSTANTS Instants,     \* instants of the wall clock, in microseconds in the code
          Steps,        \* how far the clock may move at once, backwards if it is set
          Prompt,       \* the clock waits for a thread that can run
          Pts,          \* time stamps of frames
          LastArrival,  \* bound: no frame and no resume after this instant
          MinSleep,     \* MIN_SLEEP_TIME_US
          Late,         \* 300000
          Cap,          \* 500000
          Second,       \* one second, 1000000000 ns
          Word          \* an unsigned long of 32 bits, 2^32 ns

ASSUME ClockAssumption ==
  /\ Instants \subseteq Nat /\ Steps \subseteq Int /\ Pts \subseteq Int
  /\ Prompt \in BOOLEAN /\ LastArrival \in Int
ASSUME ConstantsAssumption ==
  /\ {MinSleep, Late, Cap, Second, Word} \subseteq Nat
  /\ MinSleep < Cap /\ Cap < Second /\ 2 * Second <= Word

VARIABLES
  now,                                          \* the wall clock
  pause, pause_time, start_time, Test, stop,    \* struct Player; stop_streams
  pc, stream_time, sleep_time, ts,              \* the decoder in player_wait_for_frame
  early,                                        \* history: the frame came before it was due
  shown, shown_at, shown_pts                    \* history: the last frame the session showed

player == <<pause, pause_time, start_time, Test, stop>>
frame  == <<stream_time, sleep_time, ts, early>>
past   == <<shown, shown_at, shown_pts>>
vars   == <<now, player, pc, frame, past>>

Epoch == [sec |-> 0, nsec |-> 0]

Init ==
  /\ now \in Instants
  /\ pause = FALSE /\ pause_time = 0 /\ start_time = 0 /\ Test = FALSE /\ stop = FALSE
  /\ pc = "off" /\ stream_time = 0 /\ sleep_time = 0 /\ ts = Epoch /\ early = FALSE
  /\ shown = FALSE /\ shown_at = 0 /\ shown_pts = 0

-----------------------------------------------------------------------------
(* The player around the decoder.                                            *)

SessionOpens ==
  /\ pc = "off" /\ pc' = "start"
  /\ pause' = TRUE /\ start_time' = 0 /\ pause_time' = 0 /\ stop' = FALSE
  /\ shown' = FALSE /\ shown_at' = 0 /\ shown_pts' = 0
  /\ UNCHANGED <<now, Test, frame>>

\* the reader announces the first frame before it reads anything
ReaderStarts ==
  /\ pc = "start" /\ ~stop /\ pc' = "idle" /\ Test' = TRUE
  /\ UNCHANGED <<now, pause, pause_time, start_time, stop, frame, past>>

MutexFree == pc \notin {"check", "arm"}
\* the loop computes sleep_time and ts anew
Recheck == pc' = "check" /\ sleep_time' = 0 /\ ts' = Epoch
\* pthread_cond_broadcast: the decoder, if it is blocked, checks again
Broadcast ==
  IF pc \in {"paused", "nap"} THEN Recheck ELSE UNCHANGED <<pc, sleep_time, ts>>

MutResume ==
  /\ pc # "off" /\ MutexFree /\ pause /\ now <= LastArrival
  /\ pause' = FALSE /\ start_time' = start_time + (now - pause_time)
  /\ UNCHANGED <<now, pause_time, Test, stop, pc, frame, past>>
Resume ==
  /\ pc # "off" /\ MutexFree /\ pause /\ now <= LastArrival
  /\ pause' = FALSE /\ start_time' = start_time + (now - pause_time)
  /\ Broadcast
  /\ UNCHANGED <<now, pause_time, Test, stop, stream_time, early, past>>

Stop ==
  /\ pc # "off" /\ MutexFree /\ ~stop
  /\ stop' = TRUE /\ Broadcast
  /\ UNCHANGED <<now, pause, pause_time, start_time, Test, stream_time, early, past>>

SessionEnds ==
  /\ pc \in {"start", "idle"} /\ stop /\ pc' = "off"
  /\ UNCHANGED <<now, player, frame, past>>

\* the decoder has decoded a frame and asks when to show it
FrameArrives(pts) ==
  /\ pc = "idle" /\ now <= LastArrival
  /\ pc' = "check" /\ stream_time' = pts /\ early' = (now <= start_time + pts)
  /\ UNCHANGED <<now, player, sleep_time, ts, past>>

-----------------------------------------------------------------------------
(* The loop of player_wait_for_frame.                                        *)

\* outside a call its locals have no value
Return ==
  pc' = "idle" /\ stream_time' = 0 /\ sleep_time' = 0 /\ ts' = Epoch /\ early' = FALSE

Skip ==
  /\ pc = "check" /\ stop /\ Return
  /\ UNCHANGED <<now, player, past>>

WaitPaused ==
  /\ pc = "check" /\ ~stop /\ pause /\ pc' = "paused"
  /\ UNCHANGED <<now, player, frame, past>>

\* time left before the frame is due, and the correction of start_time
player_get_current_video_time == (IF pause THEN pause_time ELSE now) - start_time
Lead == stream_time - player_get_current_video_time
Playing == pc = "check" /\ ~stop /\ ~pause
MutCorrect ==
  LET corrects == Lead < -Late \/ Test IN
    /\ start_time' = IF corrects THEN start_time + Lead ELSE start_time
    /\ Test' = (Test /\ ~corrects)
Correct ==
  LET corrects == Lead < -Late \/ Test IN
    /\ start_time' = IF corrects THEN start_time - Lead ELSE start_time
    /\ Test' = (Test /\ ~corrects)

Show ==
  /\ Playing /\ Lead <= MinSleep
  /\ Correct
  /\ shown' = TRUE /\ shown_at' = now /\ shown_pts' = stream_time
  /\ Return
  /\ UNCHANGED <<now, pause, pause_time, stop>>

\* one nap; the correction does not change the time to sleep
MutNapTime  == IF Lead > MinSleep THEN Cap ELSE Lead
MutUncapped == Lead
NapTime == IF Lead > Cap THEN Cap ELSE Lead
TooEarly ==
  /\ Playing /\ Lead > MinSleep
  /\ Correct
  /\ sleep_time' = NapTime /\ pc' = "arm"
  /\ UNCHANGED <<now, pause, pause_time, stop, stream_time, ts, early, past>>

\* the clock is read again, the sum is kept in an unsigned long
MutDeadline(at, sleep) ==
  LET ns == ((at % Second) + (sleep % Second)) % Word IN
    [sec |-> (at \div Second) + (IF ns > Second THEN 1 ELSE 0),
     nsec |-> IF ns > Second THEN ns % Second ELSE ns]
Deadline(at, sleep) ==
  LET ns == ((at % Second) + (sleep % Second)) % Word IN
    [sec |-> (at \div Second) + (IF ns >= Second THEN 1 ELSE 0),
     nsec |-> IF ns >= Second THEN ns % Second ELSE ns]
Arm ==
  /\ pc = "arm" /\ ts' = Deadline(now, sleep_time) /\ pc' = "nap"
  /\ UNCHANGED <<now, player, stream_time, sleep_time, early, past>>

Reached(t) == now >= t.sec * Second + t.nsec
Timeout ==
  /\ pc = "nap" /\ Reached(ts) /\ Recheck
  /\ UNCHANGED <<now, player, stream_time, early, past>>

Spurious ==
  /\ pc \in {"nap", "paused"} /\ Recheck
  /\ UNCHANGED <<now, player, stream_time, early, past>>

ClockFails ==
  /\ pc = "arm" /\ Recheck
  /\ UNCHANGED <<now, player, stream_time, early, past>>

\* the environment: time passes, or somebody sets the clock
ClockMoves(d) ==
  /\ now + d \in Instants
  /\ Prompt => MutexFree /\ ~(pc = "nap" /\ Reached(ts))
  /\ now' = now + d
  /\ UNCHANGED <<player, pc, frame, past>>

Next ==
  \/ SessionOpens \/ ReaderStarts \/ Resume \/ Stop \/ SessionEnds
  \/ \E pts \in Pts : FrameArrives(pts)
  \/ Skip \/ WaitPaused \/ Show \/ TooEarly
  \/ Arm \/ ClockFails \/ Timeout \/ Spurious
  \/ \E d \in Steps : ClockMoves(d)

\* the decoder is scheduled, an expired nap ends, reading the clock does not
\* fail for ever and time goes on
Fairness ==
  /\ WF_vars(Skip) /\ WF_vars(WaitPaused) /\ WF_vars(Show) /\ WF_vars(TooEarly)
  /\ SF_vars(Arm) /\ WF_vars(Timeout) /\ SF_vars(\E d \in Steps : d > 0 /\ ClockMoves(d))

Spec     == Init /\ [][Next]_vars
FairSpec == Spec /\ Fairness

-----------------------------------------------------------------------------
\* Types of the variables; a deadline is one pthread_cond_timedwait accepts,
\* its nanoseconds below a second.  (player.h:156-231; decode.c:591-607)
TypeOK ==
  /\ now \in Instants
  /\ pause \in BOOLEAN /\ Test \in BOOLEAN /\ stop \in BOOLEAN
  /\ shown \in BOOLEAN /\ early \in BOOLEAN
  /\ {pause_time, start_time, stream_time, sleep_time, shown_at, shown_pts} \subseteq Int
  /\ pc \in {"off", "start", "idle", "check", "arm", "nap", "paused"}
  /\ ts \in [sec: Nat, nsec: 0 .. Second - 1]

\* However late frames come and however the clock is set, two frames of a
\* session that both wait for their time follow each other no closer than
\* their time stamps by more than Late and MinSleep: a correction delays the
\* frames after it and never rushes them.  (decode.c:551-580)
Shows == pc = "check" /\ pc' = "idle" /\ ~stop
FramesNotRushed ==
  [][Shows /\ shown
     => shown_at' - shown_at >= shown_pts' - shown_pts - Late - MinSleep]_vars

\* The deadline handed to pthread_cond_timedwait is the clock plus the nap:
\* neither the carry nor the width of ns loses anything.  (decode.c:585-607)
DeadlineExact ==
  [][pc = "arm" /\ pc' = "nap"
     => ts'.sec * Second + ts'.nsec = now + sleep_time]_vars

\* With a steady clock and threads that run when they can, a frame that comes
\* before it is due is shown when it is due, at most MinSleep early and never
\* late, however many naps it takes; the first frame is the exception.
\* (decode.c:577-613)
due == start_time + stream_time
Punctual ==
  [][Shows /\ shown /\ early => now \in due - MinSleep .. due]_vars

\* Unless playback stays paused, a decoded frame is shown or skipped, through
\* spurious wake-ups, failures to read the clock and corrections.
\* (decode.c:520-640; player.c:1013)
FrameHandled == (pc \in {"check", "paused"} /\ ~pause) ~> (pc = "idle")

\* The thread sleeps only for a frame that is not yet due by start_time: "make
\* the timestamp of the first frame as the start time" (decode.c:560-564), "We
\* do not need to wait if time is slower then minimal sleep time" (decode.c:578).
NapsOnlyIfEarly == pc = "arm" => Lead > MinSleep
=============================================================================

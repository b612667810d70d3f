-------------------------- MODULE FrameClockProofs --------------------------
(* The arithmetic of player_wait_for_frame, for every clock, every time      *)
(* stamp and every value of the constants its assumptions allow.             *)
EXTENDS FrameClock, TLAPS

\* Division with rest, and the two rests a sum of nanoseconds can have.
LEMMA Division ==
  ASSUME NEW a \in Nat, NEW b \in Nat, b > 0
  PROVE  /\ a \div b \in Nat /\ a % b \in 0 .. b - 1
         /\ ((a \div b) * b) + (a % b) = a
  OBVIOUS

LEMMA NoWrap ==
  ASSUME NEW b \in Nat, b > 0, NEW a \in 0 .. b - 1
  PROVE  a % b = a
  OBVIOUS

LEMMA OneWrap ==
  ASSUME NEW b \in Nat, b > 0, NEW a \in b .. b + b - 1
  PROVE  a % b = a - b
<1>1. (a - b) \in 0 .. b - 1 /\ a = b + (a - b)
  OBVIOUS
<1>2. a % b = (a - b) % b
  BY <1>1
<1> QED
  BY <1>1, <1>2, NoWrap

\* The deadline of a nap shorter than a second is exact and normalized.
LEMMA DeadlineLemma ==
  ASSUME NEW at \in Nat, NEW sleep \in 0 .. Cap
  PROVE  /\ Deadline(at, sleep) \in [sec: Nat, nsec: 0 .. Second - 1]
         /\ Deadline(at, sleep).sec * Second + Deadline(at, sleep).nsec = at + sleep
<1> DEFINE q == at \div Second
           r == at % Second
           ns == (r + (sleep % Second)) % Word
<1>0. Second \in Nat /\ Word \in Nat /\ Cap \in Nat /\ Second > 0 /\ Cap < Second
      /\ Second + Second <= Word
  BY ConstantsAssumption
<1>1. q \in Nat /\ r \in 0 .. Second - 1 /\ (q * Second) + r = at
  BY <1>0, Division
<1>2. sleep % Second = sleep /\ sleep \in 0 .. Second - 1
  BY <1>0, NoWrap
<1> DEFINE D == [sec |-> q + (IF ns >= Second THEN 1 ELSE 0),
                 nsec |-> IF ns >= Second THEN ns % Second ELSE ns]
<1>3. Deadline(at, sleep) = D
  BY DEF Deadline
<1> HIDE DEF q, r
<1>4. r + sleep \in 0 .. Word - 1
  BY <1>0, <1>1, <1>2
<1>5. ns = r + sleep
  BY <1>0, <1>2, <1>4, NoWrap
<1> HIDE DEF ns
<1>6. CASE ns >= Second
  <2>1. ns \in Second .. Second + Second - 1
    BY <1>0, <1>1, <1>2, <1>5, <1>6
  <2>2. ns % Second = ns - Second
    BY <1>0, <2>1, OneWrap
  <2>3. (q + 1) * Second = (q * Second) + Second
    BY <1>0, <1>1
  <2> QED
    BY <1>0, <1>1, <1>2, <1>3, <1>5, <1>6, <2>1, <2>2, <2>3
<1>7. CASE ns < Second
  BY <1>0, <1>1, <1>2, <1>3, <1>5, <1>7
<1> QED
  BY <1>0, <1>1, <1>2, <1>5, <1>6, <1>7

-----------------------------------------------------------------------------
(* The inductive invariant.  A nap is never longer than Cap; and as long as  *)
(* a session shows frames, nobody corrects start_time for a first frame,     *)
(* nobody resumes, and the last frame shown was at most Late behind.         *)
NapCapped == pc = "arm" => sleep_time \in 0 .. Cap
LastOnTime ==
  /\ pc = "start" => ~shown
  /\ shown => ~Test /\ ~pause /\ shown_at <= start_time + shown_pts + Late
IInv == TypeOK /\ NapCapped /\ LastOnTime

\* TypeOK in two parts: the flags and everything else
Flags ==
  /\ pause \in BOOLEAN /\ Test \in BOOLEAN /\ stop \in BOOLEAN
  /\ shown \in BOOLEAN /\ early \in BOOLEAN
Numbers ==
  /\ now \in Instants
  /\ {pause_time, start_time, stream_time, sleep_time, shown_at, shown_pts} \subseteq Int
  /\ pc \in {"off", "start", "idle", "check", "arm", "nap", "paused"}
  /\ ts \in [sec: Nat, nsec: 0 .. Second - 1]
LEMMA TypeParts == (Flags /\ Numbers <=> TypeOK) /\ (Flags' /\ Numbers' <=> TypeOK')
  BY DEF Flags, Numbers, TypeOK

LEMMA InitIInv == Init => IInv
<1> SUFFICES ASSUME Init PROVE IInv
  OBVIOUS
<1>1. Flags
  BY DEF Init, Flags
<1>2. Numbers
  BY ClockAssumption, ConstantsAssumption DEF Init, Numbers, Epoch
<1>3. NapCapped /\ LastOnTime
  BY DEF Init, NapCapped, LastOnTime
<1> QED
  BY <1>1, <1>2, <1>3, TypeParts DEF IInv

\* What the correction does in either branch of the loop.
LEMMA CorrectLemma ==
  ASSUME TypeOK, Playing, Correct
  PROVE  /\ Lead = stream_time - (now - start_time) /\ Lead \in Int
         /\ start_time' \in Int /\ Test' = FALSE
         /\ ~Test => start_time' >= start_time
         /\ now <= start_time' + stream_time + Late
<1>1. now \in Int /\ start_time \in Int /\ stream_time \in Int /\ Late \in Nat
  BY ClockAssumption, ConstantsAssumption DEF TypeOK
<1>2. Lead = stream_time - (now - start_time)
  BY DEF Lead, player_get_current_video_time, Playing
<1>3. Test' = FALSE
  BY DEF Correct, TypeOK
<1> HIDE DEF Lead
<1>4. CASE Lead < -Late \/ Test
  <2>1. start_time' = start_time - Lead
    BY <1>4 DEF Correct
  <2> QED
    BY <1>1, <1>2, <1>3, <1>4, <2>1
<1>5. CASE ~(Lead < -Late \/ Test)
  <2>1. start_time' = start_time
    BY <1>5 DEF Correct
  <2> QED
    BY <1>1, <1>2, <1>3, <1>5, <2>1
<1> QED
  BY <1>4, <1>5

LEMMA NextIInv == IInv /\ [Next]_vars => IInv'
<1> SUFFICES ASSUME IInv, [Next]_vars PROVE IInv'
  OBVIOUS
<1>0. Flags /\ Numbers /\ NapCapped /\ LastOnTime /\ TypeOK
  BY TypeParts DEF IInv
<1>C. Instants \subseteq Nat /\ Late \in Nat /\ Cap \in Nat /\ Second \in Nat /\ Second > 0
  BY ClockAssumption, ConstantsAssumption
<1>1. CASE SessionOpens
  <2>1. Flags'
    BY <1>0, <1>1 DEF SessionOpens, frame, Flags
  <2>2. Numbers'
    BY <1>0, <1>1, <1>C DEF SessionOpens, frame, Numbers
  <2>3. NapCapped'
    BY <1>0, <1>1, <1>C DEF SessionOpens, frame, NapCapped
  <2>4. LastOnTime'
    BY <1>0, <1>1, <1>C DEF SessionOpens, frame, Numbers, LastOnTime
  <2> QED
    BY <2>1, <2>2, <2>3, <2>4, TypeParts DEF IInv
<1>2. CASE ReaderStarts
  <2>1. Flags'
    BY <1>0, <1>2 DEF ReaderStarts, frame, past, Flags
  <2>2. Numbers'
    BY <1>0, <1>2, <1>C DEF ReaderStarts, frame, past, Numbers
  <2>3. NapCapped'
    BY <1>0, <1>2, <1>C DEF ReaderStarts, frame, past, NapCapped
  <2>4. LastOnTime'
    BY <1>0, <1>2, <1>C DEF ReaderStarts, frame, past, Numbers, LastOnTime
  <2> QED
    BY <2>1, <2>2, <2>3, <2>4, TypeParts DEF IInv
<1>3. CASE Resume
  <2>1. Flags'
    BY <1>0, <1>3 DEF Resume, MutexFree, Broadcast, Recheck, Epoch, past, Flags
  <2>2. Numbers'
    BY <1>0, <1>3, <1>C DEF Resume, MutexFree, Broadcast, Recheck, Epoch, past, Numbers
  <2>3. NapCapped'
    BY <1>0, <1>3, <1>C DEF Resume, MutexFree, Broadcast, Recheck, Epoch, past, NapCapped
  <2>4. LastOnTime'
    BY <1>0, <1>3, <1>C DEF Resume, MutexFree, Broadcast, Recheck, Epoch, past, Numbers, LastOnTime
  <2> QED
    BY <2>1, <2>2, <2>3, <2>4, TypeParts DEF IInv
<1>4. CASE Stop
  <2>1. Flags'
    BY <1>0, <1>4 DEF Stop, MutexFree, Broadcast, Recheck, Epoch, past, Flags
  <2>2. Numbers'
    BY <1>0, <1>4, <1>C DEF Stop, MutexFree, Broadcast, Recheck, Epoch, past, Numbers
  <2>3. NapCapped'
    BY <1>0, <1>4, <1>C DEF Stop, MutexFree, Broadcast, Recheck, Epoch, past, NapCapped
  <2>4. LastOnTime'
    BY <1>0, <1>4, <1>C DEF Stop, MutexFree, Broadcast, Recheck, Epoch, past, Numbers, LastOnTime
  <2> QED
    BY <2>1, <2>2, <2>3, <2>4, TypeParts DEF IInv
<1>5. CASE SessionEnds
  <2>1. Flags'
    BY <1>0, <1>5 DEF SessionEnds, player, frame, past, Flags
  <2>2. Numbers'
    BY <1>0, <1>5, <1>C DEF SessionEnds, player, frame, past, Numbers
  <2>3. NapCapped'
    BY <1>0, <1>5, <1>C DEF SessionEnds, player, frame, past, NapCapped
  <2>4. LastOnTime'
    BY <1>0, <1>5, <1>C DEF SessionEnds, player, frame, past, Numbers, LastOnTime
  <2> QED
    BY <2>1, <2>2, <2>3, <2>4, TypeParts DEF IInv
<1>6. ASSUME NEW pts \in Pts, FrameArrives(pts) PROVE IInv'
  <2>1. Flags'
    BY <1>0, <1>6 DEF FrameArrives, player, past, Flags
  <2>2. Numbers'
    BY <1>0, <1>6, <1>C, ClockAssumption DEF FrameArrives, player, past, Numbers
  <2>3. NapCapped'
    BY <1>0, <1>6, <1>C DEF FrameArrives, player, past, NapCapped
  <2>4. LastOnTime'
    BY <1>0, <1>6, <1>C DEF FrameArrives, player, past, Numbers, LastOnTime
  <2> QED
    BY <2>1, <2>2, <2>3, <2>4, TypeParts DEF IInv
<1>7. CASE Skip
  <2>1. Flags'
    BY <1>0, <1>7 DEF Skip, Return, Epoch, player, past, Flags
  <2>2. Numbers'
    BY <1>0, <1>7, <1>C DEF Skip, Return, Epoch, player, past, Numbers
  <2>3. NapCapped'
    BY <1>0, <1>7, <1>C DEF Skip, Return, Epoch, player, past, NapCapped
  <2>4. LastOnTime'
    BY <1>0, <1>7, <1>C DEF Skip, Return, Epoch, player, past, Numbers, LastOnTime
  <2> QED
    BY <2>1, <2>2, <2>3, <2>4, TypeParts DEF IInv
<1>8. CASE WaitPaused
  <2>1. Flags'
    BY <1>0, <1>8 DEF WaitPaused, player, frame, past, Flags
  <2>2. Numbers'
    BY <1>0, <1>8, <1>C DEF WaitPaused, player, frame, past, Numbers
  <2>3. NapCapped'
    BY <1>0, <1>8, <1>C DEF WaitPaused, player, frame, past, NapCapped
  <2>4. LastOnTime'
    BY <1>0, <1>8, <1>C DEF WaitPaused, player, frame, past, Numbers, LastOnTime
  <2> QED
    BY <2>1, <2>2, <2>3, <2>4, TypeParts DEF IInv
<1>9. CASE Show
  <2>0. start_time' \in Int /\ Test' = FALSE /\ now <= start_time' + stream_time + Late
    BY <1>0, <1>9, CorrectLemma DEF Show
  <2>1. Flags'
    BY <1>0, <1>9, <2>0 DEF Show, Playing, Return, Epoch, Flags
  <2>2. Numbers'
    BY <1>0, <1>9, <2>0, <1>C DEF Show, Playing, Return, Epoch, Numbers
  <2>3. NapCapped'
    BY <1>0, <1>9, <2>0, <1>C DEF Show, Playing, Return, Epoch, NapCapped
  <2>4. LastOnTime'
    BY <1>0, <1>9, <2>0, <1>C DEF Show, Playing, Return, Epoch, Numbers, LastOnTime
  <2> QED
    BY <2>1, <2>2, <2>3, <2>4, TypeParts DEF IInv
<1>10. CASE TooEarly
  <2>0. /\ start_time' \in Int /\ Test' = FALSE /\ Lead \in Int
        /\ ~Test => start_time' >= start_time
    BY <1>0, <1>10, CorrectLemma DEF TooEarly
  <2>n. sleep_time' \in 0 .. Cap
    BY <1>C, <1>10, <2>0, ConstantsAssumption DEF TooEarly, NapTime
  <2>1. Flags'
    BY <1>0, <1>10, <2>0, <2>n DEF TooEarly, past, Flags
  <2>2. Numbers'
    BY <1>0, <1>10, <2>0, <2>n, <1>C DEF TooEarly, past, Numbers
  <2>3. NapCapped'
    BY <1>0, <1>10, <2>0, <2>n, <1>C DEF TooEarly, past, NapCapped
  <2>4. LastOnTime'
    BY <1>0, <1>10, <2>0, <2>n, <1>C DEF TooEarly, past, Numbers, LastOnTime
  <2> QED
    BY <2>1, <2>2, <2>3, <2>4, TypeParts DEF IInv
<1>11. CASE Arm
  <2>0. ts' \in [sec: Nat, nsec: 0 .. Second - 1]
    BY <1>0, <1>C, <1>11, DeadlineLemma DEF Arm, Numbers, NapCapped
  <2>1. Flags'
    BY <1>0, <1>11, <2>0 DEF Arm, player, past, Flags
  <2>2. Numbers'
    BY <1>0, <1>11, <2>0, <1>C DEF Arm, player, past, Numbers
  <2>3. NapCapped'
    BY <1>0, <1>11, <2>0, <1>C DEF Arm, player, past, NapCapped
  <2>4. LastOnTime'
    BY <1>0, <1>11, <2>0, <1>C DEF Arm, player, past, Numbers, LastOnTime
  <2> QED
    BY <2>1, <2>2, <2>3, <2>4, TypeParts DEF IInv
<1>12. CASE ClockFails
  <2>1. Flags'
    BY <1>0, <1>12 DEF ClockFails, Recheck, Epoch, player, past, Flags
  <2>2. Numbers'
    BY <1>0, <1>12, <1>C DEF ClockFails, Recheck, Epoch, player, past, Numbers
  <2>3. NapCapped'
    BY <1>0, <1>12, <1>C DEF ClockFails, Recheck, Epoch, player, past, NapCapped
  <2>4. LastOnTime'
    BY <1>0, <1>12, <1>C DEF ClockFails, Recheck, Epoch, player, past, Numbers, LastOnTime
  <2> QED
    BY <2>1, <2>2, <2>3, <2>4, TypeParts DEF IInv
<1>13. CASE Timeout
  <2>1. Flags'
    BY <1>0, <1>13 DEF Timeout, Recheck, Epoch, player, past, Flags
  <2>2. Numbers'
    BY <1>0, <1>13, <1>C DEF Timeout, Recheck, Epoch, player, past, Numbers
  <2>3. NapCapped'
    BY <1>0, <1>13, <1>C DEF Timeout, Recheck, Epoch, player, past, NapCapped
  <2>4. LastOnTime'
    BY <1>0, <1>13, <1>C DEF Timeout, Recheck, Epoch, player, past, Numbers, LastOnTime
  <2> QED
    BY <2>1, <2>2, <2>3, <2>4, TypeParts DEF IInv
<1>14. CASE Spurious
  <2>1. Flags'
    BY <1>0, <1>14 DEF Spurious, Recheck, Epoch, player, past, Flags
  <2>2. Numbers'
    BY <1>0, <1>14, <1>C DEF Spurious, Recheck, Epoch, player, past, Numbers
  <2>3. NapCapped'
    BY <1>0, <1>14, <1>C DEF Spurious, Recheck, Epoch, player, past, NapCapped
  <2>4. LastOnTime'
    BY <1>0, <1>14, <1>C DEF Spurious, Recheck, Epoch, player, past, Numbers, LastOnTime
  <2> QED
    BY <2>1, <2>2, <2>3, <2>4, TypeParts DEF IInv
<1>15. ASSUME NEW d \in Steps, ClockMoves(d) PROVE IInv'
  <2>1. Flags'
    BY <1>0, <1>15 DEF ClockMoves, player, frame, past, Flags
  <2>2. Numbers'
    BY <1>0, <1>15, <1>C DEF ClockMoves, player, frame, past, Numbers
  <2>3. NapCapped'
    BY <1>0, <1>15, <1>C DEF ClockMoves, player, frame, past, NapCapped
  <2>4. LastOnTime'
    BY <1>0, <1>15, <1>C DEF ClockMoves, player, frame, past, Numbers, LastOnTime
  <2> QED
    BY <2>1, <2>2, <2>3, <2>4, TypeParts DEF IInv
<1>16. CASE UNCHANGED vars
  BY <1>0, <1>16 DEF vars, player, frame, past, IInv, TypeOK, NapCapped, LastOnTime
<1> QED
  BY <1>1, <1>2, <1>3, <1>4, <1>5, <1>6, <1>7, <1>8, <1>9, <1>10, <1>11, <1>12, <1>13,
     <1>14, <1>15, <1>16 DEF Next

LEMMA Inductive == Spec => []IInv
  BY InitIInv, NextIInv, PTL DEF Spec

\* Every deadline is one that pthread_cond_timedwait accepts, and every
\* variable keeps its type.  (decode.c:591-607)
THEOREM TypeCorrect == Spec => []TypeOK
<1>1. IInv => TypeOK
  BY DEF IInv
<1> QED
  BY <1>1, Inductive, PTL

\* For every Cap below a second the deadline is exactly the nap away: the
\* remainder by a second and the 32 bits of ns lose nothing.  (decode.c:585-607)
THEOREM DeadlinesExact == Spec => DeadlineExact
<1>1. ASSUME IInv, [Next]_vars, pc = "arm", pc' = "nap"
      PROVE  ts'.sec * Second + ts'.nsec = now + sleep_time
  <2>1. Arm
    BY <1>1 DEF Next, SessionOpens, ReaderStarts, Resume, MutexFree, Stop, SessionEnds,
       FrameArrives, Skip, WaitPaused, Show, TooEarly, Playing, ClockFails, Recheck, Timeout,
       Spurious, ClockMoves, vars
  <2>2. now \in Nat /\ sleep_time \in 0 .. Cap
    BY <1>1, ClockAssumption DEF IInv, TypeOK, NapCapped
  <2> QED
    BY <2>1, <2>2, DeadlineLemma DEF Arm
<1> QED
  BY <1>1, Inductive, PTL DEF Spec, DeadlineExact

\* Frames of a session are never rushed, for every lateness, every order of
\* time stamps and every way the wall clock is set.  (decode.c:551-580)
THEOREM NotRushed == Spec => FramesNotRushed
<1>1. ASSUME IInv, [Next]_vars, Shows, shown
      PROVE  shown_at' - shown_at >= shown_pts' - shown_pts - Late - MinSleep
  <2>1. Show
    BY <1>1 DEF Shows, Next, SessionOpens, ReaderStarts, Resume, MutexFree, Stop, SessionEnds,
       FrameArrives, Skip, WaitPaused, TooEarly, Playing, Arm, ClockFails, Recheck, Timeout,
       Spurious, ClockMoves, vars
  <2>2. Lead = stream_time - (now - start_time) /\ Lead <= MinSleep
    BY <1>1, <2>1, CorrectLemma DEF IInv, Show
  <2>3. shown_at' = now /\ shown_pts' = stream_time
        /\ shown_at <= start_time + shown_pts + Late
    BY <1>1, <2>1 DEF IInv, LastOnTime, Show
  <2>4. {now, start_time, stream_time, shown_at, shown_pts, Late, MinSleep} \subseteq Int
    BY <1>1, ClockAssumption, ConstantsAssumption DEF IInv, TypeOK
  <2> QED
    BY <2>2, <2>3, <2>4
<1> QED
  BY <1>1, Inductive, PTL DEF Spec, FramesNotRushed

-----------------------------------------------------------------------------
(* Punctuality, under a clock that goes on by one instant at a time and only *)
(* when no thread can run.  A frame that came early is still not late, and   *)
(* no nap ends after it is due.                                              *)
SteadyClock == Prompt /\ (\A d \in Steps : d <= 1)
InTime ==
  shown /\ early /\ ~stop =>
    /\ pc # "paused"
    /\ pc \in {"check", "arm", "nap"} => now <= start_time + stream_time
    /\ pc = "arm" => now + sleep_time <= start_time + stream_time
    /\ pc = "nap" => ts.sec * Second + ts.nsec <= start_time + stream_time

LEMMA NextInTime == SteadyClock /\ IInv /\ InTime /\ [Next]_vars => InTime'
<1> SUFFICES ASSUME SteadyClock, IInv, InTime, [Next]_vars PROVE InTime'
  OBVIOUS
<1>0. Numbers /\ NapCapped /\ LastOnTime /\ TypeOK
  BY TypeParts DEF IInv
<1>C. now \in Nat /\ MinSleep \in Nat /\ Late \in Nat /\ Cap \in Nat /\ Second \in Nat
  BY <1>0, ClockAssumption, ConstantsAssumption DEF Numbers
<1>1. CASE SessionOpens
  BY <1>0, <1>1 DEF SessionOpens, frame, LastOnTime, InTime
<1>2. CASE ReaderStarts
  BY <1>0, <1>2 DEF ReaderStarts, frame, past, LastOnTime, InTime
<1>3. CASE Resume
  BY <1>0, <1>3 DEF Resume, MutexFree, Broadcast, Recheck, Epoch, past, LastOnTime, InTime
<1>4. CASE Stop
  BY <1>0, <1>4 DEF Stop, LastOnTime, InTime
<1>5. CASE SessionEnds
  BY <1>0, <1>5 DEF SessionEnds, player, frame, past, LastOnTime, InTime
<1>6. ASSUME NEW pts \in Pts, FrameArrives(pts) PROVE InTime'
  BY <1>0, <1>6, ClockAssumption DEF FrameArrives, player, past, InTime
<1>7. CASE Skip
  BY <1>0, <1>7 DEF Skip, Return, LastOnTime, InTime
<1>8. CASE WaitPaused
  BY <1>0, <1>8 DEF WaitPaused, player, frame, past, LastOnTime, InTime
<1>9. CASE Show
  BY <1>0, <1>9 DEF Show, Return, LastOnTime, InTime
<1>10. CASE TooEarly
  <2> SUFFICES ASSUME shown, early, ~stop
               PROVE  now <= start_time' + stream_time /\ now + sleep_time' <= start_time' + stream_time
    BY <1>10 DEF TooEarly, past, InTime
  <2>1. Playing /\ Correct /\ sleep_time' = NapTime /\ Lead > MinSleep
    BY <1>10 DEF TooEarly
  <2>2. Lead = stream_time - (now - start_time) /\ Lead \in Int
    BY <1>0, <2>1, CorrectLemma
  <2>3. start_time' = start_time
    BY <1>0, <1>C, <2>1, <2>2 DEF Correct, LastOnTime
  <2>4. NapTime <= Lead
    BY <1>C, <2>2 DEF NapTime
  <2> QED
    BY <1>0, <1>C, <2>1, <2>2, <2>3, <2>4 DEF Numbers, NapTime
<1>11. CASE Arm
  <2>1. ts'.sec * Second + ts'.nsec = now + sleep_time
    BY <1>0, <1>C, <1>11, DeadlineLemma DEF Arm, NapCapped
  <2> QED
    BY <1>11, <2>1 DEF Arm, player, past, InTime
<1>12. CASE ClockFails
  BY <1>0, <1>12 DEF ClockFails, Recheck, player, past, LastOnTime, InTime
<1>13. CASE Timeout
  BY <1>0, <1>13 DEF Timeout, Recheck, player, past, LastOnTime, InTime
<1>14. CASE Spurious
  BY <1>0, <1>14 DEF Spurious, Recheck, player, past, LastOnTime, InTime
<1>15. ASSUME NEW d \in Steps, ClockMoves(d) PROVE InTime'
  <2>1. MutexFree /\ ~(pc = "nap" /\ Reached(ts)) /\ d <= 1 /\ d \in Int /\ now' = now + d
    BY <1>15, ClockAssumption DEF ClockMoves, SteadyClock
  <2>2. CASE pc = "nap"
    <3>1. ts.sec * Second + ts.nsec \in Int /\ now < ts.sec * Second + ts.nsec
      BY <1>0, <1>C, <2>1, <2>2 DEF Numbers, Reached
    <3> QED
      BY <1>0, <1>C, <1>15, <2>1, <2>2, <3>1 DEF ClockMoves, player, frame, past, Numbers, InTime
  <2>3. CASE pc # "nap"
    BY <2>1, <2>3, <1>15 DEF ClockMoves, MutexFree, player, frame, past, InTime
  <2> QED
    BY <2>2, <2>3
<1>16. CASE UNCHANGED vars
  BY <1>16 DEF vars, player, frame, past, InTime
<1> QED
  BY <1>1, <1>2, <1>3, <1>4, <1>5, <1>6, <1>7, <1>8, <1>9, <1>10, <1>11, <1>12, <1>13,
     <1>14, <1>15, <1>16 DEF Next

\* With a steady clock a frame that comes early is shown within MinSleep of
\* its time, whatever the number of naps, spurious wake-ups and failures to
\* read the clock.  (decode.c:577-613)
THEOREM FramesPunctual == ASSUME SteadyClock PROVE Spec => Punctual
<1>1. Init => InTime
  BY DEF Init, InTime
<1>2. IInv /\ InTime /\ [Next]_vars => InTime'
  BY NextInTime
<1>3. ASSUME IInv, InTime, [Next]_vars, Shows, shown, early
      PROVE  now \in due - MinSleep .. due
  <2>1. Show
    BY <1>3 DEF Shows, Next, SessionOpens, ReaderStarts, Resume, MutexFree, Stop, SessionEnds,
       FrameArrives, Skip, WaitPaused, TooEarly, Playing, Arm, ClockFails, Recheck, Timeout,
       Spurious, ClockMoves, vars
  <2>2. Lead = stream_time - (now - start_time) /\ Lead <= MinSleep
    BY <1>3, <2>1, CorrectLemma DEF IInv, Show
  <2>3. now <= start_time + stream_time
    BY <1>3 DEF InTime, Shows
  <2>4. {now, start_time, stream_time, MinSleep} \subseteq Int
    BY <1>3, ClockAssumption, ConstantsAssumption DEF IInv, TypeOK
  <2> QED
    BY <2>2, <2>3, <2>4 DEF due
<1> QED
  BY <1>1, <1>2, <1>3, Inductive, PTL DEF Spec, Punctual
=============================================================================

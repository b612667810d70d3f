-------------------------- MODULE TimeReportProofs --------------------------
(* The report of the playing time for all times, durations and thresholds,   *)
(* and any number of runnables.  That the screen settles on the last report  *)
(* rests on two facts about a report on its way: a field that need not be    *)
(* stored any more holds what was reported, and once no runnable is waiting  *)
(* a field that need not be read any more shows it.                          *)
EXTENDS TimeReport, TLAPS

\* what was reported is a time within its duration
Sound == report.mCurrentTimeUs <= report.mVideoDurationUs

Stored ==
  /\ pc = "idle" => todo = {}
  /\ \A f \in Fields \ todo : field[f] = report[f]

Screen == pc = "idle" /\ posted = 0 => \A f \in Fields \ unread : shown[f] = report[f]

IndInv == TypeOK /\ Sound /\ Stored /\ Screen

\* Two reports that agree on every field are equal, and a report with one
\* field taken from another is a report: the Java fields are copied one by
\* one.  (VideoPlayer.java:166-178, 272-278)
LEMMA SameReport ==
  ASSUME NEW r \in Reports, NEW q \in Reports, \A f \in Fields : r[f] = q[f]
  PROVE  r = q
<1>1. /\ r["mCurrentTimeUs"] = q["mCurrentTimeUs"]
      /\ r["mVideoDurationUs"] = q["mVideoDurationUs"]
      /\ r["mIsFinished"] = q["mIsFinished"]
  BY DEF Fields
<1>2. /\ r.mCurrentTimeUs = q.mCurrentTimeUs
      /\ r.mVideoDurationUs = q.mVideoDurationUs
      /\ r.mIsFinished = q.mIsFinished
  BY <1>1
<1> QED BY <1>2 DEF Reports

LEMMA CopyField ==
  ASSUME NEW r \in Reports, NEW q \in Reports, NEW f \in Fields
  PROVE  [r EXCEPT ![f] = q[f]] \in Reports
<1>1. CASE f = "mCurrentTimeUs"
  <2>1. [r EXCEPT ![f] = q[f]] = [r EXCEPT !.mCurrentTimeUs = q.mCurrentTimeUs]
    BY <1>1
  <2> QED BY <2>1 DEF Reports
<1>2. CASE f = "mVideoDurationUs"
  <2>1. [r EXCEPT ![f] = q[f]] = [r EXCEPT !.mVideoDurationUs = q.mVideoDurationUs]
    BY <1>2
  <2> QED BY <2>1 DEF Reports
<1>3. CASE f = "mIsFinished"
  <2>1. [r EXCEPT ![f] = q[f]] = [r EXCEPT !.mIsFinished = q.mIsFinished]
    BY <1>3
  <2> QED BY <2>1 DEF Reports
<1> QED BY <1>1, <1>2, <1>3 DEF Fields

LEMMA CopiedField ==
  ASSUME NEW r \in Reports, NEW q \in Reports, NEW f \in Fields, NEW g \in Fields
  PROVE  [r EXCEPT ![f] = q[f]][g] = IF g = f THEN q[f] ELSE r[g]
BY DEF Reports, Fields

\* what player_update_time reports, whatever duration the source has:
\* the duration is raised to the time reached.  (player.c:899-906)
LEMMA ReportSound ==
  ASSUME TypeOK, NEW now \in Times, NEW fin \in BOOLEAN
  PROVE  LET r == Report(now, Larger(now, video_duration), fin) IN
           r \in Reports /\ r.mCurrentTimeUs <= r.mVideoDurationUs
BY TimesAssumption DEF TypeOK, Report, Larger, Reports, AllTimes

LEMMA InitIndInv == Init => IndInv
<1> SUFFICES ASSUME Init PROVE IndInv
  OBVIOUS
<1>1. Nothing \in Reports /\ Nothing.mCurrentTimeUs <= Nothing.mVideoDurationUs
  BY DEF Nothing, Report, Reports, AllTimes
<1>2. TypeOK
  <2>1. playing \in BOOLEAN
    BY Zenon DEF Init
  <2> QED BY <1>1, <2>1, TimesAssumption DEF Init, TypeOK
<1>3. Sound /\ Stored /\ Screen
  BY <1>1 DEF Init, Sound, Stored, Screen
<1> QED BY <1>2, <1>3 DEF IndInv

LEMMA Step == IndInv /\ [Next]_vars => IndInv'
<1> SUFFICES ASSUME IndInv, [Next]_vars PROVE IndInv'
  OBVIOUS
<1> USE TimesAssumption DEF IndInv, TypeOK
<1>1. CASE SourceOpens
  BY <1>1 DEF SourceOpens, thread, ui, Sound, Stored, Screen
<1>2. ASSUME NEW now \in Times, NEW fin \in BOOLEAN, UpdateTime(now, fin) PROVE IndInv'
  <2>1. report' \in Reports /\ Sound'
    BY <1>2, ReportSound DEF UpdateTime, Sound
  <2>2. last_updated_time' \in Times \cup {0, -1}
    BY <1>2 DEF UpdateTime
  <2>3. (Stored /\ Screen)'
    BY <1>2 DEF UpdateTime, Stored, Screen
  <2> QED BY <1>2, <2>1, <2>2, <2>3 DEF UpdateTime, ui
<1>3. CASE Store
  <2>1. PICK f \in todo : field' = [field EXCEPT ![f] = report[f]] /\ todo' = todo \ {f}
    BY <1>3 DEF Store
  <2>2. f \in Fields
    OBVIOUS
  <2>3. field' \in Reports
    BY <2>1, <2>2, CopyField
  <2>4. \A g \in Fields : field'[g] = IF g = f THEN report[f] ELSE field[g]
    BY <2>1, <2>2, CopiedField
  <2>5. (Stored /\ Screen /\ Sound)'
    BY <1>3, <2>1, <2>4 DEF Store, ui, native, Stored, Screen, Sound
  <2> QED BY <1>3, <2>1, <2>3, <2>5 DEF Store, ui, native
<1>4. CASE Post
  BY <1>4 DEF Post, ui, native, Sound, Stored, Screen
<1>5. CASE RunnableStarts
  BY <1>5 DEF RunnableStarts, native, thread, Sound, Stored, Screen
<1>6. CASE RunnableReads
  <2>1. PICK f \in unread : shown' = [shown EXCEPT ![f] = field[f]] /\ unread' = unread \ {f}
    BY <1>6 DEF RunnableReads
  <2>2. f \in Fields
    OBVIOUS
  <2>3. shown' \in Reports
    BY <2>1, <2>2, CopyField
  <2>4. \A g \in Fields : shown'[g] = IF g = f THEN field[f] ELSE shown[g]
    BY <2>1, <2>2, CopiedField
  <2>5. (Stored /\ Screen /\ Sound)'
    BY <1>6, <2>1, <2>4 DEF RunnableReads, native, thread, Stored, Screen, Sound
  <2> QED BY <1>6, <2>1, <2>3, <2>5 DEF RunnableReads, native, thread
<1>7. CASE UNCHANGED vars
  BY <1>7 DEF vars, native, thread, ui, Sound, Stored, Screen
<1> QED BY <1>1, <1>2, <1>3, <1>4, <1>5, <1>6, <1>7 DEF Next

LEMMA Inductive == Spec => []IndInv
BY InitIndInv, Step, PTL DEF Spec

\* The fields that the decoder writes and the UI thread reads without a lock
\* keep their types.  (VideoPlayer.java:166-183, 272-278)
THEOREM TypeCorrect == Spec => []TypeOK
<1>1. IndInv => TypeOK
  BY DEF IndInv
<1> QED BY Inductive, <1>1, PTL

\* However stores and reads of the three unsynchronized fields interleave, and
\* however many runnables were posted, the screen ends up with the last report
\* as a whole.  (player.c:881-906; VideoPlayer.java:166-178, 272-278)
THEOREM SettlesOnLast == Spec => []SettledShown
<1>1. IndInv => SettledShown
  <2> SUFFICES ASSUME IndInv, Settled PROVE shown = report /\ Sound
    BY DEF SettledShown, Sound
  <2>1. \A f \in Fields : shown[f] = report[f]
    BY DEF IndInv, Settled, Screen
  <2> QED BY <2>1, SameReport DEF IndInv, TypeOK
<1> QED BY Inductive, <1>1, PTL
=============================================================================

----------------------------- MODULE TimeReport -----------------------------
(* How the playing time reaches the screen.  player_update_time, called by   *)
(* the decoder after every packet, takes the time under mutex_queue, decides *)
(* whether the user is told, and calls VideoPlayer.onUpdateTime, which       *)
(* stores three plain Java fields and posts updateTimeRunnable to the UI     *)
(* thread; the runnable reads the fields when its turn comes.  The fields    *)
(* are not synchronized, so each side may touch them in any order.           *)
EXTENDS Integers

CONSTANTS Times,      \* values of player_get_current_video_time
          Durations,  \* values player_get_video_duration may find
          Threshold,  \* 500000 us in the code
          MaxPosted   \* bound: runnables waiting for the UI thread

ASSUME TimesAssumption ==
  Times \subseteq Int /\ Durations \subseteq Int /\ Threshold \in Nat /\ MaxPosted \in Nat

VARIABLES
  playing, last_updated_time, video_duration,   \* struct Player
  pc, todo, report,       \* decoder: label, fields still to store, arguments
  field,                  \* the fields of VideoPlayer
  posted,                 \* runnables in the queue of the UI thread
  unread, shown           \* UI thread: fields still to read, values it has read

native == <<playing, last_updated_time, video_duration>>
thread == <<pc, todo, report>>
ui     == <<unread, shown>>
vars   == <<native, thread, field, posted, ui>>

Fields == {"mCurrentTimeUs", "mVideoDurationUs", "mIsFinished"}
\* what is passed to onUpdateTime
Report(cur, dur, fin) ==
  [mCurrentTimeUs |-> cur, mVideoDurationUs |-> dur, mIsFinished |-> fin]
Nothing == Report(0, 0, FALSE)

Init ==
  /\ playing = FALSE
  /\ last_updated_time = 0 /\ video_duration = 0
  /\ pc = "idle" /\ todo = {} /\ report = Nothing
  /\ field = Nothing /\ posted = 0 /\ unread = {} /\ shown = Nothing

\* player_get_video_duration, then the decoder is started; it is joined
\* before another source is opened
SourceOpens ==
  /\ pc = "idle" /\ playing' = TRUE
  /\ last_updated_time' = -1 /\ video_duration' \in Durations
  /\ UNCHANGED <<thread, field, posted, ui>>

Larger(a, b) == IF a > b THEN a ELSE b

\* player_update_time reads the time now, which may have gone back since the
\* last call (start_time is corrected), and decides to tell the user
MutTimeDiff(now, is_finished) ==
  /\ playing /\ pc = "idle"
  /\ LET far == last_updated_time - now \notin -Threshold .. Threshold IN
       /\ is_finished \/ far
       /\ last_updated_time' = IF far THEN last_updated_time - now ELSE last_updated_time
  /\ report' = Report(now, Larger(now, video_duration), is_finished)
  /\ pc' = "store" /\ todo' = Fields
  /\ UNCHANGED <<playing, video_duration, field, posted, ui>>
MutUpdateTime(now, is_finished) ==
  /\ playing /\ pc = "idle"
  /\ LET far == last_updated_time - now \notin -Threshold .. Threshold IN
       /\ is_finished \/ far
       /\ last_updated_time' = IF far THEN now ELSE last_updated_time
  /\ report' = Report(now, video_duration, is_finished)
  /\ pc' = "store" /\ todo' = Fields
  /\ UNCHANGED <<playing, video_duration, field, posted, ui>>
UpdateTime(now, is_finished) ==
  /\ playing /\ pc = "idle"
  /\ LET far == last_updated_time - now \notin -Threshold .. Threshold IN
       /\ is_finished \/ far
       /\ last_updated_time' = IF far THEN now ELSE last_updated_time
  /\ report' = Report(now, Larger(now, video_duration), is_finished)
  /\ pc' = "store" /\ todo' = Fields
  /\ UNCHANGED <<playing, video_duration, field, posted, ui>>

\* onUpdateTime stores its arguments ...
Store ==
  /\ pc = "store"
  /\ \E f \in todo : field' = [field EXCEPT ![f] = report[f]] /\ todo' = todo \ {f}
  /\ UNCHANGED <<native, pc, report, posted, ui>>

\* ... and then posts the runnable
MutPost ==
  /\ pc = "store" /\ todo = {}
  /\ pc' = "idle"
  /\ UNCHANGED <<native, todo, report, field, posted, ui>>
Post ==
  /\ pc = "store" /\ todo = {} /\ posted < MaxPosted
  /\ posted' = posted + 1 /\ pc' = "idle"
  /\ UNCHANGED <<native, todo, report, field, ui>>

\* updateTimeRunnable reads the fields one by one for onFFUpdateTime
RunnableStarts ==
  /\ unread = {} /\ posted > 0
  /\ posted' = posted - 1 /\ unread' = Fields
  /\ UNCHANGED <<native, thread, field, shown>>

RunnableReads ==
  /\ \E f \in unread : shown' = [shown EXCEPT ![f] = field[f]] /\ unread' = unread \ {f}
  /\ UNCHANGED <<native, thread, field, posted>>

Next ==
  \/ SourceOpens \/ Store \/ Post \/ RunnableStarts \/ RunnableReads
  \/ \E now \in Times, is_finished \in BOOLEAN : UpdateTime(now, is_finished)

Fairness ==
  WF_vars(Store) /\ WF_vars(Post) /\ WF_vars(RunnableStarts) /\ WF_vars(RunnableReads)

Spec     == Init /\ [][Next]_vars
FairSpec == Spec /\ Fairness

-----------------------------------------------------------------------------
AllTimes == Times \cup Durations \cup {0}
Reports  == [mCurrentTimeUs: AllTimes, mVideoDurationUs: AllTimes, mIsFinished: BOOLEAN]

\* Types of the fields and of the thread states.  (VideoPlayer.java:180-183)
TypeOK ==
  /\ playing \in BOOLEAN
  /\ last_updated_time \in Times \cup {0, -1} /\ video_duration \in Durations \cup {0}
  /\ pc \in {"idle", "store"} /\ todo \subseteq Fields /\ unread \subseteq Fields
  /\ report \in Reports /\ field \in Reports /\ shown \in Reports
  /\ posted \in 0 .. MaxPosted

\* When no report is under way anywhere, the screen shows the last one
\* entirely, whatever mixture it showed before, and its duration is not
\* smaller than its time.  (player.c:899-906; VideoPlayer.java:166-178, 272-278)
Settled == pc = "idle" /\ posted = 0 /\ unread = {}
SettledShown ==
  Settled => shown = report /\ shown.mCurrentTimeUs <= shown.mVideoDurationUs

\* The end of the stream is shown, unless something is reported after it.
\* (decode.c:153; player.c:886-888)
EndShown == (report.mIsFinished /\ pc = "store") ~> (shown.mIsFinished \/ ~report.mIsFinished)

\* What listeners are told is never a time beyond the duration.
\* (the comment at player.c:900-901)
DurationNotSmaller ==
  unread = {} => shown.mCurrentTimeUs <= shown.mVideoDurationUs
=============================================================================

---------------------------- MODULE VideoPlayer ----------------------------
(* The player that decodes with ccMediaDecoder.c: AkVideoPlayer2 with its
   MediaControler and its CCVideoView.  Everything but the drawing runs on the main
   thread, as runnables that handlers post to its queue, some with a delay;
   YuvRender draws on GLSurfaceView's thread, from the buffer into which the decoder
   writes.

   Time is left out: a delayed runnable may fall due at any moment, and then takes
   its place at the end of the queue.  Of a frame there is its number, and the planes
   U and V, which are handled alike, are one.  mUpdateTimeRunable, which is posted
   together with mUpdataSkbRunnable and repeats itself like it, is left out.  The host is videotest's MainActivity,
   which gives AkVideoPlayer its address before onResume. *)
EXTENDS Integers, Sequences, SequencesExt

CONSTANTS
  Frames,      \* of the video
  MaxInputs    \* bound: what the user and the host do

ASSUME VideoAssumption == Frames \in Nat \ {0} /\ MaxInputs \in Nat

VARIABLES
  queue,            \* runnables that are due, in their order
  later,            \* those posted with a delay, how many of each
  mPlayState,
  panel, small,     \* the visible parts of MediaControler
  button,           \* the state that the small panel's button shows
  dragging,         \* the seek bar is held
  resumed,
  loaded, next,     \* the decoder has a file open; the frames it has read
  out_buffer,       \* the frame in each plane
  writing,          \* planes that sws_scale has still to write: the main thread is in it
  renderRequested, drawing, YUVtexture,
  alive,            \* no NULL was used in the decoder
  inputs

ui == <<mPlayState, panel, small, button>>
decoder == <<loaded, next, out_buffer, writing>>
render == <<renderRequested, drawing, YUVtexture>>
vars == <<queue, later, ui, dragging, resumed, decoder, render, alive, inputs>>

Runnables == {"test", "skb", "hide", "hideSmall", "show", "showSmall"}
Planes == {"Y", "UV"}
All(frame) == [p \in Planes |-> frame]

Pending(r) == later[r] > 0 \/ \E i \in DOMAIN queue : queue[i] = r

(* Mutant: what is already due stays. *)
Without_Delayed(q, removed) == q

(* Handler.removeCallbacks takes every instance, due or not. *)
Without(q, removed) ==
  LET kept[i \in 0 .. Len(q)] ==
        IF i = 0 THEN <<>>
        ELSE IF q[i] \in removed THEN kept[i - 1] ELSE Append(kept[i - 1], q[i])
  IN  kept[Len(q)]
Deferred(removed) == [r \in Runnables |-> IF r \in removed THEN 0 ELSE later[r]]

(* The handler's queue after `posted' is posted behind `q'. *)
Posted(q, posted) == queue' = q \o posted

updateAll == <<"skb">>

Ready == alive /\ writing = {}

Running(r) == Ready /\ queue # <<>> /\ Head(queue) = r

----------------------------------------------------------------------------
(* MessageQueue. *)

FallDue(r) ==
  /\ alive /\ later[r] > 0
  /\ later' = [later EXCEPT ![r] = @ - 1]
  /\ Posted(queue, <<r>>)
  /\ UNCHANGED <<ui, dragging, resumed, decoder, render, alive, inputs>>

(* av_read_frame has no more. *)
EndOfFile(read) == read = Frames

(* CCVideoView.test: the next frame is asked for before this one is decoded. *)
Frame ==
  /\ Running("test")
  /\ \/ /\ loaded /\ ~EndOfFile(next)
        /\ next' = next + 1 /\ writing' = Planes
        /\ Posted(Tail(queue), <<>>) /\ later' = [later EXCEPT !["test"] = @ + 1]
        /\ UNCHANGED <<loaded, out_buffer, alive>>
     \/ (* the end of the file, or a packet that is not decoded *)
        /\ loaded
        /\ next' = IF EndOfFile(next) THEN next ELSE next + 1
        /\ Posted(Without(Tail(queue), {"test"}), <<>>) /\ later' = Deferred({"test"})
        /\ UNCHANGED <<loaded, out_buffer, writing, alive>>
     \/ /\ ~loaded /\ alive' = FALSE
        /\ UNCHANGED <<queue, later, decoder>>
  /\ UNCHANGED <<ui, dragging, resumed, render, inputs>>

(* Mutant: requestRender comes before the decoding ends. *)
RequestRender_Early(left) == left # {}

RequestRender(left) == left = {}

(* sws_scale, and requestRender after the last plane. *)
Write(plane) ==
  /\ alive /\ plane \in writing
  /\ writing' = writing \ {plane}
  /\ out_buffer' = [out_buffer EXCEPT ![plane] = next]
  /\ renderRequested' = (renderRequested \/ RequestRender(writing'))
  /\ UNCHANGED <<queue, later, ui, dragging, resumed, loaded, next, drawing, YUVtexture, alive, inputs>>

(* mUpdataSkbRunnable. *)
UpdataSkb ==
  /\ Running("skb")
  /\ Posted(Tail(queue), <<>>)
  /\ later' = IF panel /\ mPlayState = "PLAY" THEN [later EXCEPT !["skb"] = @ + 1] ELSE later
  /\ UNCHANGED <<ui, dragging, resumed, decoder, render, alive, inputs>>

HidePannel ==
  /\ Running("hide")
  /\ panel' = FALSE
  /\ Posted(Without(Tail(queue), {"skb"}), <<>>) /\ later' = Deferred({"skb"})
  /\ UNCHANGED <<mPlayState, small, button, dragging, resumed, decoder, render, alive, inputs>>

ShowPannel ==
  /\ Running("show")
  /\ panel' = TRUE
  /\ Posted(Tail(queue), updateAll)
  /\ UNCHANGED <<later, mPlayState, small, button, dragging, resumed, decoder, render, alive, inputs>>

(* MediaControler.setSmallPannelVisiable. *)
SmallPannel(r) ==
  /\ r \in {"hideSmall", "showSmall"} /\ Running(r)
  /\ small' = (r = "showSmall") /\ button' = mPlayState
  /\ Posted(Tail(queue), <<>>)
  /\ UNCHANGED <<later, mPlayState, panel, dragging, resumed, decoder, render, alive, inputs>>

----------------------------------------------------------------------------
(* GLSurfaceView's thread: one glTexImage2D a step. *)

onDrawFrame ==
  /\ alive /\ renderRequested /\ drawing = "none"
  /\ renderRequested' = FALSE
  /\ drawing' = IF loaded THEN "Y" ELSE "none"
  /\ UNCHANGED <<queue, later, ui, dragging, resumed, decoder, YUVtexture, alive, inputs>>

After(plane) == IF plane = "Y" THEN "UV" ELSE "none"

CopyPlane ==
  /\ alive /\ drawing \in Planes
  /\ YUVtexture' = [YUVtexture EXCEPT ![drawing] = out_buffer[drawing]]
  /\ drawing' = After(drawing)
  /\ UNCHANGED <<queue, later, ui, dragging, resumed, decoder, renderRequested, alive, inputs>>

----------------------------------------------------------------------------
(* The user.  Each of these is a call of the main thread between two runnables. *)

Input == Ready /\ inputs < MaxInputs /\ inputs' = inputs + 1

(* CCVideoView.start and pause, with the state that goes with them and what they post. *)
Start(posted) == mPlayState' = "PLAY" /\ Posted(queue, <<"test">> \o posted)

HideIfVisible == IF panel THEN <<"hide">> ELSE <<>>

onplay ==
  /\ Input /\ resumed /\ small /\ button = "PAUSE"
  /\ Start(HideIfVisible \o <<"hideSmall">>)
  /\ UNCHANGED <<later, panel, small, button, dragging, resumed, decoder, render, alive>>

(* MediaControlImpl.onPause: removeUpdate comes after the panel was asked for. *)
onPauseButton ==
  /\ Input /\ resumed /\ small /\ button = "PLAY"
  /\ mPlayState' = "PAUSE"
  /\ Posted(Without(queue, {"test", "skb"}), <<"show", "showSmall">>)
  /\ later' = Deferred({"test", "skb"})
  /\ UNCHANGED <<panel, small, button, dragging, resumed, decoder, render, alive>>

singleTap ==
  /\ Input /\ resumed
  /\ Posted(queue, IF ~panel THEN <<"show", "showSmall">>
                   ELSE <<"hide", IF mPlayState = "PLAY" THEN "hideSmall" ELSE "showSmall">>)
  /\ UNCHANGED <<later, ui, dragging, resumed, decoder, render, alive>>

doubleTap ==
  /\ Input /\ resumed
  /\ IF mPlayState = "PLAY"
     THEN /\ mPlayState' = "PAUSE"
          /\ Posted(Without(queue, {"test"}), <<"showSmall">>) /\ later' = Deferred({"test"})
     ELSE Start(<<"hideSmall">> \o HideIfVisible) /\ UNCHANGED later
  /\ UNCHANGED <<panel, small, button, dragging, resumed, decoder, render, alive>>

(* onProgressTurn. *)
startTracking ==
  /\ Input /\ resumed /\ panel /\ ~dragging
  /\ dragging' = TRUE /\ mPlayState' = "PAUSE"
  /\ Posted(Without(queue, {"test", "hideSmall", "hide"}), <<"hideSmall">>)
  /\ later' = Deferred({"test", "hideSmall", "hide"})
  /\ UNCHANGED <<panel, small, button, resumed, decoder, render, alive>>

(* native_seekTo: to a key frame at or before the position.  Nothing asks whether a file
   is open: without one the context is NULL, or what a failed loadfile has left. *)
seekTo ==
  /\ Input /\ dragging
  /\ \/ loaded /\ next' \in 0 .. Frames - 1 /\ UNCHANGED alive
     \/ ~loaded /\ alive' \in BOOLEAN /\ UNCHANGED next
  /\ UNCHANGED <<queue, later, ui, dragging, resumed, loaded, out_buffer, writing, render>>

(* Mutant: the seek bar is not started again. *)
AfterDrag_NoUpdates == <<"showSmall">>

AfterDrag == <<"showSmall">> \o updateAll

stopTracking ==
  /\ Input /\ dragging
  /\ dragging' = FALSE
  /\ Start(AfterDrag)
  /\ later' = [later EXCEPT !["hide"] = @ + 1, !["hideSmall"] = @ + 1]
  /\ UNCHANGED <<panel, small, button, resumed, decoder, render, alive>>

----------------------------------------------------------------------------
(* The fragment and its host. *)

(* playUrl: loadfile decodes a frame; when it fails, the use of the missing context
   ends the process at once, or the first frame does. *)
playUrl ==
  /\ Input /\ ~resumed /\ ~loaded
  /\ \/ /\ loaded' = TRUE /\ next' = 1 /\ out_buffer' = All(1)
        /\ UNCHANGED alive
     \/ alive' \in BOOLEAN /\ UNCHANGED <<loaded, next, out_buffer>>
  /\ Posted(queue, <<"test", "hide">>)
  /\ UNCHANGED <<later, ui, dragging, resumed, writing, render>>

(* Mutant: the state is not shown. *)
Resumed_Unshown == updateAll

Resumed == updateAll \o <<"showSmall">>

onResume ==
  /\ Input /\ ~resumed
  /\ resumed' = TRUE /\ mPlayState' = "PLAY"
  /\ Posted(queue, Resumed)
  /\ UNCHANGED <<later, panel, small, button, dragging, decoder, render, alive>>

(* The touch that holds the seek bar is cancelled, which ends its tracking. *)
onPause ==
  /\ Input /\ resumed /\ ~dragging
  /\ resumed' = FALSE
  /\ Posted(Without(queue, {"skb"}), <<>>) /\ later' = Deferred({"skb"})
  /\ UNCHANGED <<ui, dragging, decoder, render, alive>>

----------------------------------------------------------------------------
(* The layout has both panels visible and shows the play button; the new surface is
   drawn once. *)
Init ==
  /\ queue = <<>> /\ later = [r \in Runnables |-> 0]
  /\ mPlayState = "PLAY" /\ panel = TRUE /\ small = TRUE /\ button = "PAUSE"
  /\ dragging = FALSE /\ resumed = FALSE
  /\ loaded = FALSE /\ next = 0 /\ out_buffer = All(0) /\ writing = {}
  /\ renderRequested = TRUE /\ drawing = "none" /\ YUVtexture = All(0)
  /\ alive = TRUE /\ inputs = 0

Looper ==
  \/ Frame \/ UpdataSkb \/ HidePannel \/ ShowPannel
  \/ \E r \in Runnables : SmallPannel(r)
  \/ \E plane \in Planes : Write(plane)

GLThread == onDrawFrame \/ CopyPlane

User == onplay \/ onPauseButton \/ singleTap \/ doubleTap \/ startTracking \/ seekTo \/ stopTracking

Next ==
  \/ Looper \/ GLThread \/ User
  \/ \E r \in Runnables : FallDue(r)
  \/ playUrl \/ onResume \/ onPause

Spec == Init /\ [][Next]_vars

(* Both threads are scheduled. *)
FairSpec == Spec /\ WF_vars(Looper) /\ WF_vars(GLThread)

----------------------------------------------------------------------------
(* Properties. *)

Due(r) == \E i \in DOMAIN queue : queue[i] = r

(* A video that the user has paused stands still: nothing that was posted before asks
   for another frame, also when starts that overlapped have left several chains of
   `test' running.  PLAY is set again by onResume alone, so that this is about the
   time in which the player is in the foreground. *)
PausedIsStill == alive /\ resumed /\ mPlayState = "PAUSE" => ~Pending("test") /\ writing = {}

(* While the panel is visible and the video plays, the seek bar is going to be updated,
   or the panel is about to be shown again or hidden: the several
   places that remove updates, one after another with those that post them, never
   leave a panel that stands still. *)
SeekBarFollows ==
  alive /\ resumed /\ panel /\ mPlayState = "PLAY" =>
    Pending("skb") \/ Due("show") \/ Due("hide")

(* The button shows the state, unless a runnable is due that is going to correct it. *)
ButtonTellsState ==
  alive /\ resumed => (button = mPlayState) \/ Due("showSmall") \/ Due("hideSmall")

(* When no frame is asked for any more, the last one that was decoded gets drawn, all
   planes of it, though drawing and decoding may have overlapped before.  The
   frame that loadfile decodes is not drawn by itself. *)
LastFrameIsShown ==
  alive /\ ~Pending("test") /\ writing = {} /\ out_buffer # All(1)
    ~> ~alive \/ Pending("test") \/ YUVtexture = out_buffer
============================================================================

-------------------------- MODULE WindowApplication --------------------------
(***************************************************************************)
(* zn::WindowApplication: the initialisation, the main loop and the end of *)
(* a program with a window, the Squirrel machine it owns, and the size of  *)
(* the window as the screen view and the cameras of the scene take it.     *)
(*                                                                         *)
(* The window is SFML's.  Its size changes at once when it is resized, and *)
(* the events wait in its queue; creating it again drops what is queued.   *)
(* A size is a model value, and so is what a camera makes of it: fit names *)
(* the resolution that the view of the camera was last computed from.      *)
(***************************************************************************)
EXTENDS Naturals, Sequences, SequencesExt

CONSTANTS
  Camera,     \* the cameras
  Size,       \* the sizes that the window may have
  VideoMode,  \* the size in the settings
  Desktop,    \* the size of a full screen
  ByHand,     \* in place of a size: the game has chosen the view of a camera
  MaxPosts    \* bound: the events that are posted during a frame

ASSUME SizeAssumption ==
  /\ {VideoMode, Desktop} \subseteq Size /\ ByHand \notin Size
  /\ Size \intersect {"closed", "key"} = {}
  /\ MaxPosts \in Nat

VARIABLES
  phase,       \* what runs: a part of init, of the loop, or of the end
  runFlag,     \* m_runFlag
  vm,          \* m_squirrelVM: "garbage", "open" or "null"
  vmFault,     \* sq_close was called on something else than an open machine
  open,        \* m_window.isOpen()
  size,        \* m_window.getSize()
  fullScreen,  \* m_fullScreen
  queue,       \* the events of the window; that it was resized is the new size
  posted,      \* the events posted in this frame
  screenView,  \* the size of m_screenView
  mode,        \* m_scaleMode of each camera: "stretched", or "scaled" for FIXED and
               \* ADAPTED, which both follow the window; "none" if it does not exist
  fit,         \* the resolution that the view of each camera was computed from
  asked,       \* history: stop() was called in the loop
  dropped,     \* history: the window was created again with "closed" in its queue
  loaded       \* history: the assets were loaded

windowVars == <<open, size, fullScreen, queue, screenView, dropped>>
cameraVars == <<mode, fit>>
scriptVars == <<vm, vmFault>>
appVars == <<phase, runFlag, scriptVars, windowVars, posted, cameraVars, asked, loaded>>

Modes == {"stretched", "scaled"}
LoopPhases == {"loop", "poll", "event", "gui", "update"}
Phases == LoopPhases \union
  {"start", "assets", "scripts", "onInit", "failed", "onClose", "ended", "destroyed"}

AppTypeOK ==
  /\ phase \in Phases
  /\ runFlag \in BOOLEAN
  /\ vm \in {"garbage", "open", "null"} /\ vmFault \in BOOLEAN /\ loaded \in BOOLEAN
  /\ open \in BOOLEAN /\ size \in Size /\ fullScreen \in BOOLEAN
  /\ queue \in Seq(Size \union {"closed", "key"})
  /\ posted \in 0..MaxPosts
  /\ screenView \in Size
  /\ mode \in [Camera -> Modes \union {"none"}]
  /\ fit \in [Camera -> Size \union {ByHand}]
  /\ asked \in BOOLEAN /\ dropped \in BOOLEAN

\* The constructor does not initialise m_squirrelVM.
AppInit ==
  /\ phase = "start"
  /\ runFlag = FALSE
  /\ vm = "garbage" /\ vmFault = FALSE /\ loaded = FALSE
  /\ open = FALSE /\ size = VideoMode /\ fullScreen = FALSE
  /\ queue = <<>> /\ posted = 0
  /\ screenView = VideoMode
  /\ mode = [c \in Camera |-> "none"] /\ fit = [c \in Camera |-> ByHand]
  /\ asked = FALSE /\ dropped = FALSE

-----------------------------------------------------------------------------
(***************************************************************************)
(* The size of the window.                                                 *)
(***************************************************************************)

\* Camera::onScreenResized: a stretched view stays as it is.
Refitted(c, resolution) == IF mode[c] = "scaled" THEN resolution ELSE fit[c]

\* onScreenResize: the screen view takes the size that the window has by now,
\* and the cameras the one of the event.
OnScreenResize(resolution, actual) ==
  /\ screenView' = actual
  /\ fit' = [c \in Camera |-> Refitted(c, resolution)]

\* Slip: what depends on the size is left to an event.
CreateAndWait(full) ==
  /\ fullScreen' = full
  /\ open' = TRUE
  /\ size' = IF full THEN Desktop ELSE VideoMode
  /\ queue' = <<>>
  /\ dropped' = (dropped \/ Contains(queue, "closed"))
  /\ UNCHANGED <<screenView, mode, fit>>

\* The window is created with the size of the mode.
CreateWindow(full) ==
  /\ fullScreen' = full
  /\ open' = TRUE
  /\ size' = IF full THEN Desktop ELSE VideoMode
  /\ queue' = <<>>
  /\ dropped' = (dropped \/ Contains(queue, "closed"))
  /\ OnScreenResize(size', size')
  /\ UNCHANGED mode

-----------------------------------------------------------------------------
(***************************************************************************)
(* init, the destructor, and the end of start.                             *)
(***************************************************************************)

\* m_fullScreen is set to the contrary of the settings first, so that the window
\* is always created.
InitWindow(full) ==
  /\ phase = "start"
  /\ phase' = "assets"
  /\ CreateWindow(full)
  /\ UNCHANGED <<runFlag, scriptVars, posted, asked, loaded>>

LoadAssets(ok) ==
  /\ phase = "assets"
  /\ phase' = IF ok THEN "scripts" ELSE "failed"
  /\ loaded' = ok
  /\ UNCHANGED <<runFlag, scriptVars, windowVars, posted, cameraVars, asked>>

\* sq_open and the registration of the framework, which may throw.
OpenScripts(ok) ==
  /\ phase = "scripts"
  /\ phase' = IF ok THEN "onInit" ELSE "failed"
  /\ vm' = IF ok THEN "open" ELSE "null"
  /\ UNCHANGED <<runFlag, vmFault, windowVars, posted, cameraVars, asked, loaded>>

\* A stop() of onInit is forgotten here.
OnInitReturns(ok) ==
  /\ phase = "onInit"
  /\ phase' = IF ok THEN "loop" ELSE "failed"
  /\ runFlag' = (runFlag \/ ok)
  /\ UNCHANGED <<scriptVars, windowVars, posted, cameraVars, asked, loaded>>

\* Slip: the pointer to the machine is kept.
EndLoopKeepingPointer ==
  /\ phase = "loop" /\ ~(runFlag /\ open)
  /\ phase' = "onClose"
  /\ open' = FALSE
  /\ vmFault' = (vmFault \/ vm # "open") /\ vm' = "garbage"
  /\ UNCHANGED <<runFlag, size, fullScreen, queue, screenView, dropped, posted,
                 cameraVars, asked, loaded>>

EndLoop ==
  /\ phase = "loop" /\ ~(runFlag /\ open)
  /\ phase' = "onClose"
  /\ open' = FALSE
  /\ vmFault' = (vmFault \/ vm # "open") /\ vm' = "null"
  /\ UNCHANGED <<runFlag, size, fullScreen, queue, screenView, dropped, posted,
                 cameraVars, asked, loaded>>

OnCloseReturns ==
  /\ phase = "onClose"
  /\ phase' = "ended"
  /\ UNCHANGED <<runFlag, scriptVars, windowVars, posted, cameraVars, asked, loaded>>

\* ~WindowApplication; a pointer that was never set may be null or not.
Destroy ==
  /\ phase \in {"failed", "ended"}
  /\ phase' = "destroyed"
  /\ vm' = "null"
  /\ vmFault' \in IF vm = "garbage" THEN {vmFault, TRUE} ELSE {vmFault}
  /\ UNCHANGED <<runFlag, windowVars, posted, cameraVars, asked, loaded>>

-----------------------------------------------------------------------------
(***************************************************************************)
(* The loop.  What the window and the game do is beside it, below.         *)
(***************************************************************************)

BeginFrame ==
  /\ phase = "loop" /\ runFlag /\ open
  /\ phase' = "poll"
  /\ posted' = 0
  /\ UNCHANGED <<runFlag, scriptVars, windowVars, cameraVars, asked, loaded>>

\* Slip: the window is closed, and the loop goes on with what it has.
PollClosing ==
  /\ phase = "poll" /\ open /\ queue # <<>> /\ Head(queue) = "closed"
  /\ queue' = Tail(queue)
  /\ asked' = TRUE
  /\ UNCHANGED <<phase, runFlag, scriptVars, open, size, fullScreen, screenView, dropped,
                 posted, cameraVars, loaded>>

\* The window is to be closed: the game is not told, and the events after this
\* one are still handled.
PollClosed ==
  /\ phase = "poll" /\ open /\ queue # <<>> /\ Head(queue) = "closed"
  /\ queue' = Tail(queue)
  /\ runFlag' = FALSE
  /\ asked' = TRUE
  /\ UNCHANGED <<phase, scriptVars, open, size, fullScreen, screenView, dropped,
                 posted, cameraVars, loaded>>

PollEvent ==
  /\ phase = "poll" /\ open /\ queue # <<>> /\ Head(queue) # "closed"
  /\ phase' = "event"
  /\ queue' = Tail(queue)
  /\ IF Head(queue) \in Size
       THEN OnScreenResize(Head(queue), size)
       ELSE UNCHANGED <<screenView, fit>>
  /\ UNCHANGED <<runFlag, scriptVars, open, size, fullScreen, dropped, posted, mode,
                 asked, loaded>>

EndEvents ==
  /\ phase = "poll" /\ (queue = <<>> \/ ~open)
  /\ phase' = "update"
  /\ UNCHANGED <<runFlag, scriptVars, windowVars, posted, cameraVars, asked, loaded>>

OnEventReturns ==
  /\ phase = "event"
  /\ phase' = "poll"
  /\ UNCHANGED <<runFlag, scriptVars, windowVars, posted, cameraVars, asked, loaded>>

\* The updates of the steps of this frame return, and the scene is drawn.
EndFrame ==
  /\ phase = "update"
  /\ phase' = "loop"
  /\ UNCHANGED <<runFlag, scriptVars, windowVars, posted, cameraVars, asked, loaded>>

-----------------------------------------------------------------------------
(***************************************************************************)
(* What the user and the window system do, at any time.                    *)
(***************************************************************************)

Post(event) ==
  /\ open /\ posted < MaxPosts
  /\ queue' = Append(queue, event)
  /\ posted' = posted + 1
  /\ size' = IF event \in Size THEN event ELSE size
  /\ event \in Size => ~fullScreen /\ event # size
  /\ UNCHANGED <<phase, runFlag, scriptVars, open, fullScreen, screenView, dropped,
                 cameraVars, asked, loaded>>

-----------------------------------------------------------------------------
(***************************************************************************)
(* What the game does in onInit, in onEvent and in the updates.            *)
(***************************************************************************)

GameTurn == phase \in {"onInit", "event", "update"}

Stop ==
  /\ runFlag' = FALSE
  /\ asked' = (asked \/ phase # "onInit")
  /\ UNCHANGED <<phase, scriptVars, windowVars, posted, cameraVars, loaded>>

SetFullScreen(full) ==
  /\ full # fullScreen
  /\ CreateWindow(full)
  /\ UNCHANGED <<phase, runFlag, scriptVars, posted, asked, loaded>>

\* m_window is protected: the game may close it.
CloseWindow ==
  /\ open
  /\ open' = FALSE
  /\ UNCHANGED <<phase, runFlag, scriptVars, size, fullScreen, queue, screenView,
                 dropped, posted, cameraVars, asked, loaded>>

CameraUnchanged ==
  UNCHANGED <<phase, runFlag, scriptVars, windowVars, posted, asked, loaded>>

\* addComponent<Camera>, which is FIXED, and onCreate; and Entity::unserialize of
\* a camera in the mode m, which calls onCreate after the data are there.
CreateCamera(c, m) ==
  /\ GameTurn /\ mode[c] = "none"
  /\ mode' = [mode EXCEPT ![c] = m]
  /\ fit' = [fit EXCEPT ![c] = IF m = "stretched" THEN ByHand ELSE size]
  /\ CameraUnchanged

DestroyCamera(c) ==
  /\ GameTurn /\ mode[c] # "none"
  /\ mode' = [mode EXCEPT ![c] = "none"]
  /\ fit' = [fit EXCEPT ![c] = ByHand]
  /\ CameraUnchanged

SetFixedZoom(c) ==
  /\ GameTurn /\ mode[c] # "none"
  /\ fit' = [fit EXCEPT ![c] = Refitted(c, size)]
  /\ UNCHANGED mode
  /\ CameraUnchanged

\* setSize, setInternalView, and setScaleMode, which leaves the view as it is.
SetByHand(c, m) ==
  /\ GameTurn /\ mode[c] # "none"
  /\ mode' = [mode EXCEPT ![c] = m]
  /\ fit' = [fit EXCEPT ![c] = ByHand]
  /\ CameraUnchanged
=============================================================================

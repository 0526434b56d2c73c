------------------------------ MODULE MainLoop ------------------------------
(***************************************************************************)
(* The main loop with the input listeners: what the window tells, the game *)
(* forwards to the GUIManager, whose listeners change who listens, ask to  *)
(* stop, or have the window created again while the event is dispatched.   *)
(***************************************************************************)
EXTENDS InputListeners, WindowApplication

loopVars == <<vars, appVars>>

LoopInit == Init /\ AppInit

\* Nothing reads the listeners but a dispatch: that they change in onInit and in
\* onEvent is enough.
ListenersChange ==
  /\ phase \in {"onInit", "event", "gui"}
  /\ \/ \E c \in Component : CreateComponent(c) \/ LoadComponent(c) \/ DeleteComponent(c)
     \/ \E c \in Component, enable \in BOOLEAN : ReceiveInput(c, enable)
  /\ UNCHANGED appVars

\* The onEvent of the game gives the event to GUIManager::onEvent, at its end.
Forward ==
  /\ phase = "event"
  /\ phase' = "gui"
  /\ StartEvent
  /\ UNCHANGED <<runFlag, scriptVars, windowVars, posted, cameraVars, asked, loaded>>

Dispatch ==
  /\ phase = "gui"
  /\ Skip \/ Notify \/ Continue \/ Crash
  /\ UNCHANGED appVars

EndDispatch ==
  /\ phase = "gui"
  /\ Consume \/ EndOfList
  /\ phase' = "poll"
  /\ UNCHANGED <<runFlag, scriptVars, windowVars, posted, cameraVars, asked, loaded>>

\* The steps of the program itself, and the returns of what it calls.
Program ==
  \/ /\ ~fault
     /\ \/ \E full \in BOOLEAN : InitWindow(full)
        \/ \E ok \in BOOLEAN : LoadAssets(ok) \/ OpenScripts(ok) \/ OnInitReturns(ok)
        \/ BeginFrame \/ PollClosed \/ PollEvent \/ EndEvents \/ OnEventReturns
        \/ EndFrame \/ EndLoop \/ OnCloseReturns \/ Destroy
     /\ UNCHANGED vars
  \/ Forward \/ Dispatch \/ EndDispatch

\* The other things that the game does, in its callbacks.
Game ==
  /\ ~fault
  /\ \/ /\ GameTurn \/ (phase = "gui" /\ handling)
        /\ Stop \/ CloseWindow \/ \E full \in BOOLEAN : SetFullScreen(full)
     \/ \E c \in Camera :
          DestroyCamera(c) \/ SetFixedZoom(c) \/ \E m \in Modes : CreateCamera(c, m) \/ SetByHand(c, m)
  /\ UNCHANGED vars

WindowSystem ==
  /\ ~fault
  /\ \E event \in Size \union {"closed", "key"} : Post(event)
  /\ UNCHANGED vars

LoopNext == Program \/ ListenersChange \/ Game \/ WindowSystem

\* The program goes on, and what it calls returns.
LoopSpec == LoopInit /\ [][LoopNext]_loopVars /\ WF_loopVars(Program)

-----------------------------------------------------------------------------
(***************************************************************************)
(* Properties.                                                             *)
(***************************************************************************)

\* Types of the state.  An event is dispatched in the onEvent of the game only.
LoopTypeOK == TypeOK /\ AppTypeOK /\ (at # 0 => phase = "gui")

\* Once the events that say so are handled, the screen view has the size of the
\* window, and so has every camera that follows it ("Which method should be used
\* when the screen's resolution changes", Camera.hpp:17), unless the game has
\* chosen its view since.
ViewsFitTheWindow ==
  phase \in LoopPhases /\ ToSet(queue) \intersect Size = {} =>
    /\ screenView = size
    /\ \A c \in Camera : mode[c] = "scaled" => fit[c] \in {size, ByHand}

\* The Squirrel machine is closed once, in whatever way the application ends ("The
\* VM should have been closed before", WindowApplication.cpp:27), unless the assets
\* cannot be loaded: the destructor then reads a pointer that was never set.
ScriptsCloseOnce ==
  loaded => ~vmFault /\ (phase = "destroyed" => vm = "null")

\* "Asks to shutdown the application cleanly" (Application.hpp:66): after a stop()
\* the application ends, and after the user closes the window, unless the stop()
\* comes from onInit, the window is created again before the loop sees the event,
\* or a listener leaves the GUIManager with an invalid iterator.
StopEndsTheLoop ==
  asked \/ (phase \in LoopPhases /\ Contains(queue, "closed")) ~>
    phase = "destroyed" \/ dropped \/ fault
=============================================================================

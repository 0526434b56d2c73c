--------------------------- MODULE InputListeners ---------------------------
(***************************************************************************)
(* Which components receive input: the CF_INPUT_LISTENER flag that         *)
(* Component::receiveInput keeps, the vector of listeners of the           *)
(* GUIManager, and the dispatch of one event, which iterates over that     *)
(* very vector while the callbacks of the game may change it.              *)
(*                                                                         *)
(* The iterator of onEvent is an index.  Erasing shifts the elements under *)
(* it; inserting may move the vector to new storage, which leaves the      *)
(* iterator in the freed one.  Going on with an iterator that is past the  *)
(* end or in freed storage sets fault, after which the model says nothing  *)
(* more of the program.                                                    *)
(***************************************************************************)
EXTENDS Naturals, Sequences, SequencesExt

CONSTANT
  Component   \* addresses a component may be allocated at

VARIABLES
  live,       \* the components that exist
  receiving,  \* the live components with CF_INPUT_LISTENER
  listeners,  \* GUIManager::m_inputListeners
  at,         \* the iterator of onEvent; 0 when no event is dispatched
  handling,   \* onEvent of the component at the iterator is on the stack
  stale,      \* the iterator points to freed storage
  fault,      \* an invalid iterator has been used
  taken,      \* history: the liberties the game has taken so far
  wanted,     \* history: the components the game last asked to receive input
  due         \* history: the listeners the event has still to be shown to

(***************************************************************************)
(* Liberties: what the public API lets a game do, and some properties do   *)
(* not survive.                                                            *)
(*   twice       receiveInput(true) on a component that receives input     *)
(*   load        unserialize a component that was saved receiving input    *)
(*   inCallback  change who receives input in an onEvent callback          *)
(***************************************************************************)
Liberties == {"twice", "load", "inCallback"}

listVars == <<live, receiving, listeners, wanted, taken>>
vars == <<listVars, at, handling, stale, fault, due>>

\* Types of the state.  The vector holds no component twice and none that does not
\* exist or has not the flag: removeListener erases one occurrence, and ~Component
\* only calls it when the flag is set, so a second entry would dangle.
TypeOK ==
  /\ live \subseteq Component
  /\ receiving \subseteq live
  /\ listeners \in Seq(receiving) /\ IsInjective(listeners)
  /\ at \in Nat
  /\ handling \in BOOLEAN /\ stale \in BOOLEAN
  /\ fault \in BOOLEAN
  /\ taken \subseteq Liberties
  /\ wanted \subseteq live
  /\ due \subseteq Component

Init ==
  /\ live = {} /\ receiving = {} /\ listeners = <<>> /\ wanted = {} /\ taken = {}
  /\ at = 0 /\ handling = FALSE /\ stale = FALSE
  /\ fault = FALSE
  /\ due = {}

\* The game runs between two events, or in the callback of a listener.
ClientTurn == ~fault /\ (at = 0 \/ handling)

\* The liberties of a step that changes who receives input, with those it takes
\* besides calling from a callback.
Taking(liberties) ==
  taken' = taken \cup liberties \cup IF handling THEN {"inCallback"} ELSE {}

-----------------------------------------------------------------------------
\* GUIManager::addListener; the vector moves when its capacity is used up.
AddListener(c) ==
  /\ listeners' = Append(listeners, c)
  /\ \E moved \in BOOLEAN : stale' = (stale \/ (moved /\ at # 0))

\* GUIManager::removeListener
RemoveListener(c) ==
  /\ listeners' = RemoveFirst(listeners, c)
  /\ UNCHANGED stale

CreateComponent(c) ==
  /\ ClientTurn
  /\ c \notin live
  /\ live' = live \cup {c}
  /\ UNCHANGED <<receiving, listeners, wanted, taken, at, handling, stale, fault, due>>

\* The saved flags include CF_INPUT_LISTENER; nothing registers the component.
LoadComponent(c) ==
  /\ ClientTurn
  /\ c \notin live
  /\ live' = live \cup {c}
  /\ receiving' = receiving \cup {c}
  /\ wanted' = wanted \cup {c}
  /\ Taking({"load"})
  /\ UNCHANGED <<listeners, at, handling, stale, fault, due>>

\* Slip: the destructor leaves the listener registered.
DeleteSilently(c) ==
  /\ ClientTurn
  /\ c \in live
  /\ live' = live \ {c}
  /\ wanted' = wanted \ {c}
  /\ due' = due \ {c}
  /\ Taking({})
  /\ UNCHANGED <<receiving, listeners, at, handling, stale, fault>>

\* ~Component
DeleteComponent(c) ==
  /\ ClientTurn
  /\ c \in live
  /\ live' = live \ {c}
  /\ receiving' = receiving \ {c}
  /\ wanted' = wanted \ {c}
  /\ due' = due \ {c}
  /\ IF c \in receiving THEN RemoveListener(c) ELSE UNCHANGED <<listeners, stale>>
  /\ Taking({})
  /\ UNCHANGED <<at, handling, fault>>

\* receiveInput(true): the else branch tests receivesInput() and not the
\* argument, so that asking twice takes the component out.
EnableInput(c) ==
  /\ IF c \in receiving
       THEN /\ receiving' = receiving \ {c}
            /\ RemoveListener(c)
            /\ due' = due \ {c}
       ELSE /\ receiving' = receiving \cup {c}
            /\ AddListener(c)
            /\ UNCHANGED due

\* receiveInput(false)
DisableInput(c) ==
  /\ c \in receiving
  /\ receiving' = receiving \ {c}
  /\ RemoveListener(c)
  /\ due' = due \ {c}

ReceiveInput(c, enable) ==
  /\ ClientTurn
  /\ c \in live
  /\ IF enable THEN EnableInput(c) ELSE DisableInput(c)
  /\ wanted' = IF enable THEN wanted \cup {c} ELSE wanted \ {c}
  /\ Taking(IF enable /\ c \in wanted THEN {"twice"} ELSE {})
  /\ UNCHANGED <<live, at, handling, fault>>

-----------------------------------------------------------------------------
(***************************************************************************)
(* GUIManager::onEvent.                                                    *)
(***************************************************************************)
StartEvent ==
  /\ ~fault
  /\ at = 0
  /\ at' = 1
  /\ due' = ToSet(listeners)
  /\ UNCHANGED <<listVars, handling, stale, fault>>

\* The listener is disabled or its entity inactive.
Skip ==
  /\ ~fault /\ ~handling
  /\ at \in DOMAIN listeners
  /\ at' = at + 1
  /\ due' = due \ {listeners[at]}
  /\ UNCHANGED <<listVars, handling, stale, fault>>

Notify ==
  /\ ~fault /\ ~handling
  /\ at \in DOMAIN listeners
  /\ handling' = TRUE
  /\ due' = due \ {listeners[at]}
  /\ UNCHANGED <<listVars, at, stale, fault>>

\* The callback returns true, and onEvent too: no other listener sees the event.
Consume ==
  /\ ~fault /\ handling
  /\ handling' = FALSE
  /\ at' = 0
  /\ stale' = FALSE
  /\ due' = {}
  /\ UNCHANGED <<listVars, fault>>

\* Slip: the result of the callback is returned whatever it is.
StopAtFirst ==
  /\ ~fault /\ handling
  /\ handling' = FALSE
  /\ at' = 0
  /\ stale' = FALSE
  /\ UNCHANGED <<listVars, fault, due>>

\* The callback returns false: the iterator is incremented.
Continue ==
  /\ ~fault /\ handling
  /\ ~stale
  /\ at <= Len(listeners)
  /\ handling' = FALSE
  /\ at' = at + 1
  /\ UNCHANGED <<listVars, stale, fault, due>>

\* The iterator is incremented out of the vector.
Crash ==
  /\ ~fault /\ handling
  /\ stale \/ at > Len(listeners)
  /\ fault' = TRUE
  /\ UNCHANGED <<listVars, at, handling, stale, due>>

EndOfList ==
  /\ ~fault /\ ~handling
  /\ at = Len(listeners) + 1
  /\ at' = 0
  /\ UNCHANGED <<listVars, handling, stale, fault, due>>

Next ==
  \/ \E c \in Component : CreateComponent(c) \/ LoadComponent(c) \/ DeleteComponent(c)
  \/ \E c \in Component, enable \in BOOLEAN : ReceiveInput(c, enable)
  \/ StartEvent \/ Skip \/ Notify \/ Consume \/ Continue \/ Crash \/ EndOfList

Spec == Init /\ [][Next]_vars

-----------------------------------------------------------------------------
(***************************************************************************)
(* Properties.                                                             *)
(***************************************************************************)

\* receivesInput() tells whether the component is among the listeners ("Tells if
\* the component receives input events", Component.hpp:75), unless a component was
\* loaded: the flags are read from the file, and nothing calls addListener.  And the
\* listeners are those that the game asked for ("Enables the onEvent() callback for
\* input events", Component.hpp:72), whatever the order of the calls, unless
\* receiveInput(true) was called on one that receives input.
ListensAsAsked ==
  "load" \notin taken =>
    /\ receiving = ToSet(listeners)
    /\ "twice" \notin taken => ToSet(listeners) = wanted

\* An event nobody consumes is shown to every component that was a listener when
\* it arrived and still is ("For each input listener", GUIManager.cpp:31), unless
\* listeners change in callbacks.
EveryListenerIsAsked ==
  [][at # 0 /\ at' = 0 /\ "inCallback" \notin taken => due' = {}]_vars
=============================================================================

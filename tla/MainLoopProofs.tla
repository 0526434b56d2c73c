--------------------------- MODULE MainLoopProofs ---------------------------
(***************************************************************************)
(* Proofs about the main loop: the input listeners and the window, for any *)
(* number of components and cameras and any sizes, and the time stepper,   *)
(* for any range of steps and any frames.                                  *)
(***************************************************************************)
EXTENDS MainLoop, TimeStepper, TLAPS

-----------------------------------------------------------------------------
(***************************************************************************)
(* Sequences.                                                              *)
(***************************************************************************)

\* Appending an element that is not in it leaves a sequence without repetitions.
LEMMA AppendNew ==
  ASSUME NEW S, NEW s \in Seq(S), IsInjective(s), NEW e, e \notin ToSet(s)
  PROVE  /\ Append(s, e) \in Seq(S \union {e})
         /\ IsInjective(Append(s, e))
         /\ ToSet(Append(s, e)) = ToSet(s) \union {e}
<1> DEFINE t == Append(s, e)
           n == Len(s)
<1>1. /\ n \in Nat /\ DOMAIN s = 1..n /\ DOMAIN t = 1..(n + 1)
      /\ \A i \in 1..n : t[i] = s[i] /\ s[i] \in S
      /\ t[n + 1] = e
  OBVIOUS
<1>2. t \in Seq(S \union {e})
  OBVIOUS
<1>3. \A i \in 1..(n + 1) : i \in 1..n \/ i = n + 1
  BY <1>1
<1>4. n + 1 \in 1..(n + 1) /\ \A i \in 1..n : i \in 1..(n + 1)
  BY <1>1
<1> HIDE DEF t, n
<1>5. IsInjective(t)
  BY <1>1, <1>3 DEF IsInjective, ToSet
<1>6. ToSet(t) = ToSet(s) \union {e}
  BY <1>1, <1>3, <1>4 DEF ToSet
<1> QED BY <1>2, <1>5, <1>6 DEF t

\* RemoveFirst takes the element out of a sequence that holds it once.
LEMMA RemoveOnly ==
  ASSUME NEW S, NEW s \in Seq(S), IsInjective(s), NEW e
  PROVE  /\ RemoveFirst(s, e) \in Seq(S \ {e})
         /\ IsInjective(RemoveFirst(s, e))
         /\ ToSet(RemoveFirst(s, e)) = ToSet(s) \ {e}
<1> DEFINE n == Len(s)
<1>1. /\ n \in Nat /\ DOMAIN s = 1..n
      /\ \A i \in 1..n : s[i] \in S
  OBVIOUS
<1>2. CASE ~\E i \in 1..n : s[i] = e
  <2>1. RemoveFirst(s, e) = s
    BY <1>2 DEF RemoveFirst
  <2>2. s \in Seq(S \ {e})
    BY <1>1, <1>2
  <2> QED BY <1>1, <1>2, <2>1, <2>2 DEF ToSet
<1>3. ASSUME NEW k \in 1..n, s[k] = e
      PROVE  /\ RemoveFirst(s, e) \in Seq(S \ {e})
             /\ IsInjective(RemoveFirst(s, e))
             /\ ToSet(RemoveFirst(s, e)) = ToSet(s) \ {e}
  <2> DEFINE r == SubSeq(s, 1, k - 1) \o SubSeq(s, k + 1, n)
             from(i) == IF i < k THEN i ELSE i + 1
  <2>1. {i \in 1..n : s[i] = e} = {k}
    BY <1>1, <1>3 DEF IsInjective
  <2>2. Min({k}) = k
    BY DEF Min
  <2>3. RemoveFirst(s, e) = r
    BY <1>3, <2>1, <2>2 DEF RemoveFirst, RemoveAt, SelectInSeq
  <2> DEFINE a == SubSeq(s, 1, k - 1)
             b == SubSeq(s, k + 1, n)
  <2>4. /\ a \in Seq(S) /\ Len(a) = k - 1 /\ \A i \in 1..(k - 1) : a[i] = s[i]
        /\ b \in Seq(S) /\ Len(b) = n - k /\ \A i \in 1..(n - k) : b[i] = s[k + i]
    <3>1. a \in Seq(S) /\ Len(a) = k - 1 /\ \A i \in 1..(k - 1) : a[i] = s[i]
      BY <1>1
    <3>2. b \in Seq(S)
      BY <1>1
    <3>3. Len(b) = n - k
      <4>1. Len(b) = IF k + 1 <= n THEN n - (k + 1) + 1 ELSE 0
        BY <1>1
      <4>2. n \in Int /\ k \in Int /\ k <= n
        BY <1>1
      <4> HIDE DEF b, n
      <4> QED BY <4>1, <4>2
    <3>4. \A i \in 1..(n - k) : b[i] = s[k + i]
      <4>1. \A i \in 1..(n - k) : b[i] = s[(k + 1) + i - 1] /\ (k + 1) + i - 1 = k + i
        BY <1>1
      <4> QED BY <4>1, Zenon
    <3> QED BY <3>1, <3>2, <3>3, <3>4
  <2> HIDE DEF a, b
  <2>5. r \in Seq(S) /\ Len(r) = n - 1 /\ DOMAIN r = 1..(n - 1)
    <3>1. r = a \o b
      BY DEF a, b
    <3>2. Len(a) + Len(b) = n - 1
      BY <1>1, <2>4
    <3> HIDE DEF r
    <3> QED BY <2>4, <3>1, <3>2
  <2>6. \A i \in 1..(n - 1) : r[i] = s[from(i)]
    <3> SUFFICES ASSUME NEW i \in 1..(n - 1) PROVE r[i] = s[from(i)]
      OBVIOUS
    <3>1. r = a \o b
      BY DEF a, b
    <3> HIDE DEF r, n
    <3>2. CASE i < k
      BY <1>1, <2>4, <3>1, <3>2
    <3>3. CASE ~(i < k)
      <4>1. i - (k - 1) \in 1..(n - k) /\ k + (i - (k - 1)) = i + 1
        BY <1>1, <3>3
      <4>2. r[i] = b[i - (k - 1)]
        BY <1>1, <2>4, <3>1, <3>3
      <4> QED BY <2>4, <3>3, <4>1, <4>2
    <3> QED BY <3>2, <3>3
  <2>7. \A i \in 1..(n - 1) : from(i) \in 1..n /\ from(i) # k
    BY <1>1
  <2>8. \A i, j \in 1..(n - 1) : from(i) = from(j) => i = j
    BY <1>1
  <2>9. \A j \in 1..n : j # k => \E i \in 1..(n - 1) : from(i) = j
    <3> SUFFICES ASSUME NEW j \in 1..n, j # k
                 PROVE  \E i \in 1..(n - 1) : from(i) = j
      OBVIOUS
    <3>1. CASE j < k
      BY <1>1, <3>1
    <3>2. CASE j > k
      <4>1. j - 1 \in 1..(n - 1) /\ from(j - 1) = j
        BY <1>1, <3>2
      <4> QED BY <4>1
    <3> QED BY <1>1, <3>1, <3>2
  <2> HIDE DEF n, r, from
  <2>10. \A i \in 1..(n - 1) : r[i] # e
    BY <1>1, <1>3, <2>6, <2>7 DEF IsInjective
  <2>11. r \in Seq(S \ {e})
    BY <2>5, <2>10
  <2>12. IsInjective(r)
    BY <1>1, <2>5, <2>6, <2>7, <2>8 DEF IsInjective
  <2>13. ToSet(r) = ToSet(s) \ {e}
    <3>1. /\ ToSet(r) = {r[i] : i \in 1..(n - 1)}
          /\ ToSet(s) = {s[j] : j \in 1..n}
      BY <1>1, <2>5 DEF ToSet
    <3>2. ASSUME NEW i \in 1..(n - 1) PROVE r[i] \in ToSet(s) \ {e}
      BY <2>6, <2>7, <2>10, <3>1
    <3>3. ASSUME NEW j \in 1..n, s[j] # e PROVE s[j] \in ToSet(r)
      <4>1. j # k
        BY <1>3, <3>3
      <4>2. PICK i \in 1..(n - 1) : from(i) = j
        BY <2>9, <4>1
      <4> QED BY <2>6, <3>1, <4>2
    <3> QED BY <3>1, <3>2, <3>3
  <2> QED BY <2>3, <2>11, <2>12, <2>13
<1> QED BY <1>2, <1>3
-----------------------------------------------------------------------------
(***************************************************************************)
(* The input listeners, with whatever surrounds them.                      *)
(***************************************************************************)

\* Adding a listener that does not receive input keeps the vector in order.
LEMMA AddListenerFacts ==
  ASSUME TypeOK, NEW c \in live, c \notin receiving, AddListener(c)
  PROVE  /\ listeners' \in Seq(receiving \union {c}) /\ IsInjective(listeners')
         /\ ToSet(listeners') = ToSet(listeners) \union {c}
         /\ stale' \in BOOLEAN
<1>1. c \notin ToSet(listeners)
  BY DEF TypeOK, ToSet
<1> QED BY <1>1, AppendNew DEF AddListener, TypeOK

\* Removing a listener leaves the others.
LEMMA RemoveListenerFacts ==
  ASSUME TypeOK, NEW c, RemoveListener(c)
  PROVE  /\ listeners' \in Seq(receiving \ {c}) /\ IsInjective(listeners')
         /\ ToSet(listeners') = ToSet(listeners) \ {c}
         /\ stale' = stale
BY RemoveOnly DEF RemoveListener, TypeOK

LEMMA ListenerTypes == TypeOK /\ [Next]_vars => TypeOK'
<1> SUFFICES ASSUME TypeOK, [Next]_vars PROVE TypeOK'
  OBVIOUS
<1>1. \A x \in SUBSET Liberties : Taking(x) => taken' \subseteq Liberties
  BY DEF Taking, TypeOK, Liberties
<1>2. ASSUME NEW S, NEW T, S \subseteq T, NEW s \in Seq(S) PROVE s \in Seq(T)
  BY <1>2
<1>3. ASSUME NEW c \in Component, CreateComponent(c) PROVE TypeOK'
  BY <1>3 DEF CreateComponent, TypeOK
<1>4. ASSUME NEW c \in Component, LoadComponent(c) PROVE TypeOK'
  <2>1. taken' \subseteq Liberties
    BY <1>1, <1>4 DEF LoadComponent, Liberties
  <2>2. listeners' \in Seq(receiving')
    BY <1>2, <1>4 DEF LoadComponent, TypeOK
  <2> QED BY <1>4, <2>1, <2>2 DEF LoadComponent, TypeOK
<1>5. ASSUME NEW c \in Component, DeleteComponent(c) PROVE TypeOK'
  <2>1. taken' \subseteq Liberties
    BY <1>1, <1>5 DEF DeleteComponent
  <2>2. listeners' \in Seq(receiving') /\ IsInjective(listeners') /\ stale' \in BOOLEAN
    <3>1. CASE c \in receiving
      BY <1>5, <3>1, RemoveListenerFacts DEF DeleteComponent, TypeOK
    <3>2. CASE c \notin receiving
      BY <1>5, <3>2 DEF DeleteComponent, TypeOK
    <3> QED BY <3>1, <3>2
  <2> QED BY <1>5, <2>1, <2>2 DEF DeleteComponent, TypeOK
<1>6. ASSUME NEW c \in Component, NEW enable \in BOOLEAN, ReceiveInput(c, enable)
      PROVE  TypeOK'
  <2>1. taken' \subseteq Liberties
    BY <1>1, <1>6 DEF ReceiveInput, Liberties
  <2>2. /\ receiving' \subseteq live /\ listeners' \in Seq(receiving')
        /\ IsInjective(listeners') /\ stale' \in BOOLEAN /\ due' \subseteq Component
    <3>1. CASE enable /\ c \notin receiving
      BY <1>6, <3>1, AddListenerFacts DEF ReceiveInput, EnableInput, TypeOK
    <3>2. CASE ~(enable /\ c \notin receiving)
      <4>1. RemoveListener(c) /\ receiving' = receiving \ {c} /\ due' = due \ {c}
        BY <1>6, <3>2 DEF ReceiveInput, EnableInput, DisableInput
      <4> QED BY <4>1, RemoveListenerFacts DEF TypeOK
    <3> QED BY <3>1, <3>2
  <2> QED BY <1>6, <2>1, <2>2 DEF ReceiveInput, TypeOK
<1>7. ASSUME StartEvent PROVE TypeOK'
  <2>1. ToSet(listeners) \subseteq Component
    BY DEF TypeOK, ToSet
  <2> QED BY <1>7, <2>1 DEF StartEvent, TypeOK, listVars
<1>8. ASSUME Skip PROVE TypeOK'
  BY <1>8 DEF Skip, TypeOK, listVars
<1>9. ASSUME Notify PROVE TypeOK'
  BY <1>9 DEF Notify, TypeOK, listVars
<1>10. ASSUME Consume \/ Continue \/ EndOfList PROVE TypeOK'
  <2>1. UNCHANGED <<live, receiving, listeners, wanted, taken, fault>>
    BY <1>10 DEF Consume, Continue, EndOfList, listVars
  <2>2. at' \in Nat
    BY <1>10 DEF Consume, Continue, EndOfList, TypeOK
  <2>4. handling' \in BOOLEAN /\ stale' \in BOOLEAN
    BY <1>10 DEF Consume, Continue, EndOfList, TypeOK
  <2>3. due' \subseteq Component
    BY <1>10 DEF Consume, Continue, EndOfList, TypeOK
  <2> QED BY <2>1, <2>2, <2>3, <2>4 DEF TypeOK
<1>11. ASSUME Crash PROVE TypeOK'
  BY <1>11 DEF Crash, TypeOK, listVars
<1>12. CASE UNCHANGED vars
  BY <1>12 DEF vars, TypeOK, listVars
<1> QED
  BY <1>3, <1>4, <1>5, <1>6, <1>7, <1>8, <1>9, <1>10, <1>11, <1>12 DEF Next

LEMMA ListenersStep == TypeOK /\ ListensAsAsked /\ [Next]_vars => ListensAsAsked'
<1> SUFFICES ASSUME TypeOK, ListensAsAsked, [Next]_vars, "load" \notin taken'
             PROVE  /\ receiving' = ToSet(listeners')
                    /\ "twice" \notin taken' => ToSet(listeners') = wanted'
  BY DEF ListensAsAsked
<1>1. \A x : Taking(x) => taken \subseteq taken' /\ x \subseteq taken'
  BY DEF Taking
<1>2. ASSUME NEW c \in Component, CreateComponent(c) PROVE ListensAsAsked'
  BY <1>2 DEF CreateComponent, ListensAsAsked
<1>3. ASSUME NEW c \in Component, LoadComponent(c) PROVE FALSE
  BY <1>1, <1>3 DEF LoadComponent
<1>4. ASSUME NEW c \in Component, DeleteComponent(c) PROVE ListensAsAsked'
  <2>1. taken \subseteq taken'
    BY <1>1, <1>4 DEF DeleteComponent
  <2>2. receiving = ToSet(listeners) /\ ("twice" \notin taken => ToSet(listeners) = wanted)
    BY <2>1 DEF ListensAsAsked
  <2>3. ToSet(listeners') = ToSet(listeners) \ {c}
    <3>1. CASE c \in receiving
      BY <1>4, <3>1, RemoveListenerFacts DEF DeleteComponent
    <3>2. CASE c \notin receiving
      BY <1>4, <2>2, <3>2 DEF DeleteComponent
    <3> QED BY <3>1, <3>2
  <2> QED BY <1>4, <2>1, <2>2, <2>3 DEF DeleteComponent, ListensAsAsked
<1>5. ASSUME NEW c \in Component, NEW enable \in BOOLEAN, ReceiveInput(c, enable)
      PROVE  ListensAsAsked'
  <2>1. taken \subseteq taken' /\ (enable /\ c \in wanted => "twice" \in taken')
    BY <1>1, <1>5 DEF ReceiveInput
  <2>2. receiving = ToSet(listeners) /\ ("twice" \notin taken => ToSet(listeners) = wanted)
    BY <2>1 DEF ListensAsAsked
  <2>3. CASE enable /\ c \notin receiving
    <3>1. receiving' = receiving \union {c} /\ AddListener(c)
          /\ wanted' = wanted \union {c} /\ c \in live
      BY <1>5, <2>3 DEF ReceiveInput, EnableInput
    <3>2. ToSet(listeners') = ToSet(listeners) \union {c}
      BY <2>3, <3>1, AddListenerFacts
    <3> QED BY <2>1, <2>2, <3>1, <3>2 DEF ListensAsAsked
  <2>4. CASE ~(enable /\ c \notin receiving)
    <3>1. receiving' = receiving \ {c} /\ RemoveListener(c)
          /\ wanted' = (IF enable THEN wanted \union {c} ELSE wanted \ {c})
      BY <1>5, <2>4 DEF ReceiveInput, EnableInput, DisableInput
    <3>2. ToSet(listeners') = ToSet(listeners) \ {c}
      BY <3>1, RemoveListenerFacts
    <3>3. "twice" \notin taken' => ~enable
      BY <2>1, <2>2, <2>4
    <3> QED BY <2>1, <2>2, <3>1, <3>2, <3>3 DEF ListensAsAsked
  <2> QED BY <2>3, <2>4
<1>6. ASSUME StartEvent \/ Skip \/ Notify \/ Consume \/ Continue \/ Crash \/ EndOfList
      PROVE  ListensAsAsked'
  BY <1>6 DEF StartEvent, Skip, Notify, Consume, Continue, Crash, EndOfList, listVars,
              ListensAsAsked
<1>7. CASE UNCHANGED vars
  BY <1>7 DEF vars, listVars, ListensAsAsked
<1> QED
  BY <1>2, <1>3, <1>4, <1>5, <1>6, <1>7 DEF Next, ListensAsAsked

(***************************************************************************)
(* The dispatch.  As long as no callback changes who receives input, the   *)
(* listeners that the event has still to be shown to are ahead of the      *)
(* iterator, where the loop of onEvent comes to them.                      *)
(***************************************************************************)
AheadOfIterator(c) ==
  \E i \in DOMAIN listeners : listeners[i] = c /\ IF handling THEN i > at ELSE i >= at

DueIsAhead ==
  /\ handling => at # 0
  /\ at # 0 /\ "inCallback" \notin taken => \A c \in due : AheadOfIterator(c)

LEMMA DueStep == TypeOK /\ DueIsAhead /\ [Next]_vars => DueIsAhead'
<1> SUFFICES ASSUME TypeOK, DueIsAhead, [Next]_vars PROVE DueIsAhead'
  OBVIOUS
<1>1. \A x : Taking(x) => taken \subseteq taken' /\ (handling => "inCallback" \in taken')
  BY DEF Taking
<1>2. \A c \in Component : CreateComponent(c) => DueIsAhead'
  BY DEF CreateComponent, DueIsAhead, AheadOfIterator
<1>3. ASSUME NEW c \in Component,
             \/ LoadComponent(c) \/ DeleteComponent(c)
             \/ \E enable \in BOOLEAN : ReceiveInput(c, enable)
      PROVE  DueIsAhead'
  <2>1. handling' = handling /\ at' = at
    BY <1>3 DEF LoadComponent, DeleteComponent, ReceiveInput
  <2>2. handling => "inCallback" \in taken'
    BY <1>1, <1>3 DEF LoadComponent, DeleteComponent, ReceiveInput
  <2>3. handling \/ at = 0
    BY <1>3 DEF LoadComponent, DeleteComponent, ReceiveInput, ClientTurn
  <2> QED BY <2>1, <2>2, <2>3 DEF DueIsAhead
<1>4. CASE StartEvent
  <2>1. /\ at' = 1 /\ listeners' = listeners /\ due' = ToSet(listeners)
        /\ DOMAIN listeners \subseteq Nat \ {0} /\ ~handling /\ ~handling'
    BY <1>4 DEF StartEvent, listVars, TypeOK, DueIsAhead
  <2> QED BY <2>1 DEF ToSet, AheadOfIterator, DueIsAhead
<1>5. CASE Skip \/ Notify
  <2>1. /\ ~handling /\ at \in DOMAIN listeners /\ listeners' = listeners
        /\ taken' = taken /\ due' = due \ {listeners[at]}
    BY <1>5 DEF Skip, Notify, listVars
  <2>2. DOMAIN listeners \subseteq Nat \ {0}
    BY DEF TypeOK
  <2>3. \/ ~handling' /\ at' = at + 1
        \/ handling' /\ at' = at
    BY <1>5 DEF Skip, Notify
  <2>4. ASSUME "inCallback" \notin taken, NEW c \in due'
        PROVE  \E i \in DOMAIN listeners : listeners[i] = c /\ i > at
    <3>1. \E i \in DOMAIN listeners : listeners[i] = c /\ i >= at
      BY <2>1, <2>2, <2>4 DEF DueIsAhead, AheadOfIterator
    <3>2. c # listeners[at]
      BY <2>1, <2>4
    <3> QED BY <2>1, <2>2, <3>1, <3>2
  <2> QED BY <2>1, <2>2, <2>3, <2>4 DEF DueIsAhead, AheadOfIterator
<1>6. CASE Continue
  <2>1. /\ handling /\ ~handling' /\ at' = at + 1 /\ at # 0 /\ at \in Nat
        /\ listeners' = listeners /\ taken' = taken /\ due' = due
    BY <1>6 DEF Continue, listVars, TypeOK, DueIsAhead
  <2>2. DOMAIN listeners \subseteq Nat
    BY DEF TypeOK
  <2> QED BY <2>1, <2>2 DEF DueIsAhead, AheadOfIterator
<1>7. CASE Crash
  BY <1>7 DEF Crash, listVars, DueIsAhead, AheadOfIterator
<1>8. CASE Consume \/ EndOfList
  BY <1>8 DEF Consume, EndOfList, DueIsAhead
<1>9. CASE UNCHANGED vars
  BY <1>9 DEF vars, listVars, DueIsAhead, AheadOfIterator
<1> QED
  BY <1>2, <1>3, <1>4, <1>5, <1>6, <1>7, <1>8, <1>9 DEF Next, DueIsAhead

\* The end of a dispatch finds nothing due.
LEMMA DispatchEnds ==
  ASSUME TypeOK, DueIsAhead, [Next]_vars, at # 0, at' = 0, "inCallback" \notin taken
  PROVE  due' = {}
<1>1. CASE Consume
  BY <1>1 DEF Consume
<1>2. CASE EndOfList
  <2>1. DOMAIN listeners = 1..Len(listeners) /\ Len(listeners) \in Nat
    BY DEF TypeOK
  <2> QED BY <1>2, <2>1 DEF EndOfList, DueIsAhead, AheadOfIterator
<1>3. ASSUME ~Consume, ~EndOfList PROVE FALSE
  BY <1>3 DEF Next, vars, CreateComponent, LoadComponent, DeleteComponent, ReceiveInput,
              StartEvent, Skip, Notify, Continue, Crash, TypeOK
<1> QED BY <1>1, <1>2, <1>3

-----------------------------------------------------------------------------
(***************************************************************************)
(* The loop.                                                               *)
(***************************************************************************)

\* The application leaves the listeners to the actions of the GUIManager and of
\* the components.
LEMMA LoopTakesListenerSteps == LoopNext => [Next]_vars
BY DEF LoopNext, Program, ListenersChange, Game, WindowSystem, Forward, Dispatch,
       EndDispatch, Next

\* The onEvent of the GUIManager runs in the onEvent of the game.
DispatchInEvent == at # 0 => phase = "gui"

ListenersInv == TypeOK /\ ListensAsAsked /\ DueIsAhead /\ DispatchInEvent

LEMMA ListenersInit == LoopInit => ListenersInv
<1> SUFFICES ASSUME LoopInit PROVE ListenersInv
  OBVIOUS
<1>1. DOMAIN listeners = {} /\ listeners \in Seq(receiving)
  BY DEF LoopInit, Init
<1> QED
  BY <1>1 DEF LoopInit, Init, ListenersInv, TypeOK, ListensAsAsked, DueIsAhead,
              DispatchInEvent, IsInjective, ToSet

LEMMA DispatchStep ==
  TypeOK /\ DispatchInEvent /\ [LoopNext]_loopVars => DispatchInEvent'
<1> SUFFICES ASSUME TypeOK, DispatchInEvent, [LoopNext]_loopVars PROVE DispatchInEvent'
  OBVIOUS
<1>1. CASE UNCHANGED loopVars
  BY <1>1 DEF loopVars, vars, appVars, DispatchInEvent
<1>2. CASE ListenersChange
  BY <1>2 DEF ListenersChange, CreateComponent, LoadComponent, DeleteComponent,
              ReceiveInput, appVars, DispatchInEvent
<1>3. CASE Forward
  BY <1>3 DEF Forward, DispatchInEvent
<1>4. CASE Dispatch
  BY <1>4 DEF Dispatch, appVars, DispatchInEvent
<1>5. CASE EndDispatch
  BY <1>5 DEF EndDispatch, Consume, EndOfList, DispatchInEvent
<1>6. CASE Game \/ WindowSystem
  BY <1>6 DEF Game, WindowSystem, vars, DispatchInEvent, Stop, CloseWindow, SetFullScreen,
              DestroyCamera, SetFixedZoom, CreateCamera, SetByHand, CameraUnchanged, Post
<1>7. CASE UNCHANGED vars /\ Program
  BY <1>7 DEF Program, vars, DispatchInEvent, InitWindow, LoadAssets, OpenScripts,
              OnInitReturns, BeginFrame, PollClosed, PollEvent, EndEvents, OnEventReturns,
              EndFrame, EndLoop, OnCloseReturns, Destroy, Forward, Dispatch, EndDispatch,
              StartEvent, Skip, Notify, Continue, Crash, Consume, EndOfList, appVars
<1> QED
  BY <1>1, <1>2, <1>3, <1>4, <1>5, <1>6, <1>7 DEF LoopNext, Program

LEMMA ListenersInvStep == ListenersInv /\ [LoopNext]_loopVars => ListenersInv'
<1>1. [LoopNext]_loopVars => [Next]_vars
  BY LoopTakesListenerSteps DEF loopVars
<1> QED
  BY <1>1, ListenerTypes, ListenersStep, DueStep, DispatchStep DEF ListenersInv

\* The events of the window.
Events == Size \union {"closed", "key"}

LEMMA TailOfQueue ==
  ASSUME NEW S, NEW q \in Seq(S), q # <<>>
  PROVE  /\ Head(q) \in S /\ Tail(q) \in Seq(S)
         /\ Len(q) \in Nat \ {0} /\ Len(Tail(q)) = Len(q) - 1
         /\ Head(q) = q[1] /\ \A i \in 1..Len(Tail(q)) : Tail(q)[i] = q[i + 1]
OBVIOUS

\* The window and the views of the cameras.
LEMMA CreateWindowTypes ==
  ASSUME AppTypeOK, NEW whole \in BOOLEAN, CreateWindow(whole)
  PROVE  /\ open' \in BOOLEAN /\ size' \in Size /\ fullScreen' \in BOOLEAN
         /\ queue' = <<>> /\ screenView' = size' /\ dropped' \in BOOLEAN
         /\ mode' = mode /\ fit' = [c \in Camera |-> Refitted(c, size')]
         /\ fit' \in [Camera -> Size \union {ByHand}]
<1>1. size' \in Size
  BY SizeAssumption DEF CreateWindow
<1>2. fit' = [c \in Camera |-> Refitted(c, size')]
  BY DEF CreateWindow, OnScreenResize
<1>3. fit' \in [Camera -> Size \union {ByHand}]
  BY <1>1, <1>2 DEF Refitted, AppTypeOK
<1>4. dropped' \in BOOLEAN
  BY DEF CreateWindow, AppTypeOK
<1> QED BY <1>1, <1>2, <1>3, <1>4 DEF CreateWindow, OnScreenResize

\* What the game and the window system do to the application.
GameStep ==
  \/ \E whole \in BOOLEAN : SetFullScreen(whole)
  \/ Stop \/ CloseWindow
  \/ \E c \in Camera :
       DestroyCamera(c) \/ SetFixedZoom(c) \/ \E m \in Modes : CreateCamera(c, m) \/ SetByHand(c, m)

\* The return of what the application calls, without more.
Return ==
  \/ phase = "event" /\ phase' \in {"gui", "poll"}
  \/ phase = "gui" /\ phase' = "poll"
  \/ phase = "update" /\ phase' = "loop"
  \/ phase = "onClose" /\ phase' = "ended"
  \/ EndEvents

ReturnStep ==
  /\ Return
  /\ UNCHANGED <<runFlag, scriptVars, windowVars, posted, cameraVars, asked, loaded>>

\* Every step of the loop, as far as the application is concerned.
LEMMA LoopSteps ==
  ASSUME [LoopNext]_loopVars
  PROVE  \/ \E whole \in BOOLEAN : InitWindow(whole)
         \/ \E ok \in BOOLEAN : LoadAssets(ok) \/ OpenScripts(ok) \/ OnInitReturns(ok)
         \/ BeginFrame \/ PollClosed \/ PollEvent \/ EndLoop \/ Destroy
         \/ ReturnStep
         \/ GameStep
         \/ \E event \in Events : Post(event)
         \/ UNCHANGED appVars
<1>1. Program => \/ \E whole \in BOOLEAN : InitWindow(whole)
                 \/ \E ok \in BOOLEAN : LoadAssets(ok) \/ OpenScripts(ok) \/ OnInitReturns(ok)
                 \/ BeginFrame \/ PollClosed \/ PollEvent \/ EndLoop \/ Destroy
                 \/ ReturnStep
                 \/ UNCHANGED appVars
  BY DEF Program, Forward, Dispatch, EndDispatch, EndEvents, OnEventReturns, EndFrame,
         OnCloseReturns, ReturnStep, Return
<1>2. Game => GameStep
  BY DEF Game, GameStep
<1>3. WindowSystem => \E event \in Events : Post(event)
  BY DEF WindowSystem, Events
<1>4. ListenersChange => UNCHANGED appVars
  BY DEF ListenersChange
<1>5. UNCHANGED loopVars => UNCHANGED appVars
  BY DEF loopVars
<1> QED BY <1>1, <1>2, <1>3, <1>4, <1>5 DEF LoopNext

LEMMA AppTypesStep == AppTypeOK /\ [LoopNext]_loopVars => AppTypeOK'
<1> SUFFICES ASSUME AppTypeOK, [LoopNext]_loopVars PROVE AppTypeOK'
  OBVIOUS
<1> USE DEF Phases, LoopPhases, scriptVars, windowVars, cameraVars
<1>1. ASSUME NEW whole \in BOOLEAN, InitWindow(whole) \/ SetFullScreen(whole) PROVE AppTypeOK'
  <2>1. CreateWindow(whole) /\ phase' \in {phase, "assets"}
    BY <1>1 DEF InitWindow, SetFullScreen
  <2>2. UNCHANGED <<runFlag, vm, vmFault, posted, asked, loaded>>
    BY <1>1 DEF InitWindow, SetFullScreen
  <2>3. <<>> \in Seq(Size \union {"closed", "key"})
    OBVIOUS
  <2>4. screenView' \in Size
    BY <2>1, CreateWindowTypes
  <2> QED BY <2>1, <2>2, <2>3, <2>4, CreateWindowTypes DEF AppTypeOK
<1>2. ASSUME NEW ok \in BOOLEAN, LoadAssets(ok) \/ OpenScripts(ok) \/ OnInitReturns(ok)
      PROVE  AppTypeOK'
  BY <1>2 DEF LoadAssets, OpenScripts, OnInitReturns, AppTypeOK
<1>3. CASE BeginFrame
  BY <1>3, SizeAssumption DEF BeginFrame, AppTypeOK
<1>4. CASE PollClosed
  BY <1>4, TailOfQueue DEF PollClosed, AppTypeOK
<1>5. CASE PollEvent
  <2>1. queue' \in Seq(Size \union {"closed", "key"})
    BY <1>5, TailOfQueue DEF PollEvent, AppTypeOK
  <2>2. screenView' \in Size /\ fit' \in [Camera -> Size \union {ByHand}]
    BY <1>5 DEF PollEvent, OnScreenResize, Refitted, AppTypeOK
  <2> QED BY <1>5, <2>1, <2>2 DEF PollEvent, AppTypeOK
<1>6. CASE EndLoop
  BY <1>6 DEF EndLoop, AppTypeOK
<1>7. CASE Destroy
  BY <1>7 DEF Destroy, AppTypeOK
<1>8. CASE ReturnStep
  <2>1. UNCHANGED <<runFlag, posted, asked, loaded>> /\ UNCHANGED <<vm, vmFault>>
    BY <1>8 DEF ReturnStep, scriptVars
  <2>2. UNCHANGED <<open, size, fullScreen, queue, screenView, dropped>> /\ UNCHANGED <<mode, fit>>
    BY <1>8 DEF ReturnStep, windowVars, cameraVars
  <2>3. phase' \in Phases
    BY <1>8 DEF ReturnStep, Return, EndEvents, Phases, LoopPhases
  <2> QED BY <2>1, <2>2, <2>3 DEF AppTypeOK
<1>9. CASE Stop \/ CloseWindow
  <2>1. UNCHANGED <<phase, vm, vmFault, size, fullScreen, queue, screenView, dropped, posted,
                    mode, fit, loaded>>
    BY <1>9 DEF Stop, CloseWindow
  <2>2. runFlag' \in BOOLEAN /\ open' \in BOOLEAN /\ asked' \in BOOLEAN
    BY <1>9 DEF Stop, CloseWindow, AppTypeOK
  <2> QED BY <2>1, <2>2 DEF AppTypeOK
<1>10. ASSUME NEW c \in Camera,
              \/ DestroyCamera(c) \/ SetFixedZoom(c)
              \/ \E m \in Modes : CreateCamera(c, m) \/ SetByHand(c, m)
       PROVE  AppTypeOK'
  <2>1. UNCHANGED <<phase, runFlag, scriptVars, windowVars, posted, asked, loaded>>
    BY <1>10 DEF DestroyCamera, SetFixedZoom, CreateCamera, SetByHand, CameraUnchanged
  <2>2. mode' \in [Camera -> Modes \union {"none"}]
    BY <1>10 DEF DestroyCamera, SetFixedZoom, CreateCamera, SetByHand, AppTypeOK
  <2>3. fit' \in [Camera -> Size \union {ByHand}]
    BY <1>10 DEF DestroyCamera, SetFixedZoom, CreateCamera, SetByHand, Refitted, AppTypeOK
  <2> QED BY <2>1, <2>2, <2>3 DEF AppTypeOK
<1>11. ASSUME NEW event \in Events, Post(event) PROVE AppTypeOK'
  <2>1. queue' \in Seq(Size \union {"closed", "key"})
    BY <1>11 DEF Post, Events, AppTypeOK
  <2>2. posted' \in 0..MaxPosts
    BY <1>11, SizeAssumption DEF Post, AppTypeOK
  <2> QED BY <1>11, <2>1, <2>2 DEF Post, AppTypeOK
<1>12. CASE UNCHANGED appVars
  BY <1>12 DEF appVars, AppTypeOK
<1> QED
  BY <1>1, <1>2, <1>3, <1>4, <1>5, <1>6, <1>7, <1>8, <1>9, <1>10, <1>11, <1>12, LoopSteps
  DEF GameStep

-----------------------------------------------------------------------------
(***************************************************************************)
(* The machine of the scripts: once the assets are loaded, in each phase   *)
(* the pointer is what the next closing of the machine needs.              *)
(***************************************************************************)
ScriptsInv ==
  /\ phase \in {"start", "assets"} => ~vmFault /\ ~loaded
  /\ loaded =>
       /\ ~vmFault
       /\ phase \in LoopPhases \union {"onInit"} => vm = "open"
       /\ phase \in {"onClose", "ended", "destroyed"} => vm = "null"
       /\ phase = "failed" => vm \in {"open", "null"}

LEMMA ScriptsStep == ScriptsInv /\ [LoopNext]_loopVars => ScriptsInv'
<1> SUFFICES ASSUME ScriptsInv, [LoopNext]_loopVars PROVE ScriptsInv'
  OBVIOUS
<1> USE DEF ScriptsInv, LoopPhases, scriptVars
<1>1. ASSUME NEW whole \in BOOLEAN, InitWindow(whole) \/ SetFullScreen(whole) PROVE ScriptsInv'
  BY <1>1 DEF InitWindow, SetFullScreen
<1>2. ASSUME NEW ok \in BOOLEAN, LoadAssets(ok) \/ OpenScripts(ok) \/ OnInitReturns(ok)
      PROVE  ScriptsInv'
  BY <1>2 DEF LoadAssets, OpenScripts, OnInitReturns
<1>3. CASE BeginFrame \/ PollClosed \/ PollEvent
  BY <1>3 DEF BeginFrame, PollClosed, PollEvent
<1>9. CASE EndLoop
  BY <1>9 DEF EndLoop
<1>4. CASE Destroy
  BY <1>4 DEF Destroy
<1>5. CASE ReturnStep
  BY <1>5 DEF ReturnStep, Return, EndEvents
<1>6. CASE GameStep
  BY <1>6 DEF GameStep, SetFullScreen, Stop, CloseWindow, DestroyCamera, SetFixedZoom,
              CreateCamera, SetByHand, CameraUnchanged
<1>7. CASE \E event \in Events : Post(event)
  BY <1>7 DEF Post
<1>8. CASE UNCHANGED appVars
  BY <1>8 DEF appVars
<1> QED
  BY <1>1, <1>2, <1>3, <1>4, <1>5, <1>6, <1>7, <1>8, <1>9, LoopSteps

-----------------------------------------------------------------------------
(***************************************************************************)
(* The size of the window: the last resize event in the queue, if there is *)
(* one, tells the size that the window has.  The events before it may be   *)
(* of any age; handling the last one fits everything to the window.        *)
(***************************************************************************)
NoResize == \A i \in 1..Len(queue) : queue[i] \notin Size

LastResizeIsSize ==
  \A i \in 1..Len(queue) :
    queue[i] \in Size /\ (\A j \in 1..Len(queue) : j > i => queue[j] \notin Size) =>
      queue[i] = size

Fitted == screenView = size /\ \A c \in Camera : mode[c] = "scaled" => fit[c] \in {size, ByHand}

ViewsInv == LastResizeIsSize /\ (NoResize => Fitted)

LEMMA ViewsInit == LoopInit => ViewsInv
BY DEF LoopInit, AppInit, ViewsInv, LastResizeIsSize, NoResize, Fitted

\* An event is taken from the queue.
LEMMA PollViews ==
  ASSUME AppTypeOK, ViewsInv, PollClosed \/ PollEvent
  PROVE  ViewsInv'
<1> DEFINE n == Len(queue)
<1>1. /\ queue \in Seq(Events) /\ queue # <<>> /\ queue' = Tail(queue)
      /\ size' = size /\ mode' = mode
  <2>1. queue # <<>> /\ queue' = Tail(queue) /\ size' = size /\ mode' = mode
    BY DEF PollClosed, PollEvent, cameraVars
  <2> QED BY <2>1 DEF AppTypeOK, Events
<1>2. /\ n \in Nat \ {0} /\ Len(queue') = n - 1 /\ Head(queue) = queue[1]
      /\ \A i \in 1..(n - 1) : queue'[i] = queue[i + 1]
  BY <1>1, TailOfQueue
<1> HIDE DEF n
<1>3. LastResizeIsSize'
  <2> SUFFICES ASSUME NEW i \in 1..(n - 1), queue'[i] \in Size,
                      \A j \in 1..(n - 1) : j > i => queue'[j] \notin Size
               PROVE  queue'[i] = size
    BY <1>1, <1>2 DEF LastResizeIsSize
  <2>1. i + 1 \in 1..n /\ queue'[i] = queue[i + 1]
    BY <1>2
  <2>2. ASSUME NEW j \in 1..n, j > i + 1 PROVE queue[j] \notin Size
    <3>1. j - 1 \in 1..(n - 1) /\ j - 1 > i /\ (j - 1) + 1 = j
      BY <1>2, <2>2
    <3>2. queue'[j - 1] = queue[j]
      BY <1>2, <3>1
    <3> QED BY <3>1, <3>2
  <2> QED BY <2>1, <2>2 DEF ViewsInv, LastResizeIsSize, n
<1>4. ASSUME NoResize' PROVE Fitted'
  <2>1. \A j \in 1..n : j > 1 => queue[j] \notin Size
    <3> SUFFICES ASSUME NEW j \in 1..n, j > 1 PROVE queue[j] \notin Size
      OBVIOUS
    <3>1. j - 1 \in 1..(n - 1) /\ (j - 1) + 1 = j
      BY <1>2
    <3>2. queue'[j - 1] = queue[j]
      BY <1>2, <3>1
    <3> QED BY <1>2, <1>4, <3>1, <3>2 DEF NoResize
  <2>2. CASE queue[1] \in Size
    <3>1. queue[1] = size
      BY <1>2, <2>1, <2>2 DEF ViewsInv, LastResizeIsSize, n
    <3>2. PollEvent
      BY <1>2, <2>2, SizeAssumption DEF PollClosed
    <3>3. screenView' = size /\ fit' = [c \in Camera |-> Refitted(c, size)]
      BY <1>2, <2>2, <3>1, <3>2 DEF PollEvent, OnScreenResize
    <3> QED BY <1>1, <3>3 DEF Fitted, Refitted
  <2>3. CASE queue[1] \notin Size
    <3>1. \A j \in 1..n : j = 1 \/ j > 1
      BY <1>2
    <3>2. NoResize
      BY <2>1, <2>3, <3>1 DEF NoResize, n
    <3>3. screenView' = screenView /\ fit' = fit
      BY <1>2, <2>3 DEF PollClosed, PollEvent, cameraVars
    <3> QED BY <1>1, <3>2, <3>3 DEF ViewsInv, Fitted
  <2> QED BY <2>2, <2>3
<1> QED BY <1>3, <1>4 DEF ViewsInv

LEMMA ViewsStep == AppTypeOK /\ ViewsInv /\ [LoopNext]_loopVars => ViewsInv'
<1> SUFFICES ASSUME AppTypeOK, ViewsInv, [LoopNext]_loopVars PROVE ViewsInv'
  OBVIOUS
<1>1. ASSUME NEW whole \in BOOLEAN, InitWindow(whole) \/ SetFullScreen(whole) PROVE ViewsInv'
  <2>1. CreateWindow(whole)
    BY <1>1 DEF InitWindow, SetFullScreen
  <2>2. /\ Len(queue') = 0 /\ screenView' = size'
        /\ mode' = mode /\ fit' = [c \in Camera |-> Refitted(c, size')]
    BY <2>1, CreateWindowTypes
  <2> QED BY <2>2 DEF ViewsInv, LastResizeIsSize, NoResize, Fitted, Refitted
<1>2. CASE PollClosed \/ PollEvent
  BY <1>2, PollViews
<1>3. CASE UNCHANGED <<queue, size, screenView, mode, fit>>
  BY <1>3 DEF ViewsInv, LastResizeIsSize, NoResize, Fitted
<1>4. ASSUME NEW c \in Camera,
             \/ DestroyCamera(c) \/ SetFixedZoom(c)
             \/ \E m \in Modes : CreateCamera(c, m) \/ SetByHand(c, m)
      PROVE  ViewsInv'
  <2>1. UNCHANGED <<queue, size, screenView>>
    BY <1>4 DEF DestroyCamera, SetFixedZoom, CreateCamera, SetByHand, CameraUnchanged, windowVars
  <2>2. \A x \in Camera \ {c} : mode'[x] = mode[x] /\ fit'[x] = fit[x]
    BY <1>4 DEF DestroyCamera, SetFixedZoom, CreateCamera, SetByHand, AppTypeOK
  <2>3. mode'[c] = "scaled" => fit'[c] \in {size, ByHand}
    BY <1>4 DEF DestroyCamera, SetFixedZoom, CreateCamera, SetByHand, Refitted, AppTypeOK, Modes
  <2> QED BY <2>1, <2>2, <2>3 DEF ViewsInv, LastResizeIsSize, NoResize, Fitted
<1>5. ASSUME NEW event \in Events, Post(event) PROVE ViewsInv'
  <2> DEFINE n == Len(queue)
  <2>1. /\ n \in Nat /\ Len(queue') = n + 1 /\ queue'[n + 1] = event
        /\ \A i \in 1..n : queue'[i] = queue[i]
    BY <1>5 DEF Post, AppTypeOK, Events
  <2>2. /\ UNCHANGED <<screenView, mode, fit>>
        /\ size' = IF event \in Size THEN event ELSE size
    BY <1>5 DEF Post, cameraVars
  <2> HIDE DEF n
  <2>3. \A i \in 1..(n + 1) : i \in 1..n \/ i = n + 1
    BY <2>1
  <2>4. n + 1 \in 1..(n + 1) /\ \A i \in 1..n : i \in 1..(n + 1) /\ n + 1 > i
    BY <2>1
  <2>5. CASE event \in Size
    <3>1. LastResizeIsSize'
      BY <2>1, <2>2, <2>3, <2>4, <2>5 DEF LastResizeIsSize
    <3>2. ~NoResize'
      BY <2>1, <2>4, <2>5 DEF NoResize
    <3> QED BY <3>1, <3>2 DEF ViewsInv
  <2>6. CASE event \notin Size
    <3>1. LastResizeIsSize'
      BY <2>1, <2>2, <2>3, <2>4, <2>6 DEF LastResizeIsSize, ViewsInv, n
    <3>2. NoResize' => NoResize
      BY <2>1, <2>4 DEF NoResize, n
    <3> QED BY <2>2, <2>6, <3>1, <3>2 DEF ViewsInv, Fitted
  <2> QED BY <2>5, <2>6
<1> QED
  BY <1>1, <1>2, <1>3, <1>4, <1>5, LoopSteps
  DEF GameStep, LoadAssets, OpenScripts, OnInitReturns, BeginFrame, EndLoop, Destroy, ReturnStep,
      Stop, CloseWindow, appVars, windowVars, cameraVars

-----------------------------------------------------------------------------
(***************************************************************************)
(* The theorems.                                                           *)
(***************************************************************************)

LoopInv == ListenersInv /\ AppTypeOK /\ ScriptsInv /\ ViewsInv

LEMMA LoopInvariant == LoopSpec => []LoopInv
<1>1. LoopInit => LoopInv
  <2>1. LoopInit => AppTypeOK
    <3>1. <<>> \in Seq(Size \union {"closed", "key"})
      OBVIOUS
    <3>2. 0 \in 0..MaxPosts /\ VideoMode \in Size
      BY SizeAssumption
    <3> QED BY <3>1, <3>2 DEF LoopInit, AppInit, AppTypeOK, Phases
  <2>2. LoopInit => ScriptsInv
    BY DEF LoopInit, AppInit, ScriptsInv, LoopPhases
  <2> QED BY <2>1, <2>2, ListenersInit, ViewsInit DEF LoopInv
<1>2. LoopInv /\ [LoopNext]_loopVars => LoopInv'
  BY ListenersInvStep, AppTypesStep, ScriptsStep, ViewsStep DEF LoopInv
<1> QED BY <1>1, <1>2, PTL DEF LoopSpec

\* The state of the loop and of the listeners keeps its types, the vector of
\* listeners holds none twice, and no event is dispatched outside of onEvent.
THEOREM TypeCorrect == LoopSpec => []LoopTypeOK
<1>1. LoopInv => LoopTypeOK
  BY DEF LoopInv, ListenersInv, DispatchInEvent, LoopTypeOK
<1> QED BY <1>1, LoopInvariant, PTL

\* The main loop is an environment of the listeners: what they do in it they may
\* do by themselves.
THEOREM LoopImplementsListeners == LoopSpec => Spec
<1>1. LoopInit => Init
  BY DEF LoopInit
<1>2. [LoopNext]_loopVars => [Next]_vars
  BY LoopTakesListenerSteps DEF loopVars
<1> QED BY <1>1, <1>2, PTL DEF LoopSpec, Spec

\* Who listens is who was last asked to, in whatever order components are created,
\* told and deleted, in the callbacks of the dispatch too.
THEOREM ListenersAreThoseAsked == LoopSpec => []ListensAsAsked
<1>1. LoopInv => ListensAsAsked
  BY DEF LoopInv, ListenersInv
<1> QED BY <1>1, LoopInvariant, PTL

\* An event that nobody consumes reaches every listener.
THEOREM DispatchIsComplete == LoopSpec => EveryListenerIsAsked
<1>1. LoopInv /\ [LoopNext]_loopVars =>
        [at # 0 /\ at' = 0 /\ "inCallback" \notin taken => due' = {}]_vars
  BY LoopTakesListenerSteps, DispatchEnds DEF LoopInv, ListenersInv, loopVars
<1> QED BY <1>1, LoopInvariant, PTL DEF LoopSpec, EveryListenerIsAsked

\* The machine of the scripts is closed once, however the program ends.
THEOREM ScriptsAreClosedOnce == LoopSpec => []ScriptsCloseOnce
<1>1. LoopInv => ScriptsCloseOnce
  BY DEF LoopInv, ScriptsInv, ScriptsCloseOnce
<1> QED BY <1>1, LoopInvariant, PTL

\* When no resize is left to handle, the views are those of the window.
THEOREM ViewsFit == LoopSpec => []ViewsFitTheWindow
<1>1. LoopInv => ViewsFitTheWindow
  <2> SUFFICES ASSUME LoopInv, ToSet(queue) \intersect Size = {} PROVE Fitted
    BY DEF ViewsFitTheWindow, Fitted
  <2>1. DOMAIN queue = 1..Len(queue)
    BY DEF LoopInv, AppTypeOK
  <2>2. NoResize
    BY <2>1 DEF NoResize, ToSet
  <2> QED BY <2>2 DEF LoopInv, ViewsInv
<1> QED BY <1>1, LoopInvariant, PTL

-----------------------------------------------------------------------------
(***************************************************************************)
(* The steps of the zn::TimeStepper keep to the range of the time delta,   *)
(* and its accumulator to what is less than a step, for every unit, range, *)
(* frame rate and duration of the frames.                                  *)
(***************************************************************************)

\* The types of the numbers that the lengths of the steps depend on.
NumbersOK ==
  /\ fps \in Nat /\ recorded \in Nat /\ stored \in Nat /\ rest \in Nat
  /\ raw \in Nat

TimeInv == NumbersOK /\ StepInRange /\ AccumulatorSpent

\* A whole number of milliseconds of a time is not longer than the time, and
\* the longest step lasts at least one.
LEMMA MsBounds ==
  ASSUME NEW t \in Nat
  PROVE  Ms(t) \in Nat /\ Milli * Ms(t) <= t /\ (Milli <= t => Ms(t) # 0)
<1>1. Milli \in Nat \ {0}
  BY TimeAssumption
<1> QED
  BY <1>1 DEF Ms

\* The remainder of a time, in whole milliseconds, by the longest step is
\* shorter than that step.
LEMMA RemainderIsShort ==
  ASSUME NEW t \in Nat
  PROVE  /\ Milli * (Ms(t) % Ms(MaxDelta)) \in Nat
         /\ Milli * (Ms(t) % Ms(MaxDelta)) < MaxDelta
<1>1. Milli \in Nat \ {0} /\ MaxDelta \in Nat /\ Milli <= MaxDelta
  BY TimeAssumption
<1>2. /\ Ms(t) \in Nat /\ Ms(MaxDelta) \in Nat \ {0}
      /\ Milli * Ms(MaxDelta) <= MaxDelta
  BY <1>1, MsBounds
<1>3. Ms(t) % Ms(MaxDelta) \in 0..(Ms(MaxDelta) - 1)
  BY <1>2
<1>4. \A r, m, k \in Nat : k # 0 /\ r < m => k * r \in Nat /\ k * r < k * m
  OBVIOUS
<1> QED
  BY <1>1, <1>2, <1>3, <1>4

\* A frame adds a time to the accumulator.
LEMMA DeltaIsTime ==
  ASSUME NumbersOK
  PROVE  Delta \in Nat
<1>1. Milli \in Nat /\ SecondMs \in Nat
  BY TimeAssumption
<1>2. CASE recorded = 0
  BY <1>2 DEF Delta, NumbersOK
<1>3. CASE recorded # 0
  <2>1. SecondMs \div recorded \in Nat
    BY <1>1, <1>3 DEF NumbersOK
  <2> QED
    BY <1>1, <1>3, <2>1 DEF Delta
<1> QED
  BY <1>2, <1>3

LEMMA SpendInRange ==
  ASSUME NumbersOK, NEW total \in Nat, Spend(total)
  PROVE  /\ stored' \in Nat /\ rest' \in Nat
         /\ StepInRange' /\ AccumulatorSpent'
<1>1. MinDelta \in Nat /\ MaxDelta \in Nat
  BY TimeAssumption
<1> DEFINE remainder == Milli * (Ms(total) % Ms(MaxDelta))
<1>2. remainder \in Nat /\ remainder < MaxDelta
  BY RemainderIsShort
<1>3. IF remainder > MinDelta
        THEN rest' = remainder /\ stored' = 0
        ELSE rest' = 0 /\ stored' = remainder
  BY DEF Spend
<1> HIDE DEF remainder
<1> QED
  BY <1>1, <1>2, <1>3 DEF StepInRange, AccumulatorSpent

LEMMA InitTimeInv == TimeInit => TimeInv
  BY TimeAssumption
  DEF TimeInit, TimeInv, NumbersOK, StepInRange, AccumulatorSpent

LEMMA StepTimeInv == TimeInv /\ [TimeNext]_timeVars => TimeInv'
<1> SUFFICES ASSUME TimeInv, [TimeNext]_timeVars PROVE TimeInv'
  OBVIOUS
<1> USE DEF TimeInv
<1>1. CASE OnBeginFrame
  BY <1>1 DEF OnBeginFrame, NumbersOK, StepInRange, AccumulatorSpent
<1>2. CASE CallSteps
  <2>1. stored + Delta \in Nat /\ MinDelta \in Nat
    BY DeltaIsTime, TimeAssumption DEF NumbersOK
  <2>2. CASE stored + Delta >= MinDelta
    <3>1. Spend(stored + Delta)
      BY <1>2, <2>2 DEF CallSteps
    <3> QED
      BY <1>2, <2>1, <3>1, SpendInRange DEF CallSteps, NumbersOK
  <2>3. CASE ~(stored + Delta >= MinDelta)
    BY <1>2, <2>1, <2>3
    DEF CallSteps, NumbersOK, StepInRange, AccumulatorSpent
  <2> QED
    BY <2>2, <2>3
<1>3. ASSUME NEW d \in FrameTimes, OnEndFrame(d) PROVE TimeInv'
  BY <1>3, TimeAssumption
  DEF OnEndFrame, NumbersOK, StepInRange, AccumulatorSpent
<1>4. CASE UNCHANGED timeVars
  BY <1>4 DEF timeVars, NumbersOK, StepInRange, AccumulatorSpent
<1> QED
  BY <1>1, <1>2, <1>3, <1>4 DEF TimeNext

\* Every step of the scene has a length in the range given to setDeltaRange.
THEOREM StepsInRange == TimeSpec => []StepInRange
<1>1. TimeInv => StepInRange
  BY DEF TimeInv
<1> QED
  BY InitTimeInv, StepTimeInv, <1>1, PTL DEF TimeSpec

\* What is left unspent never makes a step, so that the accumulator does not
\* grow from frame to frame.
THEOREM AccumulatorIsSpent == TimeSpec => []AccumulatorSpent
<1>1. TimeInv => AccumulatorSpent
  BY DEF TimeInv
<1> QED
  BY InitTimeInv, StepTimeInv, <1>1, PTL DEF TimeSpec

-----------------------------------------------------------------------------
(***************************************************************************)
(* The pace of the game.                                                   *)
(***************************************************************************)

\* Division.
LEMMA DivisionAtLeast ==
  ASSUME NEW x \in Nat, NEW k \in Nat \ {0}, NEW m \in Nat, k * m <= x
  PROVE  m <= x \div k
OBVIOUS

LEMMA MsOfWhole ==
  ASSUME NEW s \in Nat
  PROVE  Ms(Milli * s) = s
<1>1. Milli \in Nat \ {0}
  BY TimeAssumption
<1>2. \A k \in Nat \ {0} : (k * s) \div k = s
  OBVIOUS
<1> QED BY <1>1, <1>2 DEF Ms

LEMMA TimeNumbers ==
  /\ Milli \in Nat \ {0} /\ SecondMs \in Nat \ {0} /\ Longest \in Nat
  /\ MinDelta \in Nat \ {0} /\ MaxDelta \in Nat \ {0}
  /\ Second \in Nat \ {0} /\ Second = Milli * SecondMs
  /\ Ms(MaxDelta) \in Nat \ {0} /\ Milli * Ms(MaxDelta) <= MaxDelta
  /\ Ms(MinDelta) \in Nat /\ MinDelta < Milli * (Ms(MinDelta) + 1)
  /\ \A d \in FrameTimes : d \in Nat \ {0} /\ d <= Longest
  /\ Standstill = 2 * (Second + Longest)
<1>1. /\ Milli \in Nat \ {0} /\ SecondMs \in Nat \ {0} /\ Longest \in Nat
      /\ MinDelta \in Nat \ {0} /\ MaxDelta \in Nat \ {0} /\ Milli <= MaxDelta
  BY TimeAssumption
<1>2. Ms(MaxDelta) \in Nat \ {0} /\ Milli * Ms(MaxDelta) <= MaxDelta /\ Ms(MinDelta) \in Nat
  BY <1>1, MsBounds
<1>3. MinDelta < Milli * (Ms(MinDelta) + 1)
  <2>1. \A x \in Nat, w \in Nat \ {0} : x < w * ((x \div w) + 1)
    OBVIOUS
  <2> QED BY <1>1, <2>1 DEF Ms
<1>4. Second = Milli * SecondMs
  BY DEF Second
<1>5. Second \in Nat \ {0}
  BY <1>1, <1>4
<1>6. \A d \in FrameTimes : d \in Nat \ {0} /\ d <= Longest
  BY TimeAssumption
<1> QED BY <1>1, <1>2, <1>3, <1>4, <1>5, <1>6 DEF Standstill

\* The larger and the smaller of two numbers.
LEMMA Larger ==
  ASSUME NEW a \in Int, NEW b \in Int
  PROVE  Max({a, b}) = IF a >= b THEN a ELSE b
<1> DEFINE m == IF a >= b THEN a ELSE b
           P(x) == x \in {a, b} /\ \A y \in {a, b} : x >= y
<1>1. P(m)
  OBVIOUS
<1>2. \A x : P(x) => x = m
  OBVIOUS
<1>3. Max({a, b}) = CHOOSE x \in {a, b} : \A y \in {a, b} : x >= y
  BY DEF Max
<1>4. P(Max({a, b}))
  <2> HIDE DEF m
  <2> QED BY <1>1, <1>3
<1> QED BY <1>2, <1>4

LEMMA Smaller ==
  ASSUME NEW a \in Int, NEW b \in Int
  PROVE  Min({a, b}) = IF a <= b THEN a ELSE b
<1> DEFINE m == IF a <= b THEN a ELSE b
           P(x) == x \in {a, b} /\ \A y \in {a, b} : x <= y
<1>1. P(m)
  OBVIOUS
<1>2. \A x : P(x) => x = m
  OBVIOUS
<1>3. Min({a, b}) = CHOOSE x \in {a, b} : \A y \in {a, b} : x <= y
  BY DEF Min
<1>4. P(Min({a, b}))
  <2> HIDE DEF m
  <2> QED BY <1>1, <1>3
<1> QED BY <1>2, <1>4

\* Full steps, with a remainder, against the milliseconds they take.
LEMMA GameTimeBound ==
  ASSUME NEW M \in Nat, NEW f \in Nat, NEW r \in Nat, NEW k \in Nat, NEW X \in Nat,
         k * M <= X
  PROVE  (f * X + k * r) * (k * M) <= X * (k * (M * f + r))
<1> DEFINE K == k * M
<1>1. K \in Nat /\ K <= X
  OBVIOUS
<1>2. (f * X + k * r) * K = X * (K * f) + (k * r) * K
  OBVIOUS
<1>3. k * r \in Nat
  OBVIOUS
<1>4. (k * r) * K <= (k * r) * X
  BY <1>1, <1>3
<1>5. X * (k * (M * f + r)) = X * (K * f) + (k * r) * X
  OBVIOUS
<1> QED BY <1>1, <1>2, <1>4, <1>5

\* The whole milliseconds that a frame adds.
DeltaMs == SecondMs \div recorded

\* What callSteps makes of an accumulator of s whole milliseconds and n more: steps,
\* or all of it is kept; and the steps, with what is kept, are no longer than what
\* was there, a full step counting for what it takes.
LEMMA CallStepsIs ==
  ASSUME NumbersOK, recorded # 0, NEW s \in Nat, stored = Milli * s, CallSteps,
         NEW n, n = DeltaMs
  PROVE  /\ n \in Nat /\ full' \in Nat /\ rest' \in Nat
         /\ \E k \in Nat : stored' = Milli * k
         /\ Stepped' \in Nat
         /\ Stepped' # 0 \/ (stored' = Milli * (s + n) /\ Milli * (s + n) <= MinDelta)
         /\ Stepped' * (Milli * Ms(MaxDelta)) + stored' * MaxDelta
              <= MaxDelta * (Milli * (s + n))
<1>1. n \in Nat
  BY TimeNumbers DEF NumbersOK, DeltaMs
<1> DEFINE t == s + n
           total == Milli * t
           M == Ms(MaxDelta)
<1>2. t \in Nat /\ total \in Nat /\ stored + Delta = total
  <2>1. Delta = Milli * n
    BY DEF Delta, DeltaMs
  <2>2. \A k, a, b \in Nat : k * (a + b) \in Nat /\ k * a + k * b = k * (a + b)
    OBVIOUS
  <2> QED BY <1>1, <2>1, <2>2, TimeNumbers
<1>3. Ms(total) = t
  BY <1>2, MsOfWhole
<1>4. M \in Nat \ {0} /\ Milli \in Nat \ {0} /\ MaxDelta \in Nat \ {0} /\ MinDelta \in Nat \ {0}
      /\ Milli * M <= MaxDelta
  BY TimeNumbers
<1>5. Stepped' = full' * MaxDelta + rest'
  BY DEF Stepped
<1> HIDE DEF t, total, M
<1>6. CASE total >= MinDelta
  <2>0. Spend(total)
    BY <1>2, <1>6 DEF CallSteps
  <2>1. PICK f, r : f = t \div M /\ r = t % M
    OBVIOUS
  <2>2. f \in Nat /\ r \in Nat /\ r < M /\ t = M * f + r
    <3>1. PICK x \in Nat, w \in Nat \ {0} : x = t /\ w = M
      BY <1>2, <1>4
    <3>2. f = x \div w /\ r = x % w
      BY <2>1, <3>1
    <3>3. f \in Nat /\ r \in Nat /\ r < w
      BY <3>2
    <3>4. x = w * f + r
      BY <3>2, <3>3
    <3> QED BY <3>1, <3>3, <3>4
  <2>3. PICK remainder : remainder = Milli * r
    OBVIOUS
  <2>4. /\ full' = f
        /\ IF remainder > MinDelta
             THEN rest' = remainder /\ stored' = 0
             ELSE rest' = 0 /\ stored' = remainder
    BY <1>3, <2>0, <2>1, <2>3 DEF Spend, M
  <2>5. remainder \in Nat
    BY <1>4, <2>2, <2>3
  <2>6. \E k \in Nat : stored' = Milli * k
    <3>1. Milli * 0 = 0
      BY <1>4
    <3> QED BY <2>2, <2>3, <2>4, <3>1
  <2>7. f * MaxDelta \in Nat /\ (f = 0 \/ f * MaxDelta # 0)
    BY <1>4, <2>2
  <2>8. full' \in Nat /\ rest' \in Nat /\ Stepped' \in Nat
    BY <1>5, <2>2, <2>4, <2>5, <2>7
  <2>9. Stepped' # 0 \/ (stored' = total /\ total <= MinDelta)
    <3> SUFFICES ASSUME Stepped' = 0 PROVE stored' = total /\ total <= MinDelta
      OBVIOUS
    <3>1. f = 0 /\ rest' = 0
      BY <1>5, <2>4, <2>5, <2>7
    <3>2. remainder <= MinDelta /\ stored' = remainder
      BY <1>4, <2>4, <2>5, <3>1
    <3>3. t = r
      BY <1>4, <2>2, <3>1
    <3> QED BY <2>3, <3>2, <3>3 DEF total
  <2>10. (f * MaxDelta + remainder) * (Milli * M) <= MaxDelta * total
    BY <1>4, <2>2, <2>3, GameTimeBound DEF total
  <2>11. (f * MaxDelta) * (Milli * M) + remainder * MaxDelta <= MaxDelta * total
    <3>1. (f * MaxDelta) * (Milli * M) + (Milli * r) * MaxDelta = MaxDelta * (Milli * (M * f + r))
      BY <1>4, <2>2
    <3>2. MaxDelta * total \in Nat
      BY <1>2, <1>4
    <3> QED BY <2>2, <2>3, <3>1, <3>2 DEF total
  <2>12. Stepped' * (Milli * M) + stored' * MaxDelta <= MaxDelta * total
    <3>1. CASE remainder > MinDelta
      <4>1. Stepped' = f * MaxDelta + remainder /\ stored' = 0
        BY <1>5, <2>4, <3>1
      <4>2. stored' * MaxDelta = 0 /\ Stepped' * (Milli * M) \in Nat
        BY <1>4, <2>8, <4>1
      <4> QED BY <2>10, <4>1, <4>2
    <3>2. CASE ~(remainder > MinDelta)
      <4>1. Stepped' = f * MaxDelta /\ stored' = remainder
        BY <1>5, <2>4, <2>7, <3>2
      <4> QED BY <2>11, <4>1
    <3> QED BY <3>1, <3>2
  <2> QED BY <1>1, <2>6, <2>8, <2>9, <2>12 DEF M, total, t
<1>7. CASE ~(total >= MinDelta)
  <2>1. full' = 0 /\ rest' = 0 /\ stored' = total
    BY <1>2, <1>7 DEF CallSteps
  <2>2. Stepped' = 0
    BY <1>4, <1>5, <2>1
  <2>3. Stepped' * (Milli * M) + stored' * MaxDelta = MaxDelta * total
    BY <1>2, <1>4, <2>1, <2>2
  <2>4. total <= MinDelta /\ MaxDelta * total \in Nat
    BY <1>2, <1>4, <1>7
  <2> QED BY <1>1, <1>2, <2>1, <2>2, <2>3, <2>4 DEF M, total, t
<1> QED BY <1>6, <1>7

\* The numbers of a frame, and what every state says of them: the accumulator holds
\* whole milliseconds, and some frame has been counted when time has passed.
FrameNumbers ==
  /\ pc \in {"begin", "step", "end"}
  /\ sinceFPS \in Nat /\ full \in Nat /\ still \in Nat
  /\ steady \in BOOLEAN /\ ahead \in Nat
  /\ recorded # 0
  /\ \E s \in Nat : stored = Milli * s
  /\ pc = "begin" => sinceFPS = 0 \/ fps # 0
  /\ pc # "begin" => fps # 0

LEMMA SteppedType == NumbersOK /\ FrameNumbers => Stepped \in Nat
<1>1. \A a, b, c \in Nat : a * b + c \in Nat
  OBVIOUS
<1> QED BY <1>1, TimeNumbers DEF NumbersOK, FrameNumbers, Stepped

\* The surplus after a frame.
LEMMA SurplusIs ==
  ASSUME NumbersOK, FrameNumbers, NEW d \in FrameTimes, OnEndFrame(d)
  PROVE  /\ ahead' \in Nat
         /\ ahead' = 0 \/ (steady' /\ ahead' <= (ahead + Stepped) - d)
<1>1. Stepped \in Nat /\ ahead \in Nat /\ d \in Nat /\ MaxDelta + 1 \in Nat
  BY SteppedType, TimeNumbers DEF FrameNumbers
<1>2. PICK a \in Int : a = ahead + Stepped - d
  BY <1>1
<1>3. ahead' = IF steady' THEN Min({MaxDelta + 1, Max({0, a})}) ELSE 0
  BY <1>2 DEF OnEndFrame
<1>4. Max({0, a}) = IF 0 >= a THEN 0 ELSE a
  BY <1>2, Larger
<1>5. PICK b \in Int : b = IF 0 >= a THEN 0 ELSE a
  BY <1>2
<1>6. Min({MaxDelta + 1, b}) = IF MaxDelta + 1 <= b THEN MaxDelta + 1 ELSE b
  BY <1>1, <1>5, Smaller
<1>7. ahead' = IF steady' THEN (IF MaxDelta + 1 <= b THEN MaxDelta + 1 ELSE b) ELSE 0
  BY <1>3, <1>4, <1>5, <1>6
<1> QED BY <1>1, <1>2, <1>5, <1>7

\* The time since the last step after a frame.
LEMMA StillIs ==
  ASSUME NumbersOK, FrameNumbers, NEW d \in FrameTimes, OnEndFrame(d)
  PROVE  /\ still' \in Nat
         /\ Stepped # 0 => still' = 0
         /\ still' <= still + d
<1>1. Stepped \in Nat /\ still \in Nat /\ d \in Nat /\ Standstill + 1 \in Nat
  BY SteppedType, TimeNumbers DEF FrameNumbers
<1>2. still' = IF Stepped > 0 THEN 0 ELSE Min({Standstill + 1, still + d})
  BY DEF OnEndFrame
<1>3. PICK b \in Int : b = still + d
  BY <1>1
<1>4. Min({Standstill + 1, b}) = IF Standstill + 1 <= b THEN Standstill + 1 ELSE b
  BY <1>1, <1>3, Smaller
<1> QED BY <1>1, <1>2, <1>3, <1>4

LEMMA InitFrameNumbers ==
  ASSUME StartFPS # 0
  PROVE  TimeInit => FrameNumbers
<1>1. 0 = Milli * 0
  BY TimeNumbers
<1> QED BY <1>1 DEF TimeInit, FrameNumbers

LEMMA StepFrameNumbers == TimeInv /\ FrameNumbers /\ [TimeNext]_timeVars => FrameNumbers'
<1> SUFFICES ASSUME TimeInv, FrameNumbers, [TimeNext]_timeVars PROVE FrameNumbers'
  OBVIOUS
<1>0. NumbersOK
  BY DEF TimeInv
<1>1. CASE OnBeginFrame
  <2>1. fps' # 0 /\ fps \in Nat /\ pc = "begin"
    BY <1>0, <1>1 DEF OnBeginFrame, NumbersOK
  <2>2. recorded' # 0
    <3>1. CASE sinceFPS > Second
      <4>1. sinceFPS # 0 /\ recorded' = fps
        BY <1>1, <3>1, TimeNumbers DEF OnBeginFrame, FrameNumbers
      <4> QED BY <2>1, <4>1 DEF FrameNumbers
    <3>2. CASE ~(sinceFPS > Second)
      BY <1>1, <3>2 DEF OnBeginFrame, FrameNumbers
    <3> QED BY <3>1, <3>2
  <2>3. sinceFPS' \in Nat /\ pc' = "step" /\ UNCHANGED <<full, still, steady, ahead, stored>>
    BY <1>1 DEF OnBeginFrame, FrameNumbers
  <2> QED BY <2>1, <2>2, <2>3 DEF FrameNumbers
<1>2. CASE CallSteps
  <2>1. PICK s \in Nat : stored = Milli * s
    BY DEF FrameNumbers
  <2>2. full' \in Nat /\ \E k \in Nat : stored' = Milli * k
    BY <1>0, <1>2, <2>1, CallStepsIs DEF FrameNumbers
  <2>3. /\ pc = "step" /\ pc' = "end"
        /\ UNCHANGED <<sinceFPS, fps, recorded, steady, ahead, still>>
    BY <1>2 DEF CallSteps
  <2> QED BY <2>2, <2>3 DEF FrameNumbers
<1>3. ASSUME NEW d \in FrameTimes, OnEndFrame(d) PROVE FrameNumbers'
  <2>1. still' \in Nat /\ ahead' \in Nat
    BY <1>0, <1>3, StillIs, SurplusIs
  <2>2. /\ pc = "end" /\ pc' = "begin" /\ sinceFPS' = sinceFPS + d /\ d \in Nat
        /\ UNCHANGED <<fps, recorded, full, stored>>
        /\ steady' \in BOOLEAN
    BY <1>3, TimeNumbers DEF OnEndFrame
  <2> QED BY <2>1, <2>2 DEF FrameNumbers
<1>4. CASE UNCHANGED timeVars
  BY <1>4 DEF timeVars, FrameNumbers
<1> QED BY <1>1, <1>2, <1>3, <1>4 DEF TimeNext

\* The frames counted in the interval that are over.
Over == IF pc = "begin" THEN fps ELSE fps - 1

\* Every frame lasts more than a millisecond, so that the rate is at most that of
\* the milliseconds in a second.
RateInv ==
  /\ recorded \in 1..SecondMs /\ fps <= SecondMs
  /\ Over * (Milli + 1) <= sinceFPS
  /\ sinceFPS <= IF pc = "begin" THEN Second + Longest ELSE Second

\* No step was called in the frames that are over of this interval, each of which
\* has left a millisecond at least.
NoStepIn(frames) == still <= sinceFPS + (Second + Longest) /\ Milli * frames <= stored

\* Since the last step the interval has not changed, or it has once and no step has
\* been called in this one, or it has twice and the rate that was measured is such
\* that the next frame steps.
StillInv ==
  /\ still <= Standstill
  /\ \/ still <= sinceFPS
     \/ NoStepIn(IF pc = "end" THEN fps ELSE Over)
     \/ pc = "step" /\ Milli * recorded <= MinDelta
     \/ pc = "end" /\ Stepped # 0

\* A rate of few frames makes the first of them step.
LEMMA FewFramesStep ==
  ASSUME FramesAreFew, recorded \in 1..SecondMs, Milli * recorded <= MinDelta
  PROVE  \A s \in Nat : Milli * (s + DeltaMs) > MinDelta
<1> DEFINE q == Ms(MinDelta)
<1>1. q \in Nat /\ Milli \in Nat \ {0} /\ SecondMs \in Nat /\ MinDelta < Milli * (q + 1)
      /\ MinDelta \in Nat
  BY TimeNumbers
<1>2. q * (q + 1) <= SecondMs
  BY DEF FramesAreFew
<1>3. recorded \in Nat \ {0}
  BY <1>1
<1> HIDE DEF q
<1>4. recorded <= q
  <2>1. Milli * recorded < Milli * (q + 1)
    <3>1. Milli * recorded \in Nat /\ Milli * (q + 1) \in Nat
      BY <1>1, <1>3
    <3> QED BY <1>1, <3>1
  <2>2. \A a, b, k \in Nat : k # 0 /\ k * a < k * (b + 1) => a <= b
    OBVIOUS
  <2> QED BY <1>1, <1>3, <2>1, <2>2
<1>5. recorded * (q + 1) <= SecondMs
  <2>1. \A a, b, c \in Nat : a <= b => a * c <= b * c /\ a * c \in Nat /\ b * c \in Nat
    OBVIOUS
  <2>2. recorded * (q + 1) <= q * (q + 1) /\ recorded * (q + 1) \in Nat /\ q * (q + 1) \in Nat
    BY <1>1, <1>3, <1>4, <2>1
  <2> QED BY <1>1, <1>2, <2>2
<1>6. PICK k \in Nat \ {0}, m \in Nat : k = recorded /\ m = q + 1
  BY <1>1, <1>3
<1>7. m <= SecondMs \div k
  BY <1>1, <1>5, <1>6
<1>8. DeltaMs \in Nat /\ q + 1 <= DeltaMs
  BY <1>1, <1>6, <1>7 DEF DeltaMs
<1>9. \A a, b, c \in Nat : a <= b => c * a <= c * b /\ c * a \in Nat /\ c * b \in Nat
  OBVIOUS
<1> SUFFICES ASSUME NEW s \in Nat PROVE Milli * (s + DeltaMs) > MinDelta
  OBVIOUS
<1>10. q + 1 \in Nat /\ s + DeltaMs \in Nat /\ q + 1 <= s + DeltaMs
  BY <1>1, <1>8
<1>11. /\ Milli * (q + 1) <= Milli * (s + DeltaMs)
       /\ Milli * (q + 1) \in Nat /\ Milli * (s + DeltaMs) \in Nat
  BY <1>1, <1>9, <1>10
<1> QED BY <1>1, <1>11

\* A rate of at most that of the milliseconds makes a frame a millisecond at least.
LEMMA DeltaIsPositive ==
  ASSUME recorded \in 1..SecondMs
  PROVE  DeltaMs \in Nat \ {0}
<1>1. SecondMs \in Nat \ {0}
  BY TimeNumbers
<1>2. PICK k \in Nat \ {0} : k = recorded /\ k <= SecondMs
  BY <1>1
<1>3. SecondMs \div k \in Nat /\ 1 <= SecondMs \div k
  BY <1>1, <1>2
<1> QED BY <1>2, <1>3 DEF DeltaMs

LEMMA StepRateInv ==
  ASSUME FramesAreFew, NumbersOK, FrameNumbers, RateInv, [TimeNext]_timeVars
  PROVE  RateInv'
<1>0. /\ SecondMs \in Nat \ {0} /\ Milli \in Nat \ {0} /\ Second = Milli * SecondMs
      /\ Second \in Nat /\ Longest \in Nat
      /\ fps \in Nat /\ sinceFPS \in Nat
  BY TimeNumbers DEF NumbersOK, FrameNumbers
<1>1. CASE OnBeginFrame
  <2>0. pc = "begin" /\ pc' = "step" /\ Over = fps
    BY <1>1 DEF OnBeginFrame, Over
  <2>1. CASE sinceFPS > Second
    <3>1. sinceFPS' = 0 /\ recorded' = fps /\ fps' = 1
      BY <1>1, <2>1 DEF OnBeginFrame
    <3>2. fps # 0
      BY <1>0, <2>0, <2>1 DEF FrameNumbers
    <3>3. Over' = 0
      BY <2>0, <3>1 DEF Over
    <3>4. 0 * (Milli + 1) = 0
      BY <1>0
    <3> QED BY <1>0, <2>0, <3>1, <3>2, <3>3, <3>4 DEF RateInv
  <2>2. CASE ~(sinceFPS > Second)
    <3>1. sinceFPS' = sinceFPS /\ recorded' = recorded /\ fps' = fps + 1
      BY <1>1, <2>2 DEF OnBeginFrame
    <3>2. Over' = fps
      BY <1>0, <2>0, <3>1 DEF Over
    <3>3. fps * (Milli + 1) <= Second
      <4>1. fps * (Milli + 1) <= sinceFPS /\ sinceFPS <= Second
        BY <1>0, <2>0, <2>2 DEF RateInv
      <4>2. fps * (Milli + 1) \in Nat
        BY <1>0
      <4> QED BY <1>0, <4>1, <4>2
    <3>4. fps < SecondMs
      <4>1. \A f, m, k \in Nat : m # 0 /\ f * (k + 1) <= k * m => f < m
        OBVIOUS
      <4> QED BY <1>0, <3>3, <4>1
    <3> QED BY <1>0, <2>0, <2>2, <3>1, <3>2, <3>4 DEF RateInv
  <2> QED BY <2>1, <2>2
<1>2. CASE CallSteps
  <2>1. pc = "step" /\ pc' = "end" /\ UNCHANGED <<recorded, fps, sinceFPS>>
    BY <1>2 DEF CallSteps
  <2>2. Over' = Over
    BY <2>1 DEF Over
  <2> QED BY <2>1, <2>2 DEF RateInv
<1>3. ASSUME NEW d \in FrameTimes, OnEndFrame(d) PROVE RateInv'
  <2>1. /\ pc = "end" /\ pc' = "begin" /\ UNCHANGED <<recorded, fps>>
        /\ sinceFPS' = sinceFPS + d
    BY <1>3 DEF OnEndFrame
  <2>2. d \in Nat /\ d <= Longest /\ Milli + 1 <= d
    BY <1>0, TimeNumbers DEF FramesAreFew
  <2>3. Over' = fps /\ Over = fps - 1 /\ fps - 1 \in Nat
    BY <1>0, <2>1 DEF Over, FrameNumbers
  <2>4. PICK o \in Nat : o = fps - 1
    BY <2>3
  <2>5. o * (Milli + 1) <= sinceFPS /\ sinceFPS <= Second
    BY <2>1, <2>3, <2>4 DEF RateInv
  <2>6. (o + 1) * (Milli + 1) = o * (Milli + 1) + (Milli + 1) /\ o * (Milli + 1) \in Nat
    BY <1>0
  <2>7. fps * (Milli + 1) <= sinceFPS + d
    <3>1. fps = o + 1
      BY <1>0, <2>4
    <3> QED BY <1>0, <2>2, <2>5, <2>6, <3>1
  <2> QED BY <1>0, <2>1, <2>2, <2>3, <2>5, <2>7 DEF RateInv
<1>4. CASE UNCHANGED timeVars
  BY <1>4 DEF timeVars, RateInv, Over
<1> QED BY <1>1, <1>2, <1>3, <1>4 DEF TimeNext

LEMMA StepStillInv ==
  ASSUME FramesAreFew, TimeInv, FrameNumbers, RateInv, StillInv, [TimeNext]_timeVars
  PROVE  StillInv'
<1>0. /\ Milli \in Nat \ {0} /\ Second \in Nat /\ Longest \in Nat /\ MinDelta \in Nat
      /\ fps \in Nat /\ sinceFPS \in Nat /\ still \in Nat /\ stored \in Nat
      /\ Standstill = 2 * (Second + Longest)
      /\ NumbersOK /\ stored <= MinDelta
  BY TimeNumbers DEF NumbersOK, FrameNumbers, TimeInv, AccumulatorSpent
<1>1. CASE OnBeginFrame
  <2>0. pc = "begin" /\ pc' = "step" /\ Over = fps /\ still' = still /\ stored' = stored
    BY <1>1 DEF OnBeginFrame, Over
  <2>1. still' <= Standstill
    BY <2>0 DEF StillInv
  <2>2. still <= sinceFPS \/ NoStepIn(fps)
    BY <2>0 DEF StillInv
  <2>3. CASE sinceFPS > Second
    <3>1. sinceFPS' = 0 /\ recorded' = fps /\ fps' = 1
      BY <1>1, <2>3 DEF OnBeginFrame
    <3>2. Over' = 0 /\ Milli * 0 = 0
      BY <1>0, <2>0, <3>1 DEF Over
    <3>3. CASE still <= sinceFPS
      <4>1. still <= Second + Longest
        BY <1>0, <2>0, <3>3 DEF RateInv
      <4>2. NoStepIn(Over)'
        BY <1>0, <2>0, <3>1, <3>2, <4>1 DEF NoStepIn
      <4> QED BY <2>0, <2>1, <4>2 DEF StillInv
    <3>4. CASE NoStepIn(fps)
      <4>1. Milli * fps <= stored /\ Milli * fps \in Nat
        BY <1>0, <3>4 DEF NoStepIn
      <4>2. Milli * recorded' <= MinDelta
        BY <1>0, <3>1, <4>1
      <4> QED BY <2>0, <2>1, <4>2 DEF StillInv
    <3> QED BY <2>2, <3>3, <3>4
  <2>4. CASE ~(sinceFPS > Second)
    <3>1. sinceFPS' = sinceFPS /\ fps' = fps + 1
      BY <1>1, <2>4 DEF OnBeginFrame
    <3>2. Over' = fps
      BY <1>0, <2>0, <3>1 DEF Over
    <3>3. still' <= sinceFPS' \/ NoStepIn(Over)'
      BY <2>0, <2>2, <3>1, <3>2 DEF NoStepIn
    <3> QED BY <2>0, <2>1, <3>3 DEF StillInv
  <2> QED BY <2>3, <2>4
<1>2. CASE CallSteps
  <2>1. /\ pc = "step" /\ pc' = "end"
        /\ UNCHANGED <<sinceFPS, fps, recorded, steady, ahead, still>>
    BY <1>2 DEF CallSteps
  <2>2. PICK s \in Nat : stored = Milli * s
    BY DEF FrameNumbers
  <2>3. PICK n \in Nat \ {0} : n = DeltaMs
    BY DeltaIsPositive DEF RateInv
  <2>4. Stepped' # 0 \/ (stored' = Milli * (s + n) /\ Milli * (s + n) <= MinDelta)
    BY <1>0, <1>2, <2>2, <2>3, CallStepsIs DEF FrameNumbers
  <2>5. still' <= Standstill
    BY <2>1 DEF StillInv
  <2>6. CASE Stepped' # 0
    BY <2>1, <2>5, <2>6 DEF StillInv
  <2>7. CASE stored' = Milli * (s + n) /\ Milli * (s + n) <= MinDelta
    <3>1. ~(Milli * recorded <= MinDelta)
      <4> SUFFICES ASSUME Milli * recorded <= MinDelta PROVE FALSE
        OBVIOUS
      <4>1. Milli * (s + n) > MinDelta
        BY <2>2, <2>3, FewFramesStep DEF RateInv
      <4>2. Milli * (s + n) \in Nat
        BY <1>0, <2>2, <2>3
      <4> QED BY <1>0, <2>7, <4>1, <4>2
    <3>2. still <= sinceFPS \/ NoStepIn(Over)
      BY <2>1, <3>1 DEF StillInv
    <3>3. ASSUME NoStepIn(Over) PROVE NoStepIn(fps)'
      <4>1. fps - 1 \in Nat /\ Over = fps - 1
        BY <1>0, <2>1 DEF Over, FrameNumbers
      <4>2. PICK o \in Nat : o = fps - 1 /\ o + 1 = fps
        BY <1>0, <4>1
      <4>3. still <= sinceFPS + (Second + Longest) /\ Milli * o <= Milli * s
        BY <2>2, <3>3, <4>1, <4>2 DEF NoStepIn
      <4>4. \A a, b, c, k \in Nat : c # 0 /\ k * a <= k * b => k * (a + 1) <= k * (b + c)
        <5> SUFFICES ASSUME NEW a \in Nat, NEW b \in Nat, NEW c \in Nat, NEW k \in Nat,
                            c # 0, k * a <= k * b
                     PROVE  k * (a + 1) <= k * (b + c)
          OBVIOUS
        <5>1. k * (a + 1) = k * a + k /\ k * (b + c) = k * b + k * c
          OBVIOUS
        <5>2. k <= k * c /\ k * a \in Nat /\ k * b \in Nat /\ k * c \in Nat
          OBVIOUS
        <5> QED BY <5>1, <5>2
      <4>5. Milli * (o + 1) <= Milli * (s + n)
        BY <1>0, <4>3, <4>4
      <4> QED BY <2>1, <2>7, <4>2, <4>3, <4>5 DEF NoStepIn
    <3>4. still' <= sinceFPS' \/ NoStepIn(fps)'
      BY <2>1, <3>2, <3>3
    <3> QED BY <2>1, <2>5, <3>4 DEF StillInv
  <2> QED BY <2>4, <2>6, <2>7
<1>3. ASSUME NEW d \in FrameTimes, OnEndFrame(d) PROVE StillInv'
  <2>1. /\ pc = "end" /\ pc' = "begin" /\ UNCHANGED <<recorded, fps, stored>>
        /\ sinceFPS' = sinceFPS + d /\ Over' = fps
    BY <1>3 DEF OnEndFrame, Over
  <2>2. d \in Nat /\ d <= Longest /\ sinceFPS <= Second
    BY <2>1, TimeNumbers DEF RateInv
  <2>3. /\ still' \in Nat /\ still' <= still + d
        /\ Stepped # 0 => still' = 0
    BY <1>0, <1>3, StillIs
  <2>4. still <= sinceFPS \/ NoStepIn(fps) \/ Stepped # 0
    BY <2>1 DEF StillInv
  <2>5. CASE Stepped # 0 \/ still <= sinceFPS
    <3>1. still' <= sinceFPS'
      BY <1>0, <2>1, <2>2, <2>3, <2>5
    <3>2. still' <= Standstill
      BY <1>0, <2>1, <2>2, <2>3, <3>1
    <3> QED BY <3>1, <3>2 DEF StillInv
  <2>6. CASE NoStepIn(fps)
    <3>1. still <= sinceFPS + (Second + Longest) /\ Milli * fps <= stored
      BY <2>6 DEF NoStepIn
    <3>2. still' <= sinceFPS' + (Second + Longest)
      BY <1>0, <2>1, <2>2, <2>3, <3>1
    <3>3. still' <= Standstill
      BY <1>0, <2>1, <2>2, <2>3, <3>2
    <3>4. NoStepIn(Over)'
      BY <2>1, <3>1, <3>2 DEF NoStepIn
    <3> QED BY <2>1, <3>3, <3>4 DEF StillInv
  <2> QED BY <2>4, <2>5, <2>6
<1>4. CASE UNCHANGED timeVars
  BY <1>4 DEF timeVars, StillInv, NoStepIn, Over, Stepped
<1> QED BY <1>1, <1>2, <1>3, <1>4 DEF TimeNext

\* When every frame lasts more than a millisecond, the game never stands still for
\* longer than two intervals of the frame counter, each a second and a frame: what is
\* too short for a step is not lost, and an interval without a step has so few frames
\* that the rate measured over it makes the next frame step (TimeStepper.cpp:34-71).
THEOREM TheGameAdvances ==
  ASSUME FramesAreFew
  PROVE  TimeSpec => []GameAdvances
<1>1. StartFPS \in 1..SecondMs /\ StartFPS # 0
  BY TimeNumbers DEF FramesAreFew
<1>2. TimeInit => RateInv /\ StillInv
  <2>1. 0 * (Milli + 1) = 0
    BY TimeNumbers
  <2> QED BY <1>1, <2>1, TimeNumbers DEF TimeInit, RateInv, StillInv, Over
<1>3. TimeInit => FrameNumbers
  BY <1>1, InitFrameNumbers
<1>4. TimeInv /\ FrameNumbers /\ RateInv /\ StillInv /\ [TimeNext]_timeVars
      => RateInv' /\ StillInv'
  BY StepRateInv, StepStillInv DEF TimeInv
<1>5. StillInv => GameAdvances
  BY DEF StillInv, GameAdvances
<1> QED
  BY <1>2, <1>3, <1>4, <1>5, InitTimeInv, StepTimeInv, StepFrameNumbers, PTL DEF TimeSpec

\* A second of frames no longer than slow.
Even(slow) ==
  /\ slow \in Steady
  /\ \A d \in Steady : d <= slow
  /\ \A k \in 1..SecondMs : k * slow > Second => Fair(k)

\* While frames are steady the interval is not longer than its frames and the rate is
\* fair; what the game has gained and what is accumulated, both counted as the full
\* steps they may become, are at most what may be accumulated.
PaceInv(slow) ==
  LET spent == Milli * Ms(MaxDelta)
  IN  /\ steady => Fair(recorded) /\ sinceFPS <= Over * slow
      /\ pc # "end" => ahead * spent + stored * MaxDelta <= MinDelta * MaxDelta
      /\ pc = "end" => \A d \in Steady : steady =>
           ahead * spent + Stepped * spent + stored * MaxDelta
             <= MinDelta * MaxDelta + d * spent

\* A rate of more frames than there are milliseconds in a second is fair.
LEMMA RateIsFair ==
  ASSUME NEW slow, Even(slow), NEW k \in Nat \ {0}, k * slow > Second
  PROVE  Fair(k)
<1>1. CASE k <= SecondMs
  BY <1>1, TimeNumbers DEF Even
<1>2. CASE k > SecondMs
  <2>1. SecondMs \div k = 0
    BY <1>2, TimeNumbers
  <2>2. ASSUME NEW d \in Steady PROVE 0 * MaxDelta <= d * Ms(MaxDelta)
    <3>1. d \in Nat
      BY TimeAssumption, TimeNumbers
    <3>2. \A a, b, c \in Nat : 0 * a <= b * c
      OBVIOUS
    <3> QED BY <3>1, <3>2, TimeNumbers
  <2> QED BY <2>1, <2>2 DEF Fair
<1> QED BY <1>1, <1>2, TimeNumbers

LEMMA StepPaceInv ==
  ASSUME NEW slow, Even(slow), TimeInv, FrameNumbers, PaceInv(slow), [TimeNext]_timeVars
  PROVE  PaceInv(slow)'
<1> DEFINE spent == Milli * Ms(MaxDelta)
<1>0. /\ MaxDelta \in Nat \ {0} /\ MinDelta \in Nat \ {0} /\ spent \in Nat
      /\ Second \in Nat /\ NumbersOK /\ stored <= MinDelta
      /\ fps \in Nat /\ stored \in Nat /\ ahead \in Nat /\ sinceFPS \in Nat
      /\ slow \in Nat
  <2>1. slow \in FrameTimes
    BY TimeAssumption DEF Even
  <2>2. \A a, b \in Nat : a * b \in Nat
    OBVIOUS
  <2> QED BY <2>1, <2>2, TimeNumbers
      DEF TimeInv, NumbersOK, AccumulatorSpent, FrameNumbers
<1>1. CASE OnBeginFrame
  <2>1. /\ pc = "begin" /\ pc' = "step" /\ Over = fps
        /\ UNCHANGED <<ahead, stored, steady>>
    BY <1>1 DEF OnBeginFrame, Over
  <2>2. CASE sinceFPS > Second
    <3>1. sinceFPS' = 0 /\ recorded' = fps /\ fps' = 1
      BY <1>1, <2>2 DEF OnBeginFrame
    <3>2. Over' = 0 /\ 0 * slow = 0
      BY <1>0, <2>1, <3>1 DEF Over
    <3>3. ASSUME steady PROVE Fair(fps)
      <4>1. sinceFPS <= fps * slow /\ fps * slow \in Nat
        BY <1>0, <2>1, <3>3 DEF PaceInv
      <4>2. fps # 0
        BY <1>0, <2>1, <2>2 DEF FrameNumbers
      <4> QED BY <1>0, <2>2, <4>1, <4>2, RateIsFair
    <3>4. steady' => Fair(recorded)' /\ sinceFPS' <= Over' * slow
      BY <2>1, <3>1, <3>2, <3>3 DEF Fair
    <3> QED BY <2>1, <3>4 DEF PaceInv
  <2>3. CASE ~(sinceFPS > Second)
    <3>1. sinceFPS' = sinceFPS /\ recorded' = recorded /\ fps' = fps + 1
      BY <1>1, <2>3 DEF OnBeginFrame
    <3>2. Over' = Over
      BY <1>0, <2>1, <3>1 DEF Over
    <3>3. steady' => Fair(recorded)' /\ sinceFPS' <= Over' * slow
      BY <2>1, <3>1, <3>2 DEF PaceInv, Fair
    <3> QED BY <2>1, <3>3 DEF PaceInv
  <2> QED BY <2>2, <2>3
<1>2. CASE CallSteps
  <2>1. /\ pc = "step" /\ pc' = "end"
        /\ UNCHANGED <<sinceFPS, fps, recorded, steady, ahead, still>>
    BY <1>2 DEF CallSteps
  <2>2. Over' = Over
    BY <2>1 DEF Over
  <2>3. steady' => Fair(recorded)' /\ sinceFPS' <= Over' * slow
    BY <2>1, <2>2 DEF PaceInv, Fair
  <2>4. PICK s \in Nat : stored = Milli * s
    BY DEF FrameNumbers
  <2>5. PICK n : n = DeltaMs
    OBVIOUS
  <2>6. /\ n \in Nat /\ Stepped' \in Nat
        /\ Stepped' * spent + stored' * MaxDelta <= MaxDelta * (Milli * (s + n))
        /\ \E k \in Nat : stored' = Milli * k
    BY <1>0, <1>2, <2>4, <2>5, CallStepsIs DEF FrameNumbers
  <2>7. PICK g \in Nat, w \in Nat : g = Stepped' /\ w = stored'
    <3>1. \A a, b \in Nat : a * b \in Nat
      OBVIOUS
    <3> QED BY <2>6, <3>1, TimeNumbers
  <2>8. MaxDelta * (Milli * (s + n)) = stored * MaxDelta + (n * MaxDelta) * Milli
    BY <1>0, <2>4, <2>6, TimeNumbers
  <2>9. ahead * spent + stored * MaxDelta <= MinDelta * MaxDelta
    BY <2>1 DEF PaceInv
  <2>10. ASSUME NEW d \in Steady, steady
         PROVE  ahead * spent + g * spent + w * MaxDelta <= MinDelta * MaxDelta + d * spent
    <3>1. d \in Nat
      BY TimeAssumption, TimeNumbers
    <3>2. n * MaxDelta <= d * Ms(MaxDelta)
      BY <2>1, <2>5, <2>10 DEF PaceInv, Fair, DeltaMs
    <3>3. (n * MaxDelta) * Milli <= d * spent
      <4>1. \A x, y, k \in Nat : x <= y => x * k <= y * k
        OBVIOUS
      <4>2. n * MaxDelta \in Nat /\ d * Ms(MaxDelta) \in Nat
        BY <1>0, <2>6, <3>1, TimeNumbers
      <4>3. (n * MaxDelta) * Milli <= (d * Ms(MaxDelta)) * Milli
        BY <3>2, <4>1, <4>2, TimeNumbers
      <4>4. (d * Ms(MaxDelta)) * Milli = d * spent
        BY <3>1, TimeNumbers
      <4> QED BY <4>3, <4>4
    <3>4. PICK A \in Nat, B \in Nat, G \in Nat, W \in Nat, C \in Nat, D \in Nat, N \in Nat :
            /\ A = ahead * spent /\ B = stored * MaxDelta /\ G = g * spent
            /\ W = w * MaxDelta /\ C = MinDelta * MaxDelta /\ D = d * spent
            /\ N = (n * MaxDelta) * Milli
      <4>1. \A a, b \in Nat : a * b \in Nat
        OBVIOUS
      <4> QED BY <1>0, <2>6, <3>1, <4>1, TimeNumbers
    <3>5. G + W <= B + N /\ A + B <= C /\ N <= D
      BY <2>6, <2>7, <2>8, <2>9, <3>3, <3>4
    <3>6. A + G + W <= C + D
      BY <3>5
    <3> QED BY <3>4, <3>6
  <2> QED BY <2>1, <2>3, <2>7, <2>10 DEF PaceInv
<1>3. ASSUME NEW d \in FrameTimes, OnEndFrame(d) PROVE PaceInv(slow)'
  <2>1. /\ pc = "end" /\ pc' = "begin" /\ UNCHANGED <<recorded, fps, stored>>
        /\ sinceFPS' = sinceFPS + d /\ steady' = (steady /\ d \in Steady)
    BY <1>3 DEF OnEndFrame
  <2>2. Over' = fps /\ Over = fps - 1 /\ fps - 1 \in Nat
    BY <1>0, <2>1 DEF Over, FrameNumbers
  <2>3. ASSUME steady' PROVE Fair(recorded)' /\ sinceFPS' <= Over' * slow
    <3>1. steady /\ d \in Steady /\ d <= slow /\ d \in Nat
      BY <2>1, <2>3, TimeNumbers DEF Even
    <3>2. Fair(recorded)'
      BY <2>1, <3>1 DEF PaceInv, Fair
    <3>3. PICK o \in Nat : o = fps - 1 /\ fps = o + 1
      BY <1>0, <2>2
    <3>4. sinceFPS <= o * slow
      BY <2>2, <3>1, <3>3 DEF PaceInv
    <3>5. (o + 1) * slow = o * slow + slow /\ o * slow \in Nat
      BY <1>0
    <3> QED BY <1>0, <2>1, <2>2, <3>1, <3>2, <3>3, <3>4, <3>5
  <2>4. ahead' * spent + stored' * MaxDelta <= MinDelta * MaxDelta
    <3>1. ahead' \in Nat /\ (ahead' = 0 \/ (steady' /\ ahead' <= (ahead + Stepped) - d))
      BY <1>0, <1>3, SurplusIs
    <3>2. CASE ahead' = 0
      <4>1. stored * MaxDelta <= MinDelta * MaxDelta /\ stored * MaxDelta \in Nat
        <5>1. \A x, y, k \in Nat : x <= y => x * k <= y * k /\ x * k \in Nat
          OBVIOUS
        <5> QED BY <1>0, <5>1
      <4>2. ahead' * spent = 0
        BY <1>0, <3>2
      <4> QED BY <2>1, <4>1, <4>2
    <3>3. CASE steady' /\ ahead' <= (ahead + Stepped) - d
      <4>1. d \in Nat /\ Stepped \in Nat
        BY <1>0, SteppedType, TimeNumbers
      <4>2. PICK a \in Nat, p \in Nat : a = ahead' /\ p = Stepped
        BY <3>1, <4>1
      <4>3. a + d <= ahead + p
        <5>1. a <= (ahead + p) - d
          BY <3>3, <4>2
        <5>2. ahead \in Nat /\ d \in Nat
          BY <1>0, <4>1
        <5> QED BY <5>1, <5>2
      <4>4. (a + d) * spent <= (ahead + p) * spent
        <5>1. \A x, y, k \in Nat : x <= y => x * k <= y * k
          OBVIOUS
        <5>2. a + d \in Nat /\ ahead + p \in Nat
          BY <1>0, <4>1
        <5> QED BY <1>0, <4>3, <5>1, <5>2
      <4>5. (a + d) * spent = a * spent + d * spent /\ (ahead + p) * spent = ahead * spent + p * spent
        <5>1. \A x, y, k \in Nat : (x + y) * k = x * k + y * k
          OBVIOUS
        <5> QED BY <1>0, <4>1, <5>1
      <4>6. ahead * spent + p * spent + stored * MaxDelta <= MinDelta * MaxDelta + d * spent
        BY <2>1, <3>3, <4>2 DEF PaceInv
      <4>7. PICK A \in Nat, B \in Nat, C \in Nat, D \in Nat, P \in Nat, X \in Nat :
              /\ A = ahead * spent /\ B = stored * MaxDelta /\ C = MinDelta * MaxDelta
              /\ D = d * spent /\ P = p * spent /\ X = a * spent
        <5>1. \A x, y \in Nat : x * y \in Nat
          OBVIOUS
        <5> QED BY <1>0, <4>1, <5>1
      <4>8. X + D <= A + P /\ A + P + B <= C + D
        BY <4>4, <4>5, <4>6, <4>7
      <4>9. X + B <= C
        BY <4>8
      <4> QED BY <2>1, <4>2, <4>7, <4>9
    <3> QED BY <3>1, <3>2, <3>3
  <2> QED BY <2>1, <2>3, <2>4 DEF PaceInv
<1>4. CASE UNCHANGED timeVars
  BY <1>4 DEF timeVars, PaceInv, Over, Stepped, Fair
<1> QED BY <1>1, <1>2, <1>3, <1>4 DEF TimeNext

\* The frame has called its steps; the surplus is what it was before.
AtEnd == pc = "end"

\* While frames are even the game never runs more than one longest step ahead of real
\* time, though a frame is counted by the rate of an earlier interval, cut to whole
\* milliseconds, and a full step lasts longer than what it takes from the accumulator
\* (TimeStepper.cpp:36-71).
THEOREM TheGameKeepsPace ==
  ASSUME FramesAreEven, MinDelta <= Milli * Ms(MaxDelta)
  PROVE  TimeSpec => []GameKeepsPace
<1>1. StartFPS # 0 /\ Fair(StartFPS)
  BY DEF FramesAreEven
<1>2. PICK slow : Even(slow)
  BY DEF FramesAreEven, Even
<1>3. TimeInit => FrameNumbers
  BY <1>1, InitFrameNumbers
<1>4. TimeInit => PaceInv(slow)
  <2> SUFFICES ASSUME TimeInit PROVE PaceInv(slow)
    OBVIOUS
  <2>1. slow \in FrameTimes
    BY <1>2, TimeAssumption DEF Even
  <2>2. 0 * slow = 0 /\ 0 * (Milli * Ms(MaxDelta)) = 0 /\ 0 * MaxDelta = 0
        /\ 0 <= MinDelta * MaxDelta
    <3>1. \A a, b \in Nat : 0 * a = 0 /\ 0 <= a * b /\ a * b \in Nat
      OBVIOUS
    <3> QED BY <2>1, <3>1, TimeNumbers
  <2>3. Over = 0 /\ pc = "begin" /\ recorded = StartFPS /\ sinceFPS = 0 /\ ahead = 0 /\ stored = 0
    BY DEF TimeInit, Over
  <2> QED BY <1>1, <2>2, <2>3 DEF PaceInv
<1>5. TimeInv /\ FrameNumbers /\ PaceInv(slow) /\ [TimeNext]_timeVars => PaceInv(slow)'
  BY <1>2, StepPaceInv
<1>6. TimeInv /\ FrameNumbers /\ PaceInv(slow) => AtEnd \/ GameKeepsPace
  <2> SUFFICES ASSUME FrameNumbers, NumbersOK, PaceInv(slow), pc # "end" PROVE GameKeepsPace
    BY DEF TimeInv, AtEnd
  <2> DEFINE spent == Milli * Ms(MaxDelta)
  <2>1. ahead * spent + stored * MaxDelta <= MinDelta * MaxDelta
    BY DEF PaceInv
  <2>2. /\ spent \in Nat \ {0} /\ MinDelta <= spent /\ MaxDelta \in Nat /\ MinDelta \in Nat
        /\ ahead \in Nat /\ stored \in Nat
    BY TimeNumbers DEF FrameNumbers, NumbersOK
  <2> HIDE DEF spent
  <2>3. /\ MinDelta * MaxDelta <= spent * MaxDelta /\ stored * MaxDelta \in Nat
        /\ ahead * spent \in Nat /\ spent * MaxDelta \in Nat /\ MinDelta * MaxDelta \in Nat
    <3>1. \A x, y, k \in Nat : x * k \in Nat /\ (x <= y => x * k <= y * k)
      OBVIOUS
    <3> QED BY <2>2, <3>1
  <2>4. ahead * spent <= spent * MaxDelta
    BY <2>1, <2>3
  <2>5. \A x, y, k \in Nat : k # 0 /\ x * k <= k * y => x <= y
    OBVIOUS
  <2>6. ahead <= MaxDelta
    BY <2>2, <2>4, <2>5
  <2> QED BY <2>6 DEF GameKeepsPace
<1>7. GameKeepsPace /\ [TimeNext]_timeVars => GameKeepsPace' \/ ~AtEnd'
  BY DEF TimeNext, timeVars, OnBeginFrame, CallSteps, OnEndFrame, GameKeepsPace, AtEnd
<1>8. TimeInit => GameKeepsPace
  BY TimeNumbers DEF TimeInit, GameKeepsPace
<1> QED
  BY <1>3, <1>4, <1>5, <1>6, <1>7, <1>8, InitTimeInv, StepTimeInv, StepFrameNumbers, PTL
     DEF TimeSpec
=============================================================================

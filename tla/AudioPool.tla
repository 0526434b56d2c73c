------------------------------ MODULE AudioPool ------------------------------
(***************************************************************************)
(* The sources of zn::AudioSystem, shared by the AudioEmitter components   *)
(* of a scene.  A sound card plays a limited number of sounds: emitters    *)
(* borrow sources, keep a reference to them after the sound has ended, and *)
(* lose them to another emitter that asks for a source.                    *)
(*                                                                         *)
(* An emitter is an ADDRESS that may be freed and allocated again.  Who    *)
(* has a source is written twice: emitterRef in the system, m_sourceRefs   *)
(* in the emitter.  Going through an emitterRef that names a freed emitter *)
(* sets fault, after which the model says nothing more of the program.     *)
(*                                                                         *)
(* A call to play that is out of earshot or finds no source changes        *)
(* nothing and is not a step.  Position, volume, pitch and the choice      *)
(* between a buffer and a stream decide nothing here.                      *)
(***************************************************************************)
EXTENDS Naturals

CONSTANTS
  Emitter,      \* addresses an emitter may be allocated at
  Nobody,       \* the null AudioEmitter pointer
  SourceCount   \* the length of m_sources (DEFAULT_SOURCES_COUNT)

ASSUME ConstantsAssumption ==
  /\ Nobody \notin Emitter
  /\ SourceCount \in Nat \ {0}

\* The sources, by their index in m_sources.
Source == 1..SourceCount

VARIABLES
  live,     \* the emitters registered in m_emitters
  refs,     \* refs[e]: AudioEmitter::m_sourceRefs
  owner,    \* owner[s]: AttachedSource::emitterRef
  status,   \* status[s]: AudioSource::getStatus
  looping,  \* the sources whose sound loops
  dropped,  \* history: the sources that their owner has dropped by stop
  fault     \* a freed emitter has been used

vars == <<live, refs, owner, status, looping, dropped, fault>>

Status == {"stopped", "playing", "paused"}

\* Types of the state; an address that is free holds no reference.
TypeOK ==
  /\ live \subseteq Emitter
  /\ refs \in [Emitter -> SUBSET Source]
  /\ \A e \in Emitter \ live : refs[e] = {}
  /\ owner \in [Source -> Emitter \cup {Nobody}]
  /\ status \in [Source -> Status]
  /\ looping \subseteq Source
  /\ dropped \subseteq Source
  /\ fault \in BOOLEAN

Init ==
  /\ live = {}
  /\ refs = [e \in Emitter |-> {}]
  /\ owner = [s \in Source |-> Nobody]
  /\ status = [s \in Source |-> "stopped"]
  /\ looping = {}
  /\ dropped = {}
  /\ fault = FALSE

-----------------------------------------------------------------------------
\* Slip: any source that is not paused will do.
IdleOrPlaying == {s \in Source : status[s] # "paused"}

\* The sources a new sound may use.
Idle == {s \in Source : status[s] = "stopped"}

\* AudioSource::stop pauses what plays and does nothing to what has stopped.
Silenced(S) ==
  [s \in Source |-> IF s \in S /\ status[s] = "playing" THEN "paused" ELSE status[s]]

\* The first source of m_sources that is stopped.
FirstIdle(s) == s \in Idle /\ \A t \in Idle : s <= t

Begin(s, loop) ==
  /\ status' = [status EXCEPT ![s] = "playing"]
  /\ looping' = IF loop THEN looping \cup {s} ELSE looping \ {s}

-----------------------------------------------------------------------------
Add(e) ==
  /\ ~fault
  /\ e \notin live
  /\ live' = live \cup {e}
  /\ refs' = [refs EXCEPT ![e] = {}]
  /\ UNCHANGED <<owner, status, looping, dropped, fault>>

\* Slip: the sounds of a destroyed emitter go on.
DestroyWithoutDetaching(e) ==
  /\ ~fault
  /\ e \in live
  /\ live' = live \ {e}
  /\ UNCHANGED <<refs, owner, status, looping, dropped, fault>>

\* The sources that detachEmitterSources drops an emitter from.
Attached(e) == {s \in Source : owner[s] = e}

\* The system is only asked to drop the emitter when it still holds a reference.
Destroy(e) ==
  /\ ~fault
  /\ e \in live
  /\ live' = live \ {e}
  /\ LET mine == IF refs[e] = {} THEN {} ELSE Attached(e)
     IN  /\ owner' = [s \in Source |-> IF s \in mine THEN Nobody ELSE owner[s]]
         /\ refs' = [refs EXCEPT ![e] = @ \ mine]
         /\ status' = Silenced(mine)
  /\ UNCHANGED <<looping, dropped, fault>>

\* A source of the emitter whose sound has ended.
Reuse(e, loop) ==
  \E s \in refs[e] \cap Idle :
    /\ Begin(s, loop)
    /\ UNCHANGED <<refs, owner, dropped>>

\* Slip: the last emitter is not told that its source has gone.
RequestSourceSilently(e, loop) ==
  /\ refs[e] \cap Idle = {}
  /\ \E s \in Source :
       /\ FirstIdle(s)
       /\ owner' = [owner EXCEPT ![s] = e]
       /\ refs' = [refs EXCEPT ![e] = @ \cup {s}]
       /\ dropped' = dropped \ {s}
       /\ Begin(s, loop)

\* Otherwise the first idle source of the system, taken from its last emitter.
RequestSource(e, loop) ==
  /\ refs[e] \cap Idle = {}
  /\ \E s \in Source :
       /\ FirstIdle(s)
       /\ owner[s] \in live \cup {Nobody}
       /\ owner' = [owner EXCEPT ![s] = e]
       /\ refs' = [x \in Emitter |-> IF x = e THEN refs[x] \cup {s}
                                     ELSE IF x = owner[s] THEN refs[x] \ {s}
                                     ELSE refs[x]]
       /\ dropped' = dropped \ {s}
       /\ Begin(s, loop)

\* playBuffer and playStream.
Play(e, loop) ==
  /\ ~fault
  /\ e \in live
  /\ Reuse(e, loop) \/ RequestSource(e, loop)
  /\ UNCHANGED <<live, fault>>

\* AudioEmitter::stop: the system is not told.
Stop(e) ==
  /\ ~fault
  /\ e \in live
  /\ status' = Silenced(refs[e])
  /\ refs' = [refs EXCEPT ![e] = {}]
  /\ dropped' = dropped \cup refs[e]
  /\ UNCHANGED <<live, owner, looping, fault>>

\* The sound card reaches the end of a sound.
SoundEnds(s) ==
  /\ ~fault
  /\ status[s] = "playing"
  /\ s \notin looping
  /\ status' = [status EXCEPT ![s] = "stopped"]
  /\ UNCHANGED <<live, refs, owner, looping, dropped, fault>>

\* A source is requested that was last attached to a freed emitter.
Crash ==
  /\ ~fault
  /\ \E e \in live : refs[e] \cap Idle = {}
  /\ \E s \in Source : FirstIdle(s) /\ owner[s] \notin live \cup {Nobody}
  /\ fault' = TRUE
  /\ UNCHANGED <<live, refs, owner, status, looping, dropped>>

Next ==
  \/ \E e \in Emitter : Add(e) \/ Destroy(e) \/ Stop(e)
  \/ \E e \in Emitter, loop \in BOOLEAN : Play(e, loop)
  \/ \E s \in Source : SoundEnds(s)
  \/ Crash

Spec == Init /\ [][Next]_vars

-----------------------------------------------------------------------------
(***************************************************************************)
(* Properties.                                                             *)
(***************************************************************************)

\* A source is never in the m_sourceRefs of two emitters, nor of an emitter
\* other than the one its emitterRef names, or that no longer exists: what
\* AudioEmitter::setPosition and stop do to a source concerns its own sound.
RefsAreOwned ==
  \A e \in Emitter : \A s \in refs[e] : owner[s] = e /\ e \in live

\* A source that plays is held by a live emitter that can still stop it: no path
\* that ends an emitter (onDestroy) or takes a source (requestSource) leaves a
\* sound, perhaps a looping one, that nothing can reach.
NoOrphanSound ==
  \A s \in Source : status[s] = "playing" => \E e \in live : s \in refs[e]

\* The emitterRef of a source outlives its emitter only on the sources that the
\* emitter had dropped by stop: without stop, requestSource never calls a
\* destroyed emitter ("Detaches the source from its last AudioEmitter",
\* AudioSystem.cpp:90).
OnlyStopLeavesDangling ==
  \A s \in Source : owner[s] \notin live \cup {Nobody} => s \in dropped

\* The emitter whose sound a source makes.
Sounding == [s \in Source |-> IF status[s] = "playing" THEN owner[s] ELSE Nobody]

Pool == INSTANCE SourcePool WITH sounding <- Sounding

\* The audio system implements a pool of exclusive sources: a sound starts on a
\* silent source and is cut only with all those of its emitter.
PoolSpec == Pool!Spec
=============================================================================

----------------------------- MODULE SourcePool -----------------------------
(***************************************************************************)
(* What a pool of sound sources promises: a source makes the sound of at   *)
(* most one emitter; a sound starts on a silent source; once started it is *)
(* only cut short with all the other sounds of its emitter.                *)
(***************************************************************************)
CONSTANTS Source, Emitter, Nobody

VARIABLE sounding   \* sounding[s]: the emitter whose sound s makes, or Nobody

Init == sounding = [s \in Source |-> Nobody]

\* A sound of e starts on a silent source.
Start(e, s) ==
  /\ sounding[s] = Nobody
  /\ sounding' = [sounding EXCEPT ![s] = e]

\* The sound of s comes to its end.
End(s) == sounding' = [sounding EXCEPT ![s] = Nobody]

\* Every sound of e is cut.
Cut(e) ==
  sounding' = [s \in Source |-> IF sounding[s] = e THEN Nobody ELSE sounding[s]]

Next ==
  \/ \E e \in Emitter, s \in Source : Start(e, s)
  \/ \E s \in Source : End(s)
  \/ \E e \in Emitter : Cut(e)

Spec == Init /\ [][Next]_sounding
=============================================================================

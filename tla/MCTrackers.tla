----------------------------- MODULE MCTrackers -----------------------------
(* Two cameras.  One shows somebody who is followed across them together   *)
(* with an object that is not, the other that somebody alone.              *)
EXTENDS Trackers

ScenesSeen == {<<"door", {1, 2}>>, <<"yard", {1}>>}
=============================================================================

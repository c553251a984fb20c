---------------------------- MODULE FootageVault ----------------------------
(***************************************************************************)
(* What the recording store promises, without uploads, archives, retention *)
(* passes or crashes: footage is kept from the moment it is recorded until *)
(* someone condemns it, and a recording leaves the list only after that.   *)
(***************************************************************************)
CONSTANT Recording

VARIABLES
  kept,       \* recordings that can still be watched from some copy
  listed,     \* recordings that have a row
  condemned   \* recordings someone decided to delete

vars == <<kept, listed, condemned>>

Init == kept = {} /\ listed = {} /\ condemned = {}

(* A segment is recorded for the first time. *)
Record(r) ==
  /\ r \notin kept \cup listed \cup condemned
  /\ kept' = kept \cup {r}
  /\ listed' = listed \cup {r}
  /\ UNCHANGED condemned

(* A user, a retention policy or the low-disk guard decides that it goes.  *)
Condemn(r) ==
  /\ r \in kept \cup condemned
  /\ kept' = kept \ {r}
  /\ condemned' = condemned \cup {r}
  /\ UNCHANGED listed

(* The rows of condemned recordings are removed. *)
Delist(S) ==
  /\ S \subseteq condemned
  /\ listed' = listed \ S
  /\ UNCHANGED <<kept, condemned>>

Next ==
  \/ \E r \in Recording : Record(r) \/ Condemn(r)
  \/ \E S \in SUBSET Recording : Delist(S)

Spec == Init /\ [][Next]_vars
=============================================================================

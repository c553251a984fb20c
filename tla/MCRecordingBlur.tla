--------------------------- MODULE MCRecordingBlur ---------------------------
(***************************************************************************)
(* RecordingBlur on a store without an archive destination.                *)
(***************************************************************************)
EXTENDS RecordingBlur

NoArchiveInit == Init /\ archive = NoProfile

NoArchiveSpec == NoArchiveInit /\ [][Next]_vars
=============================================================================

---------------------------- MODULE MC_VideoJob ----------------------------
(* Model values and symmetry for TLC's instances of VideoJob.                *)
EXTENDS VideoJobProperties, TLC

\* No action tells two workers apart.
WorkerSymmetry == Permutations(Workers)

\* One job is like another: all are shots of one episode.
Symmetry == WorkerSymmetry \cup Permutations(Jobs)
=============================================================================

---------------------------- MODULE MCRealmSync ----------------------------
(* What the TLC runs of RealmSync need besides the values of its constants. *)
EXTENDS RealmDeletes, TLC

\* Job names are interchangeable (runs without temporal properties only).
JobSymmetry == Permutations(Job)

\* Users create and edit the Realm but never delete it.
FairKeptSpec ==
  Init /\ [][Next /\ Timely /\ realm'.phase \in {"new", "live"}]_vars /\ Fairness

\* Jobs of any length: five minutes may pass while one runs.  The Realm may be
\* deleted.
SlowJobsSpec == Spec /\ Fairness
=============================================================================

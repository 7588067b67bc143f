----------------------------- MODULE MCFormTasks ------------------------------
(* A small instance of FormTasks for TLC.                                  *)
EXTENDS FormTasks, TLC

CONSTANTS p1, p2, s1, s2, s3

\* One process may start a second run, the other has one.
TwoHomes == (s1 :> p1) @@ (s2 :> p1) @@ (s3 :> p2)

\* An edit sets the status or the due date. To TLC, an edit of both is one
\* after the other, with nothing in between.
StatusOrDue ==
    [status : {"open", "done"}, due : {Keep}]
    \cup [status : {Keep}, due : Dues]

Symmetry == Permutations(Ids) \cup Permutations(Requesters) \cup Permutations({s1, s2})

=============================================================================

------------------------------ MODULE MCAdmission ------------------------------
(* Instances of Admission for TLC. *)
EXTENDS Admission, TLC

Symmetry ==
    Permutations(Workers) \cup Permutations(Users) \cup Permutations(Requests)
        \cup Permutations(Calls)

\* What a later step or a property may still read: of a call that is over, only
\* whether it was cancelled; of a row, whether and until when it counts; of the
\* attempts made, those of the window.
Oldest == clock - LockWait

View ==
    <<clock,
      {[r EXCEPT !.started = IF @ > Oldest - Window THEN @ ELSE -Window - LockWait,
                 !.expires = IF @ > Oldest THEN @ ELSE 0] :
          r \in {s \in ledger : s.started > Oldest - Window \/ s.expires > Oldest}},
      [c \in Calls |-> IF calls[c].pc = "done" THEN calls[c].got = "cancelled" ELSE calls[c]],
      {m \in made : m.at > clock - (Window - LockWait)}>>
=============================================================================

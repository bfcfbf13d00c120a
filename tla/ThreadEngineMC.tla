--------------------------- MODULE ThreadEngineMC ---------------------------
(* Model-checking instances of ThreadEngine. *)
EXTENDS ThreadEngine, TLC

Symmetry == Permutations(Run)

(* Liveness is checked from two beginnings, to keep the graph small: a     *)
(* thread whose runs are over but for one, and one whose runs have made    *)
(* all the calls they may.                                                 *)
OneRunLeft ==
  LET r == CHOOSE r \in Run : TRUE
  IN  /\ state = [s \in Run |-> IF s = r THEN "absent" ELSE "completed"]
      /\ calls = [s \in Run |-> 0]
      /\ arrived \in {q \in [1 .. Cardinality(Run) - 1 -> Run \ {r}] :
                       \A i, j \in DOMAIN q : q[i] = q[j] => i = j}
      /\ crashes = 0
      /\ Idle

OnlyAnswers ==
  /\ state = [r \in Run |-> "absent"]
  /\ calls = [r \in Run |-> MaxCalls]
  /\ arrived = <<>>
  /\ crashes = 0
  /\ Idle

StopsSpec == (OneRunLeft \/ OnlyAnswers) /\ [][Next]_vars /\ Fairness
=============================================================================

----------------------------- MODULE MCReception ------------------------------
(* Two recordings "a" and "b", laid out in either order or alone, and four *)
(* situations: two runners of the automation, a user against the           *)
(* automation, two workers of an operation that may lose two of them, and  *)
(* a user against an operation.                                            *)
EXTENDS Reception, TLC

MCUses == ("" :> {}) @@ ("a" :> {"a"}) @@ ("b" :> {"b"}) @@ ("ab" :> {"a", "b"})
          @@ ("ba" :> {"a", "b"})
MCWithout ==
  [t \in DOMAIN MCUses |-> [r \in {"a", "b"} |->
     IF r \notin MCUses[t] THEN t
     ELSE IF MCUses[t] = {r} THEN "" ELSE IF r = "a" THEN "b" ELSE "a"]]
MCTeams == {{"n1", "n2"}, {"u1", "n1"}, {"u1", "w1", "w2"}, {"u1", "u2", "w1"}}
MCSpared == [team \in MCTeams |-> IF "w2" \in team THEN 0 ELSE 1]
=============================================================================

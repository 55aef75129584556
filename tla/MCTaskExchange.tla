--------------------------- MODULE MCTaskExchange ---------------------------
(* TaskExchange for TLC. *)
EXTENDS TaskExchange, TLC

CONSTANTS t1, t2, s1, s2, w1, w2

const_BodySize == t1 :> 1 @@ t2 :> 1

\* The second task is refused by a blocking worker, and by a skill.
const_Faults == t1 :> {} @@ t2 :> {"too_large", "not_computed"}
=============================================================================

-------------------------- MODULE MCGoalSupervisor --------------------------
(* GoalSupervisor for TLC. *)
EXTENDS GoalSupervisor, TLC

CONSTANTS s1, s2, c1, c2

NoDeps == [c \in Checks |-> {}]
C2NeedsC1 == [c \in Checks |-> IF c = c2 THEN {c1} ELSE {}]

Symmetry == Permutations(Supervisors)

(* Journal rows that some later step can read: a key that ends in @g<gen>   *)
(* is looked up by the driver of that generation only, and of the others    *)
(* the store reads the stage and commit rows.                               *)
ReadableOps ==
  [k \in {k \in DOMAIN ops : \/ k.kind \in {"gitdir", "agent", "stage", "commit"}
                             \/ \E s \in Supervisors : drv[s].gen = k.gen} |-> ops[k]]

View == <<run, work, chat, clock, ReadableOps, receipts, rounds, proposals, kill,
          drv, world, history>>

=============================================================================

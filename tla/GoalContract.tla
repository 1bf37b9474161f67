---------------------------- MODULE GoalContract ----------------------------
(***************************************************************************)
(* What a Goal promises to the person who approved it, without leases,     *)
(* journals, supervisors or a Runner: work goes on only while the Goal is  *)
(* open, a round's agent is started once at most, a Goal is a success only *)
(* when everything required of its last round has been shown, nothing      *)
(* shown of earlier work counts for later work, a Goal that waits for      *)
(* attention is not quietly turned into a paused one, and the end is final.*)
(* GoalSupervisor implements it (ImplementsContract there).                *)
(***************************************************************************)
EXTENDS Naturals

CONSTANTS
  Checks,      \* what can be required
  Rounds,      \* the rounds a Goal may take
  Approved     \* what the approved plan requires

VARIABLES
  status,      \* open, paused, attention, succeeded or ended
  round,       \* rounds of work committed
  required,    \* what has to be shown of the last round
  shown,       \* what of it has been shown
  starts       \* how often each round's agent was started

contractVars == <<status, round, required, shown, starts>>

Parked == {"paused", "attention"}
Over == {"succeeded", "ended"}

ContractInit ==
  /\ status = "open" /\ round = 0
  /\ required = Approved /\ shown = {}
  /\ starts = [r \in Rounds |-> 0]

(* An agent is a process of its own: it may start late, but never twice. *)
StartAgent(r) ==
  /\ starts[r] = 0
  /\ starts' = [starts EXCEPT ![r] = 1]
  /\ UNCHANGED <<status, round, required, shown>>

CommitRound ==
  /\ status = "open"
  /\ round' = round + 1 /\ shown' = {}
  /\ UNCHANGED <<status, required, starts>>

Show(c) ==
  /\ status = "open" /\ round >= 1
  /\ c \in required
  /\ shown' = shown \cup {c}
  /\ UNCHANGED <<status, round, required, starts>>

ParkGoal ==
  /\ status = "open" /\ status' \in Parked
  /\ UNCHANGED <<round, required, shown, starts>>

Continue ==
  /\ status \in Parked /\ status' = "open"
  /\ UNCHANGED <<round, required, shown, starts>>

(* Everything is to be shown again. *)
Retry ==
  /\ status \in Parked /\ status' = "open"
  /\ round >= 1 /\ shown' = {}
  /\ UNCHANGED <<round, required, starts>>

(* More may be required of a parked Goal, never less. *)
RequireMore(more) ==
  /\ status \in Parked
  /\ required \subseteq more
  /\ required' = more /\ shown' = {}
  /\ UNCHANGED <<status, round, starts>>

Succeed ==
  /\ status = "open" /\ round >= 1 /\ required \subseteq shown
  /\ status' = "succeeded"
  /\ UNCHANGED <<round, required, shown, starts>>

End ==
  /\ status \notin Over /\ status' = "ended"
  /\ UNCHANGED <<round, required, shown, starts>>

ContractNext ==
  \/ \E r \in Rounds : StartAgent(r)
  \/ CommitRound \/ \E c \in Checks : Show(c)
  \/ ParkGoal \/ Continue \/ Retry \/ \E more \in SUBSET Checks : RequireMore(more)
  \/ Succeed \/ End

ContractSpec == ContractInit /\ [][ContractNext]_contractVars

=============================================================================

---------------------------- MODULE JobContract ----------------------------
(***************************************************************************)
(* What a browser may rely on when it starts a background job: the job     *)
(* settles at most once, and the browser is told at most once, either the  *)
(* outcome the job really had or that its job is lost to it.  Threads, the *)
(* registry and its eviction do not appear.                                *)
(***************************************************************************)
CONSTANT Jobs

VARIABLES
  outcome, (* the job: "running", then "done" or "error"                   *)
  told     (* the browser: "waiting", then the outcome or "lost"           *)

contractVars == <<outcome, told>>

Init ==
  /\ outcome = [j \in Jobs |-> "running"]
  /\ told = [j \in Jobs |-> "waiting"]

Settle(j) ==
  /\ outcome[j] = "running"
  /\ \E o \in {"done", "error"} : outcome' = [outcome EXCEPT ![j] = o]
  /\ UNCHANGED told

Tell(j) ==
  /\ told[j] = "waiting"
  /\ outcome[j] # "running"
  /\ told' = [told EXCEPT ![j] = outcome[j]]
  /\ UNCHANGED outcome

Lose(j) ==
  /\ told[j] = "waiting"
  /\ told' = [told EXCEPT ![j] = "lost"]
  /\ UNCHANGED outcome

Next == \E j \in Jobs : Settle(j) \/ Tell(j) \/ Lose(j)

Spec == Init /\ [][Next]_contractVars

=============================================================================

-------------------------------- MODULE Ledger --------------------------------
(***************************************************************************)
(* What every long job over an estate promises: each item it takes on is   *)
(* settled exactly once, as done or as failed, and the job closes only     *)
(* when nothing is left open.  "What fails is listed rather than silently  *)
(* dropped" - how the items are converted, packed or reviewed, and what    *)
(* other jobs do to the files meanwhile, does not appear.                  *)
(***************************************************************************)
CONSTANTS Workers, Items

VARIABLES
  items,   (* what each worker has taken on                                *)
  good,    (* those settled as done                                        *)
  bad,     (* those settled as failed or skipped                           *)
  closed   (* has the worker reported its result?                          *)

ledgerVars == <<items, good, bad, closed>>

Init ==
  /\ items = [w \in Workers |-> {}]
  /\ good = [w \in Workers |-> {}]
  /\ bad = [w \in Workers |-> {}]
  /\ closed = [w \in Workers |-> FALSE]

Open(w) == items[w] \ (good[w] \cup bad[w])

Enter(w) ==
  /\ ~closed[w]
  /\ items' \in [Workers -> SUBSET Items]
  /\ items[w] \subseteq items'[w]
  /\ \A v \in Workers \ {w} : items'[v] = items[v]
  /\ UNCHANGED <<good, bad, closed>>

SettleGood(w) ==
  /\ ~closed[w]
  /\ \E i \in Open(w) : good' = [good EXCEPT ![w] = @ \cup {i}]
  /\ UNCHANGED <<items, bad, closed>>

SettleBad(w) ==
  /\ ~closed[w]
  /\ \E i \in Open(w) : bad' = [bad EXCEPT ![w] = @ \cup {i}]
  /\ UNCHANGED <<items, good, closed>>

Close(w) ==
  /\ ~closed[w]
  /\ Open(w) = {}
  /\ closed' = [closed EXCEPT ![w] = TRUE]
  /\ UNCHANGED <<items, good, bad>>

Next == \E w \in Workers : Enter(w) \/ SettleGood(w) \/ SettleBad(w) \/ Close(w)

Spec == Init /\ [][Next]_ledgerVars

=============================================================================

------------------------------ MODULE ProjectPage ------------------------------
(***************************************************************************)
(* The listings that pages ask for at any time (GET /project and           *)
(* /project/reports).  A listing heals paths as it reads, and sqlite3      *)
(* opens no transaction before the first UPDATE: _repair_paths looks a row *)
(* up, looks for its file, and updates it some time later.  Any number of  *)
(* listings may be under way; what they found is one set per table.        *)
(***************************************************************************)
EXTENDS ProjectStore

VARIABLES
  staleMappings,  (* rows found stale and not yet updated                  *)
  staleReports

pageVars == <<staleMappings, staleReports>>

PageInit == staleMappings = {} /\ staleReports = {}

(* The path is dead, and a sample of the same name is there.               *)
Stale(row, f) ==
  /\ row.content # Nothing
  /\ row.place = "estate"
  /\ Resolve("estate", f) = "samples"

FindStaleMapping ==
  \E k \in Keys :
    /\ Stale(mappings[k], k[1])
    /\ staleMappings' = staleMappings \cup {k}
    /\ UNCHANGED <<storeVars, staleReports>>

FindStaleReport ==
  \E f \in Files :
    /\ Stale(reports[f], f)
    /\ staleReports' = staleReports \cup {f}
    /\ UNCHANGED <<storeVars, staleMappings>>

(* UPDATE ... WHERE rowid: whatever the row holds by now.                  *)
HealMapping ==
  \E k \in staleMappings :
    /\ mappings' = [mappings EXCEPT ![k].place = "samples"]
    /\ staleMappings' = staleMappings \ {k}
    /\ UNCHANGED <<estate, reports, staleReports>>

HealReport ==
  \E f \in staleReports :
    /\ reports' = [reports EXCEPT ![f].place = "samples"]
    /\ staleReports' = staleReports \ {f}
    /\ UNCHANGED <<estate, mappings, staleMappings>>

PageStep == FindStaleMapping \/ FindStaleReport \/ HealMapping \/ HealReport

PageTypeOK ==
  /\ staleMappings \subseteq Keys
  /\ staleReports \subseteq Files

=============================================================================

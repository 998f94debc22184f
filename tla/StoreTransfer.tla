----------------------------- MODULE StoreTransfer -----------------------------
(***************************************************************************)
(* The store as one portable file (src/pentaho_migration/project.py,       *)
(* export_store and import_store).  An export leaves a snapshot in a file  *)
(* of fixed name and sends it.  An import copies the store to a .bak named *)
(* after the second, writes the upload to a file of fixed name, copies it  *)
(* over the store through sqlite and deletes it.  Requests overlap, jobs   *)
(* record rows all the while, and the server may be stopped.               *)
(*                                                                         *)
(* A database is the set of its rows; a file of no bytes is to sqlite a    *)
(* database without rows.  One with the right header and corrupt pages may *)
(* be copied like any other, for backup copies pages unread.               *)
(***************************************************************************)
EXTENDS Naturals

CONSTANTS
  Imports, Exports,    (* the requests of a run of the model               *)
  Rows,                (* the rows jobs record and snapshots hold          *)
  Nothing, Torn,       (* no file; one copied or read while it was written *)
  Garbage, Malformed,  (* uploads without sqlite's magic; with it, corrupt *)
  Uploads,             (* what may be uploaded                             *)
  UnlinksOpen,         (* does the system delete a file that is open?      *)
  MaxSecond, MaxStops  (* bounds of the clock and of server stops          *)

Databases == {d : d \in SUBSET Rows}  (* enumerated for TLC, beside model values *)
Contents  == Databases \cup {Malformed}
Files     == Imports \X {"write", "connect"}

ASSUME TransferAssumption ==
  /\ {Nothing, Torn, Garbage, Malformed} \cap Databases = {}
  /\ Nothing \notin Files \cup {Torn, Malformed}
  /\ Garbage # Malformed
  /\ Uploads \subseteq Databases \cup {Garbage, Malformed}
  /\ UnlinksOpen \in BOOLEAN
  /\ MaxSecond \in Nat /\ MaxStops \in Nat

VARIABLES
  live,      (* project.db                                                 *)
  baks,      (* project.db.bak-<second>                                    *)
  exported,  (* project_export.db                                          *)
  files,     (* the temporary files, by who made them                      *)
  tmp,       (* the one project_import_tmp.db names                        *)
  importAt, upload, (* where each import is, with what upload              *)
  handle,    (* the temporary file it has open                             *)
  exportAt, reading, (* where each export is; what it began to send        *)
  second,    (* the second of the last copy                                *)
  stops,
  shared,    (* history: the imports that overlapped another               *)
  late,      (* history: the rows recorded since an import's copy began    *)
  states     (* history: what the store was since an export's request      *)

importVars  == <<baks, files, tmp, importAt, upload, handle>>
exportVars  == <<exported, exportAt, reading>>
historyVars == <<shared, late, states>>
vars == <<live, importVars, exportVars, second, stops, historyVars>>

Over == {"idle", "refused", "done", "failed", "aborted"}
Running == {i \in Imports : importAt[i] \notin Over}

Init ==
  /\ live \in Databases
  /\ baks = [s \in 0..MaxSecond |-> Nothing]
  /\ exported = Nothing
  /\ files = [f \in Files |-> {}]
  /\ tmp = Nothing
  /\ importAt = [i \in Imports |-> "idle"]
  /\ upload = [i \in Imports |-> Nothing]
  /\ handle = [i \in Imports |-> Nothing]
  /\ exportAt = [e \in Exports |-> "idle"]
  /\ reading = [e \in Exports |-> Nothing]
  /\ second = 0 /\ stops = 0
  /\ shared = {}
  /\ late = [i \in Imports |-> {}]
  /\ states = [e \in Exports |-> {}]

(* copy2 takes no lock: what commits meanwhile may tear the copy.          *)
TearCopy ==
  \/ UNCHANGED baks
  \/ \E i \in Imports, s \in 0..second :
       /\ importAt[i] = "copying" /\ baks[s] # Nothing
       /\ baks' = [baks EXCEPT ![s] = Torn]

(* One transaction of the store, when no snapshot holds it.                *)
Commit(c) ==
  /\ \A e \in Exports : exportAt[e] # "snapshot"
  /\ live' = c
  /\ TearCopy
  /\ states' = [e \in Exports |-> IF exportAt[e] = "idle" THEN {} ELSE states[e] \cup {c}]

(* A write to a corrupt store raises.                                      *)
Record(r) ==
  /\ live \in Databases
  /\ r \notin live
  /\ Commit(live \cup {r})
  /\ late' = [i \in Imports |-> IF i \in Running THEN late[i] \cup {r} ELSE late[i]]
  /\ UNCHANGED <<files, tmp, importAt, upload, handle, exportVars, second, stops, shared>>

(* An import goes on, and neither the store nor an export does.            *)
Moves(i, from, to) ==
  /\ importAt[i] = from
  /\ importAt' = [importAt EXCEPT ![i] = to]
  /\ UNCHANGED <<exportVars, stops>>

Steady == UNCHANGED <<live, second, historyVars>>

(* Its handles are closed; the histories of a request end with it.         *)
Forget(i) ==
  /\ upload' = [upload EXCEPT ![i] = Nothing]
  /\ handle' = [handle EXCEPT ![i] = Nothing]
  /\ shared' = shared \ {i}
  /\ late' = [late EXCEPT ![i] = {}]

Refuse(i) ==
  /\ Garbage \in Uploads
  /\ Moves(i, "idle", "refused")
  /\ Steady
  /\ UNCHANGED <<baks, files, tmp, upload, handle>>

Accept(i) ==
  /\ Moves(i, "idle", "accepted")
  /\ \E c \in Uploads \ {Garbage} : upload' = [upload EXCEPT ![i] = c]
  /\ shared' = IF Running = {} THEN shared ELSE shared \cup {i} \cup Running
  /\ UNCHANGED <<live, baks, files, tmp, handle, second, late, states>>

(* Mutant of CopyLive: a copy of this second is not replaced.              *)
CopyLiveOnce(i) ==
  /\ Moves(i, "accepted", "copying")
  /\ second' \in second..MaxSecond
  /\ baks' = [baks EXCEPT ![second'] = IF @ = Nothing THEN live ELSE @]
  /\ late' = [late EXCEPT ![i] = {}]
  /\ UNCHANGED <<live, files, tmp, upload, handle, shared, states>>

(* copy2 to the .bak of this second, over one that is there, goes on until *)
(* the temporary file is opened.                                           *)
CopyLive(i) ==
  /\ Moves(i, "accepted", "copying")
  /\ second' \in second..MaxSecond
  /\ baks' = [baks EXCEPT ![second'] = live]
  /\ late' = [late EXCEPT ![i] = {}]
  /\ UNCHANGED <<live, files, tmp, upload, handle, shared, states>>

(* The file of the fixed name, made when it is not there.                  *)
OpenTmp(i, maker) ==
  LET f == IF tmp = Nothing THEN <<i, maker>> ELSE tmp
  IN /\ tmp' = f
     /\ handle' = [handle EXCEPT ![i] = f]

(* Mutant of Truncate: a file that is there is taken for the upload's.     *)
TruncateIfMade(i) ==
  \/ /\ tmp = Nothing
     /\ Moves(i, "copying", "opened")
     /\ OpenTmp(i, "write")
     /\ Steady
     /\ UNCHANGED <<baks, files, upload>>
  \/ /\ tmp # Nothing
     /\ Moves(i, "copying", "written")
     /\ Steady
     /\ UNCHANGED <<baks, files, tmp, upload, handle>>

(* write_bytes empties the file, whoever made it ...                       *)
Truncate(i) ==
  /\ Moves(i, "copying", "opened")
  /\ OpenTmp(i, "write")
  /\ files' = [files EXCEPT ![handle'[i]] = {}]
  /\ Steady
  /\ UNCHANGED <<baks, upload>>

(* ... and writes the upload.                                              *)
Write(i) ==
  /\ Moves(i, "opened", "written")
  /\ files' = [files EXCEPT ![handle[i]] = upload[i]]
  /\ handle' = [handle EXCEPT ![i] = Nothing]
  /\ Steady
  /\ UNCHANGED <<baks, tmp, upload>>

(* The copy, the write or the connect raises: nothing is cleaned up.       *)
Raises(i) ==
  /\ \E from \in {"accepted", "opened", "written"} : Moves(i, from, "aborted")
  /\ Forget(i)
  /\ UNCHANGED <<live, baks, files, tmp, second, states>>

Connect(i) ==
  /\ Moves(i, "written", "connected")
  /\ OpenTmp(i, "connect")
  /\ Steady
  /\ UNCHANGED <<baks, files, upload>>

(* backup copies all pages in one transaction, or raises.                  *)
Replace(i) ==
  /\ Moves(i, "connected", "closing")
  /\ Commit(files[handle[i]])
  /\ UNCHANGED <<files, tmp, upload, handle, second, shared, late>>

BackupRaises(i) ==
  /\ Moves(i, "connected", "raising")
  /\ Steady
  /\ UNCHANGED <<baks, files, tmp, upload, handle>>

(* The finally: close both, delete the file unless it may not be deleted.  *)
Leave(i) ==
  /\ Moves(i, "closing", "done") \/ Moves(i, "raising", "failed")
  /\ Forget(i)
  /\ tmp' = IF UnlinksOpen \/ \A j \in Imports \ {i} : tmp = Nothing \/ handle[j] # tmp
            THEN Nothing ELSE tmp
  /\ files' = [f \in Files |-> IF f = tmp' \/ \E j \in Imports : handle'[j] = f
                               THEN files[f] ELSE {}]
  /\ UNCHANGED <<live, baks, second, states>>

ImportStep(i) ==
  \/ Accept(i) \/ Refuse(i) \/ CopyLive(i)
  \/ Truncate(i) \/ Write(i) \/ Raises(i)
  \/ Connect(i) \/ Replace(i) \/ BackupRaises(i) \/ Leave(i)

(* An export goes on: from here to there, leaving the file as c.           *)
ExportMoves(e, from, to, c) ==
  /\ exportAt[e] = from
  /\ exportAt' = [exportAt EXCEPT ![e] = to]
  /\ exported' = c
  /\ UNCHANGED <<live, importVars, second, stops, shared, late>>

(* Mutant of BeginSnapshot: a snapshot that is there is sent again.        *)
BeginSnapshotOnce(e) ==
  /\ ExportMoves(e, "idle", IF exported = Nothing THEN "snapshot" ELSE "ready", exported)
  /\ states' = [states EXCEPT ![e] = {live}]
  /\ UNCHANGED reading

(* What a reader without sqlite's lock finds in the snapshot's file.       *)
Found == IF \E x \in Exports : exportAt[x] = "snapshot" THEN Torn ELSE exported

(* backup locks the snapshot's file: two follow each other.                *)
BeginSnapshot(e) ==
  /\ \A x \in Exports : exportAt[x] # "snapshot"
  /\ ExportMoves(e, "idle", "snapshot", exported)
  /\ states' = [states EXCEPT ![e] = {live}]
  /\ UNCHANGED reading

EndSnapshot(e) ==
  /\ ExportMoves(e, "snapshot", "ready", live)
  /\ UNCHANGED <<reading, states>>

(* backup raises: sqlite rolls the file back to what it was.               *)
SnapshotRaises(e) ==
  /\ ExportMoves(e, "snapshot", "idle", exported)
  /\ states' = [states EXCEPT ![e] = {}]
  /\ UNCHANGED reading

(* The response reads the file, no lock held, in many chunks.              *)
BeginSending(e) ==
  /\ ExportMoves(e, "ready", "sending", exported)
  /\ reading' = [reading EXCEPT ![e] = Found]
  /\ UNCHANGED states

EndSending(e) ==
  /\ ExportMoves(e, "sending", "idle", exported)
  /\ reading' = [reading EXCEPT ![e] = Nothing]
  /\ states' = [states EXCEPT ![e] = {}]

ExportStep(e) ==
  \/ BeginSnapshot(e) \/ EndSnapshot(e) \/ SnapshotRaises(e)
  \/ BeginSending(e) \/ EndSending(e)

(* The server stops and starts again: requests are cut, files stay.        *)
Stop ==
  /\ stops < MaxStops
  /\ stops' = stops + 1
  /\ importAt' = [i \in Imports |-> IF i \in Running THEN "aborted" ELSE importAt[i]]
  /\ exportAt' = [e \in Exports |-> "idle"]
  /\ upload' = [i \in Imports |-> Nothing]
  /\ handle' = [i \in Imports |-> Nothing]
  /\ reading' = [e \in Exports |-> Nothing]
  /\ shared' = {}
  /\ late' = [i \in Imports |-> {}]
  /\ states' = [e \in Exports |-> {}]
  /\ UNCHANGED <<live, baks, files, tmp, exported, second>>

Next ==
  \/ \E r \in Rows : Record(r)
  \/ \E i \in Imports : ImportStep(i)
  \/ \E e \in Exports : ExportStep(e)
  \/ Stop

Spec == Init /\ [][Next]_vars

-----------------------------------------------------------------------------
(* Properties.                                                             *)

(* The type invariant.                                                     *)
TypeOK ==
  /\ live \in Contents
  /\ baks \in [0..MaxSecond -> Contents \cup {Nothing, Torn}]
  /\ exported \in Contents \cup {Nothing}
  /\ files \in [Files -> Contents]
  /\ tmp \in Files \cup {Nothing}
  /\ importAt \in [Imports -> Over \cup {"accepted", "copying", "opened", "written",
                                        "connected", "closing", "raising"}]
  /\ upload \in [Imports -> Contents \cup {Nothing}]
  /\ handle \in [Imports -> Files \cup {Nothing}]
  /\ \A i \in Imports : importAt[i] \in {"opened", "connected"} => handle[i] \in Files
  /\ \A i \in Running : upload[i] # Nothing
  /\ exportAt \in [Exports -> {"idle", "snapshot", "ready", "sending"}]
  /\ reading \in [Exports -> Contents \cup {Nothing, Torn}]
  /\ second \in 0..MaxSecond /\ stops \in 0..MaxStops
  /\ shared \subseteq Imports
  /\ late \in [Imports -> Databases]
  /\ states \in [Exports -> SUBSET Contents]

Replaces(i) == importAt[i] = "connected" /\ importAt'[i] = "closing"

(* An import that no other overlaps makes the store what was uploaded with *)
(* it, be it corrupt, whatever earlier imports, errors and server stops    *)
(* left in the temporary file.                                             *)
LoneImportTakesEffect ==
  [][\A i \in Imports \ shared : Replaces(i) => live' = upload[i]]_vars

(* "The current store is backed up beside itself first": what an import    *)
(* replaces is in one .bak, but for rows recorded since the copy began,    *)
(* which may have torn it.                                                 *)
CopyOf(i) ==
  \E s \in 0..second :
    \/ baks[s] = live
    \/ {live, baks[s]} \subseteq Databases /\ live \ late[i] \subseteq baks[s]
    \/ baks[s] = Torn /\ late[i] # {}

ReplacedIsBackedUp ==
  [][\A i \in Imports \ shared : Replaces(i) => CopyOf(i)]_vars

(* "A consistent snapshot of the live store": an export sends the store as *)
(* it was at some moment of the request, unless another export was writing *)
(* the file when the sending began, or wrote it before it ended.           *)
(* project_export answers before the file is read.                         *)
ExportsAreFresh ==
  [][\A e \in Exports :
       exportAt[e] = "sending" /\ exportAt'[e] = "idle" /\ stops' = stops
           /\ reading[e] = Found /\ Found # Torn
         => reading[e] \in states[e]]_vars

=============================================================================

-------------------------- MODULE StoreTransferProofs --------------------------
(***************************************************************************)
(* What an import does when no other overlaps it, for any number of        *)
(* imports, exports, rows, errors and server stops, proved.                *)
(***************************************************************************)
EXTENDS StoreTransfer, TLAPS

USE DEF importVars, exportVars, historyVars

ImportPlaces == Over \cup {"accepted", "copying", "opened", "written", "connected",
                           "closing", "raising"}

(* Two imports that run at the same time are both known to overlap.        *)
Overlaps ==
  \A i, j \in Imports : i \in Running /\ j \in Running /\ i # j => i \in shared

(* An import alone finds its own upload under the fixed name.              *)
OwnUpload ==
  \A i \in Running \ shared :
    /\ importAt[i] = "opened" => handle[i] = tmp
    /\ importAt[i] = "written" => tmp # Nothing /\ files[tmp] = upload[i]
    /\ importAt[i] = "connected" => files[handle[i]] = upload[i]

(* It has copied the store, but for rows recorded since.                   *)
Copied ==
  \A i \in Running \ shared :
    importAt[i] \in {"copying", "opened", "written", "connected"} => CopyOf(i)

IInv == TypeOK /\ Overlaps /\ OwnUpload /\ Copied

-----------------------------------------------------------------------------
LEMMA DatabasesAre == Databases = SUBSET Rows
  BY DEF Databases

LEMMA EmptyIsContent == {} \in Contents /\ Databases \subseteq Contents
  BY DatabasesAre DEF Contents

LEMMA NothingIsNoFile == Nothing \notin Files
  BY TransferAssumption

(* The place, handle and upload of one import change.                      *)
LEMMA OneMoves ==
  ASSUME TypeOK, NEW i \in Imports, NEW from, NEW to \in ImportPlaces, Moves(i, from, to)
  PROVE  /\ importAt' \in [Imports -> ImportPlaces]
         /\ importAt[i] = from /\ importAt'[i] = to
         /\ \A j \in Imports \ {i} : importAt'[j] = importAt[j]
  BY DEF TypeOK, Moves, ImportPlaces

LEMMA Init_IInv == Init => IInv
<1> SUFFICES ASSUME Init PROVE IInv
  OBVIOUS
<1>1. Running = {}
  BY DEF Init, Running, Over
<1>2. TypeOK
  BY <1>1, TransferAssumption, DatabasesAre, EmptyIsContent DEF Init, TypeOK, Over
<1>3. QED BY <1>1, <1>2 DEF IInv, Overlaps, OwnUpload, Copied

(* The part of the type that an import's step may disturb.                 *)
ImportTypeOK ==
  /\ files \in [Files -> Contents]
  /\ tmp \in Files \cup {Nothing}
  /\ importAt \in [Imports -> ImportPlaces]
  /\ upload \in [Imports -> Contents \cup {Nothing}]
  /\ handle \in [Imports -> Files \cup {Nothing}]
  /\ shared \subseteq Imports
  /\ \A i \in Imports :
       /\ importAt[i] \in {"opened", "connected"} => handle[i] \in Files
       /\ importAt[i] \notin Over => upload[i] # Nothing

StoreTypeOK ==
  /\ live \in Contents
  /\ baks \in [0..MaxSecond -> Contents \cup {Nothing, Torn}]
  /\ exported \in Contents \cup {Nothing}
  /\ exportAt \in [Exports -> {"idle", "snapshot", "ready", "sending"}]
  /\ reading \in [Exports -> Contents \cup {Nothing, Torn}]
  /\ second \in 0..MaxSecond /\ stops \in 0..MaxStops
  /\ late \in [Imports -> Databases]
  /\ states \in [Exports -> SUBSET Contents]

LEMMA TypeParts ==
  /\ TypeOK => ImportTypeOK /\ StoreTypeOK
  /\ ImportTypeOK' /\ StoreTypeOK' => TypeOK'
  BY DEF TypeOK, ImportTypeOK, StoreTypeOK, ImportPlaces, Running

LEMMA ImportMovesTyped ==
  ASSUME ImportTypeOK, NEW i \in Imports, NEW from, NEW to \in ImportPlaces,
         Moves(i, from, to),
         files' \in [Files -> Contents],
         tmp' \in Files \cup {Nothing},
         upload' \in [Imports -> Contents \cup {Nothing}],
         handle' \in [Imports -> Files \cup {Nothing}],
         shared' \subseteq Imports,
         \A j \in Imports \ {i} : upload'[j] = upload[j] /\ handle'[j] = handle[j],
         to \in {"opened", "connected"} => handle'[i] \in Files,
         to \notin Over => upload'[i] # Nothing
  PROVE  ImportTypeOK'
<1>1. /\ importAt' \in [Imports -> ImportPlaces] /\ importAt'[i] = to
      /\ \A j \in Imports \ {i} : importAt'[j] = importAt[j]
  BY DEF ImportTypeOK, Moves
<1>2. QED BY <1>1 DEF ImportTypeOK

LEMMA ForgetTyped ==
  ASSUME ImportTypeOK, StoreTypeOK, NEW i \in Imports, Forget(i)
  PROVE  /\ upload' \in [Imports -> Contents \cup {Nothing}]
         /\ handle' \in [Imports -> Files \cup {Nothing}]
         /\ shared' \subseteq Imports
         /\ late' \in [Imports -> Databases]
         /\ \A j \in Imports \ {i} : upload'[j] = upload[j] /\ handle'[j] = handle[j]
  BY DatabasesAre, EmptyIsContent DEF ImportTypeOK, StoreTypeOK, Forget

LEMMA OpenTmpTyped ==
  ASSUME ImportTypeOK, NEW i \in Imports, NEW m \in {"write", "connect"}, OpenTmp(i, m)
  PROVE  /\ tmp' \in Files /\ handle'[i] = tmp'
         /\ handle' \in [Imports -> Files \cup {Nothing}]
         /\ \A j \in Imports \ {i} : handle'[j] = handle[j]
         /\ tmp # Nothing => tmp' = tmp
  BY DEF ImportTypeOK, OpenTmp, Files

LEMMA CommitTyped ==
  ASSUME StoreTypeOK, NEW c \in Contents, Commit(c)
  PROVE  /\ live' \in Contents /\ states' \in [Exports -> SUBSET Contents]
         /\ baks' \in [0..MaxSecond -> Contents \cup {Nothing, Torn}]
<1>1. baks' \in [0..MaxSecond -> Contents \cup {Nothing, Torn}]
  BY DEF StoreTypeOK, Commit, TearCopy
<1>2. QED BY <1>1 DEF StoreTypeOK, Commit

LEMMA ImportStepTyped ==
  ASSUME ImportTypeOK, StoreTypeOK, NEW i \in Imports, ImportStep(i)
  PROVE  ImportTypeOK' /\ StoreTypeOK'
<1>1. CASE Refuse(i)
  <2>1. Moves(i, "idle", "refused") /\ UNCHANGED <<files, tmp, upload, handle, shared>>
    BY <1>1 DEF Refuse, Steady
  <2>2. ImportTypeOK'
    BY <2>1 DEF ImportTypeOK, Moves, ImportPlaces, Over
  <2>3. QED BY <1>1, <2>2 DEF Refuse, Steady, Moves, StoreTypeOK
<1>2. CASE Accept(i)
  <2>1. /\ Moves(i, "idle", "accepted")
        /\ UNCHANGED <<files, tmp, handle>>
        /\ shared' \subseteq Imports
    BY <1>2 DEF Accept, ImportTypeOK, Running
  <2>2. PICK c \in Uploads \ {Garbage} : upload' = [upload EXCEPT ![i] = c]
    BY <1>2 DEF Accept
  <2>3. c \in Contents /\ c # Nothing
    BY TransferAssumption DEF Contents
  <2>4. ImportTypeOK'
    <3>1. /\ upload' \in [Imports -> Contents \cup {Nothing}]
          /\ upload'[i] # Nothing
          /\ \A j \in Imports \ {i} : upload'[j] = upload[j]
      BY <2>2, <2>3 DEF ImportTypeOK
    <3>2. QED
      BY <2>1, <3>1, ImportMovesTyped DEF ImportTypeOK, ImportPlaces
  <2>5. QED BY <1>2, <2>4 DEF Accept, Moves, StoreTypeOK
<1>3. CASE CopyLive(i)
  <2>1. /\ Moves(i, "accepted", "copying")
        /\ UNCHANGED <<files, tmp, upload, handle, shared>>
    BY <1>3 DEF CopyLive
  <2>2. ImportTypeOK'
    BY <2>1 DEF ImportTypeOK, Moves, ImportPlaces, Over
  <2>3. second' \in 0..MaxSecond
    BY <1>3, TransferAssumption DEF CopyLive, StoreTypeOK
  <2>4. /\ baks' \in [0..MaxSecond -> Contents \cup {Nothing, Torn}]
        /\ late' \in [Imports -> Databases]
    BY <1>3, <2>3, DatabasesAre DEF CopyLive, StoreTypeOK
  <2>5. QED BY <1>3, <2>2, <2>3, <2>4 DEF CopyLive, Moves, StoreTypeOK
<1>4. CASE Truncate(i)
  <2>1. /\ Moves(i, "copying", "opened") /\ OpenTmp(i, "write")
        /\ files' = [files EXCEPT ![handle'[i]] = {}]
        /\ UNCHANGED <<live, second, shared, late, states, baks, upload>>
    BY <1>4 DEF Truncate, Steady
  <2>2. files' \in [Files -> Contents]
    BY <2>1, OpenTmpTyped, EmptyIsContent DEF ImportTypeOK
  <2>3. upload[i] # Nothing
    BY <2>1 DEF ImportTypeOK, Moves, Over
  <2>4. ImportTypeOK'
    BY <2>1, <2>2, <2>3, OpenTmpTyped, ImportMovesTyped DEF ImportTypeOK, ImportPlaces
  <2>5. QED BY <2>1, <2>4 DEF Moves, StoreTypeOK
<1>5. CASE Write(i)
  <2>1. /\ Moves(i, "opened", "written")
        /\ files' = [files EXCEPT ![handle[i]] = upload[i]]
        /\ handle' = [handle EXCEPT ![i] = Nothing]
        /\ UNCHANGED <<live, second, shared, late, states, baks, tmp, upload>>
    BY <1>5 DEF Write, Steady
  <2>2. upload[i] \in Contents /\ upload[i] # Nothing
    BY <2>1 DEF ImportTypeOK, Moves, Over
  <2>3. files' \in [Files -> Contents]
    BY <2>1, <2>2 DEF ImportTypeOK
  <2>4. /\ handle' \in [Imports -> Files \cup {Nothing}]
        /\ \A j \in Imports \ {i} : handle'[j] = handle[j]
    BY <2>1 DEF ImportTypeOK
  <2>5. ImportTypeOK'
    BY <2>1, <2>2, <2>3, <2>4, ImportMovesTyped DEF ImportTypeOK, ImportPlaces
  <2>6. QED BY <2>1, <2>5 DEF Moves, StoreTypeOK
<1>6. CASE Raises(i)
  <2>1. PICK from \in {"accepted", "opened", "written"} : Moves(i, from, "aborted")
    BY <1>6 DEF Raises
  <2>2. Forget(i) /\ UNCHANGED <<live, baks, files, tmp, second, states>>
    BY <1>6 DEF Raises
  <2>3. ImportTypeOK'
    <3>1. "aborted" \in Over /\ "aborted" \in ImportPlaces
          /\ "aborted" \notin {"opened", "connected"}
      BY DEF Over, ImportPlaces
    <3>2. files' \in [Files -> Contents] /\ tmp' \in Files \cup {Nothing}
      BY <2>2 DEF ImportTypeOK
    <3>3. QED BY <2>1, <2>2, <3>1, <3>2, ForgetTyped, ImportMovesTyped
  <2>4. QED BY <2>1, <2>2, <2>3, ForgetTyped DEF Moves, StoreTypeOK
<1>7. CASE Connect(i)
  <2>1. /\ Moves(i, "written", "connected") /\ OpenTmp(i, "connect")
        /\ UNCHANGED <<live, second, shared, late, states, baks, files, upload>>
    BY <1>7 DEF Connect, Steady
  <2>2. upload[i] # Nothing
    BY <2>1 DEF ImportTypeOK, Moves, Over
  <2>3. ImportTypeOK'
    BY <2>1, <2>2, OpenTmpTyped, ImportMovesTyped DEF ImportTypeOK, ImportPlaces
  <2>4. QED BY <2>1, <2>3 DEF Moves, StoreTypeOK
<1>8. CASE Replace(i) \/ BackupRaises(i)
  <2>1. PICK to \in {"closing", "raising"} : Moves(i, "connected", to)
    BY <1>8 DEF Replace, BackupRaises
  <2>2. UNCHANGED <<files, tmp, upload, handle, shared, second, late>>
    BY <1>8 DEF Replace, BackupRaises, Steady
  <2>3. ImportTypeOK'
    BY <2>1, <2>2 DEF ImportTypeOK, Moves, ImportPlaces, Over
  <2>4. /\ live' \in Contents /\ states' \in [Exports -> SUBSET Contents]
        /\ baks' \in [0..MaxSecond -> Contents \cup {Nothing, Torn}]
    <3>1. files[handle[i]] \in Contents
      BY <2>1 DEF Moves, ImportTypeOK
    <3>2. CASE Replace(i)
      BY <3>1, <3>2, CommitTyped DEF Replace
    <3>3. CASE BackupRaises(i)
      BY <3>3 DEF BackupRaises, Steady, StoreTypeOK
    <3>4. QED BY <1>8, <3>2, <3>3
  <2>5. QED BY <2>1, <2>2, <2>3, <2>4 DEF Moves, StoreTypeOK
<1>9. CASE Leave(i)
  <2>1. PICK from \in {"closing", "raising"}, to \in {"done", "failed"} : Moves(i, from, to)
    BY <1>9 DEF Leave
  <2>2. Forget(i) /\ UNCHANGED <<live, baks, second, states>>
    BY <1>9 DEF Leave
  <2>3. tmp' \in Files \cup {Nothing}
    BY <1>9 DEF Leave, ImportTypeOK
  <2>4. files' \in [Files -> Contents]
    BY <1>9, EmptyIsContent DEF Leave, ImportTypeOK
  <2>5. ImportTypeOK'
    <3>1. to \in Over /\ to \in ImportPlaces /\ to \notin {"opened", "connected"}
      BY DEF Over, ImportPlaces
    <3>2. QED BY <2>1, <2>2, <2>3, <2>4, <3>1, ForgetTyped, ImportMovesTyped
  <2>6. QED BY <2>1, <2>2, <2>5, ForgetTyped DEF Moves, StoreTypeOK
<1>10. QED
  BY <1>1, <1>2, <1>3, <1>4, <1>5, <1>6, <1>7, <1>8, <1>9 DEF ImportStep

LEMMA ExportStepTyped ==
  ASSUME StoreTypeOK, NEW e \in Exports, ExportStep(e)
  PROVE  StoreTypeOK'
<1>1. CASE BeginSnapshot(e)
  BY <1>1 DEF BeginSnapshot, ExportMoves, StoreTypeOK
<1>2. CASE EndSnapshot(e)
  BY <1>2 DEF EndSnapshot, ExportMoves, StoreTypeOK
<1>3. CASE SnapshotRaises(e)
  BY <1>3 DEF SnapshotRaises, ExportMoves, StoreTypeOK
<1>4. CASE BeginSending(e)
  BY <1>4 DEF BeginSending, Found, ExportMoves, StoreTypeOK
<1>5. CASE EndSending(e)
  BY <1>5 DEF EndSending, ExportMoves, StoreTypeOK
<1>6. QED BY <1>1, <1>2, <1>3, <1>4, <1>5 DEF ExportStep

LEMMA TypeKept ==
  ASSUME TypeOK, [Next]_vars
  PROVE  TypeOK'
<1> USE TypeParts
<1>1. ASSUME NEW r \in Rows, Record(r) PROVE TypeOK'
  <2>1. live \cup {r} \in Contents
    BY <1>1, DatabasesAre DEF Record, Contents
  <2>2. /\ live' \in Contents /\ states' \in [Exports -> SUBSET Contents]
        /\ baks' \in [0..MaxSecond -> Contents \cup {Nothing, Torn}]
    BY <1>1, <2>1, CommitTyped DEF Record
  <2>3. late' \in [Imports -> Databases]
    BY <1>1, DatabasesAre DEF Record, StoreTypeOK
  <2>4. ImportTypeOK'
    BY <1>1 DEF Record, ImportTypeOK
  <2>5. QED BY <1>1, <2>2, <2>3, <2>4 DEF Record, StoreTypeOK
<1>2. ASSUME NEW i \in Imports, ImportStep(i) PROVE TypeOK'
  BY <1>2, ImportStepTyped
<1>3. ASSUME NEW e \in Exports, ExportStep(e) PROVE TypeOK'
  <2>1. ImportTypeOK'
    BY <1>3 DEF ExportStep, BeginSnapshot, EndSnapshot, SnapshotRaises, BeginSending, EndSending,
                ExportMoves, ImportTypeOK
  <2>2. QED BY <1>3, <2>1, ExportStepTyped
<1>4. CASE Stop
  <2>1. ImportTypeOK'
    BY <1>4 DEF Stop, ImportTypeOK, ImportPlaces, Over, Running
  <2>2. stops' \in 0..MaxStops
    BY <1>4, TransferAssumption DEF Stop, StoreTypeOK
  <2>3. QED BY <1>4, <2>1, <2>2, DatabasesAre DEF Stop, StoreTypeOK
<1>5. CASE UNCHANGED vars
  BY <1>5 DEF vars, ImportTypeOK, StoreTypeOK
<1>6. QED BY <1>1, <1>2, <1>3, <1>4, <1>5 DEF Next


-----------------------------------------------------------------------------
(* What an import does to the others.                                      *)

(* Every step of an import but its first and a refusal is of one that runs.*)
LEMMA StepApart ==
  ASSUME TypeOK, NEW i \in Imports, ImportStep(i)
  PROVE  /\ \A j \in Imports \ {i} : /\ importAt'[j] = importAt[j]
                                     /\ handle'[j] = handle[j]
                                     /\ upload'[j] = upload[j]
                                     /\ late'[j] = late[j]
         /\ Accept(i) \/ Refuse(i) \/ i \in Running
<1>1. ImportTypeOK /\ late \in [Imports -> Databases]
  BY TypeParts DEF TypeOK
<1>2. CASE Refuse(i) \/ Accept(i)
  BY <1>1, <1>2 DEF Refuse, Accept, Moves, Steady, ImportTypeOK
<1>3. CASE CopyLive(i) \/ Write(i) \/ Replace(i) \/ BackupRaises(i)
  BY <1>1, <1>3
  DEF CopyLive, Write, Replace, BackupRaises, Moves, Steady, ImportTypeOK, Running, Over
<1>4. CASE Truncate(i) \/ Connect(i)
  <2>1. /\ Moves(i, "copying", "opened") \/ Moves(i, "written", "connected")
        /\ \A j \in Imports \ {i} : handle'[j] = handle[j]
        /\ UNCHANGED <<upload, late>>
    BY <1>1, <1>4, OpenTmpTyped DEF Truncate, Connect, Steady
  <2>2. QED BY <1>1, <2>1 DEF Moves, ImportTypeOK, Running, Over
<1>5. CASE Raises(i) \/ Leave(i)
  <2>1. /\ Forget(i)
        /\ \E from \in {"accepted", "opened", "written", "closing", "raising"} :
             \E to \in Over : Moves(i, from, to)
    BY <1>5 DEF Raises, Leave, Over
  <2>2. QED BY <1>1, <2>1 DEF Forget, Moves, ImportTypeOK, Running, Over
<1>6. QED BY <1>2, <1>3, <1>4, <1>5 DEF ImportStep

LEMMA OverlapsKept ==
  ASSUME TypeOK, Overlaps, NEW i \in Imports, ImportStep(i)
  PROVE  /\ Overlaps'
         /\ shared' \cup {i} = shared \cup {i} \/ Accept(i)
         /\ i \in Running' => i \in shared' \/ i \notin shared
<1>1. /\ ImportTypeOK
      /\ \A j \in Imports \ {i} : importAt'[j] = importAt[j]
  BY StepApart, TypeParts
<1>2. Running' \ {i} = Running \ {i}
  BY <1>1 DEF Running
<1>3. CASE Accept(i)
  <2>1. shared' = IF Running = {} THEN shared ELSE shared \cup {i} \cup Running
    BY <1>3 DEF Accept
  <2>2. QED BY <1>2, <1>3, <2>1 DEF Overlaps
<1>4. CASE Refuse(i)
  <2>1. i \notin Running' /\ shared' = shared
    BY <1>1, <1>4 DEF Refuse, Steady, Moves, Running, Over, ImportTypeOK
  <2>2. QED BY <1>2, <2>1 DEF Overlaps
<1>5. CASE Raises(i) \/ Leave(i)
  <2>1. i \notin Running' /\ shared' = shared \ {i}
    BY <1>1, <1>5 DEF Raises, Leave, Forget, Moves, Running, Over, ImportTypeOK
  <2>2. QED BY <1>2, <2>1 DEF Overlaps
<1>6. CASE ~(Accept(i) \/ Refuse(i) \/ Raises(i) \/ Leave(i))
  <2>1. shared' = shared
    BY <1>6 DEF ImportStep, CopyLive, Truncate, Write, Connect, Replace, BackupRaises, Steady
  <2>2. i \in Running
    BY <1>6, StepApart
  <2>3. QED BY <1>2, <2>1, <2>2 DEF Overlaps
<1>7. QED BY <1>3, <1>4, <1>5, <1>6

(* Only a refusal is a step beside a lone import.                          *)
LEMMA LoneIsAlone ==
  ASSUME TypeOK, Overlaps, NEW i \in Imports, ImportStep(i),
         NEW j \in Running', j \notin shared', j # i
  PROVE  j \in Running \ shared /\ Refuse(i)
<1>1. j \in Running
  BY StepApart DEF Running
<1>2. ~Accept(i)
  BY <1>1 DEF Accept
<1>3. j \notin shared
  BY <1>2, OverlapsKept
<1>4. i \notin Running
  BY <1>1, <1>3 DEF Overlaps, Running
<1>5. QED BY <1>1, <1>2, <1>3, <1>4, StepApart

LEMMA OwnUploadKept ==
  ASSUME IInv, NEW i \in Imports, ImportStep(i)
  PROVE  OwnUpload'
<1> SUFFICES ASSUME NEW j \in Running', j \notin shared'
             PROVE  /\ importAt'[j] = "opened" => handle'[j] = tmp'
                    /\ importAt'[j] = "written" =>
                         tmp' # Nothing /\ files'[tmp'] = upload'[j]
                    /\ importAt'[j] = "connected" => files'[handle'[j]] = upload'[j]
  BY DEF OwnUpload
<1>1. TypeOK /\ ImportTypeOK /\ Overlaps /\ OwnUpload
  BY TypeParts DEF IInv
<1>2. CASE j # i
  <2>1. j \in Running \ shared /\ Refuse(i)
    BY <1>1, <1>2, LoneIsAlone
  <2>2. UNCHANGED <<files, tmp, upload, handle>> /\ importAt'[j] = importAt[j]
    BY <1>1, <1>2, <2>1, StepApart DEF Refuse, Running
  <2>3. QED BY <1>1, <2>1, <2>2 DEF OwnUpload
<1>3. CASE j = i
  <2>1. i \notin shared
    BY <1>1, <1>3, OverlapsKept
  <2>2. CASE Truncate(i)
    <3>1. importAt'[i] = "opened" /\ handle'[i] = tmp'
      BY <1>1, <2>2, OpenTmpTyped DEF Truncate, Moves, ImportTypeOK
    <3>2. QED BY <1>3, <3>1
  <2>3. CASE Write(i)
    <3>1. importAt[i] = "opened" /\ importAt'[i] = "written"
      BY <1>1, <2>3 DEF Write, Moves, ImportTypeOK
    <3>2. handle[i] = tmp /\ handle[i] \in Files
      BY <1>1, <2>1, <3>1 DEF OwnUpload, ImportTypeOK, Running, Over
    <3>3. files'[tmp] = upload[i] /\ tmp' = tmp /\ upload' = upload
      BY <1>1, <2>3, <3>2 DEF Write, ImportTypeOK
    <3>4. QED BY <1>3, <3>1, <3>2, <3>3, NothingIsNoFile
  <2>4. CASE Connect(i)
    <3>1. importAt[i] = "written" /\ importAt'[i] = "connected"
      BY <1>1, <2>4 DEF Connect, Moves, ImportTypeOK
    <3>2. tmp # Nothing /\ files[tmp] = upload[i]
      BY <1>1, <2>1, <3>1 DEF OwnUpload, Running, Over
    <3>3. handle'[i] = tmp /\ files' = files /\ upload' = upload
      BY <1>1, <2>4, <3>2, OpenTmpTyped DEF Connect
    <3>4. QED BY <1>3, <3>1, <3>2, <3>3
  <2>5. CASE ~(Truncate(i) \/ Write(i) \/ Connect(i))
    <3>1. importAt'[i] \notin {"opened", "written", "connected"}
      BY <1>1, <2>5
      DEF ImportStep, Accept, Refuse, CopyLive, Raises, Replace, BackupRaises, Leave, Moves,
          ImportTypeOK
    <3>2. QED BY <1>3, <3>1
  <2>6. QED BY <2>2, <2>3, <2>4, <2>5
<1>4. QED BY <1>2, <1>3

LEMMA CopiedKept ==
  ASSUME IInv, NEW i \in Imports, ImportStep(i)
  PROVE  Copied'
<1> SUFFICES ASSUME NEW j \in Running', j \notin shared',
                    importAt'[j] \in {"copying", "opened", "written", "connected"}
             PROVE  CopyOf(j)'
  BY DEF Copied, CopyOf
<1>1. TypeOK /\ ImportTypeOK /\ Overlaps /\ StoreTypeOK
  BY TypeParts DEF IInv
<1>2. ASSUME j \in Running \ shared,
             importAt[j] \in {"copying", "opened", "written", "connected"},
             UNCHANGED <<live, second, baks, late>>
      PROVE  CopyOf(j)'
  BY <1>2 DEF IInv, Copied, CopyOf
<1>3. CASE j # i
  <2>1. j \in Running \ shared /\ Refuse(i)
    BY <1>1, <1>3, LoneIsAlone
  <2>2. UNCHANGED <<live, second, baks, late>> /\ importAt'[j] = importAt[j]
    BY <1>1, <1>3, <2>1, StepApart DEF Refuse, Steady, Running
  <2>3. QED BY <1>2, <2>1, <2>2
<1>4. CASE j = i
  <2>1. i \notin shared
    BY <1>1, <1>4, OverlapsKept
  <2>2. CASE CopyLive(i)
    <3>1. second' \in 0..MaxSecond /\ second' \in 0..second'
      BY <1>1, <2>2, TransferAssumption DEF CopyLive, StoreTypeOK
    <3>2. baks'[second'] = live /\ live' = live
      BY <1>1, <2>2, <3>1 DEF CopyLive, StoreTypeOK
    <3>3. QED BY <1>4, <3>1, <3>2 DEF CopyOf
  <2>3. CASE Truncate(i) \/ Write(i) \/ Connect(i)
    <3>1. /\ importAt[i] \in {"copying", "opened", "written"}
          /\ UNCHANGED <<live, second, baks, late>>
      BY <2>3 DEF Truncate, Write, Connect, Moves, Steady
    <3>2. i \in Running \ shared
      BY <2>1, <3>1 DEF Running, Over
    <3>3. QED BY <1>2, <1>4, <3>1, <3>2
  <2>4. CASE ~(CopyLive(i) \/ Truncate(i) \/ Write(i) \/ Connect(i))
    <3>1. importAt'[i] \notin {"copying", "opened", "written", "connected"}
      BY <1>1, <2>4
      DEF ImportStep, Accept, Refuse, Raises, Replace, BackupRaises, Leave, Moves,
          ImportTypeOK
    <3>2. QED BY <1>4, <3>1
  <2>5. QED BY <2>2, <2>3, <2>4
<1>5. QED BY <1>3, <1>4

LEMMA IInvKept ==
  ASSUME IInv, [Next]_vars
  PROVE  IInv'
<1>1. TypeOK'
  BY TypeKept DEF IInv
<1>2. ASSUME NEW r \in Rows, Record(r) PROVE IInv'
  <2>1. UNCHANGED <<files, tmp, importAt, upload, handle, second, shared>>
        /\ Running' = Running
    BY <1>2 DEF Record, Running
  <2>2. \A i \in Running : live' \ late'[i] \subseteq live \ late[i] /\ r \in late'[i]
    BY <1>2 DEF Record, Commit, Running, IInv, TypeOK
  <2>3. \A s \in 0..second : baks'[s] = baks[s] \/ baks'[s] = Torn
    <3>1. TearCopy /\ second' = second
      BY <1>2 DEF Record, Commit
    <3>2. baks \in [0..MaxSecond -> Contents \cup {Nothing, Torn}]
          /\ second \in 0..MaxSecond /\ MaxSecond \in Nat
      BY TransferAssumption DEF IInv, TypeOK
    <3>3. \A s \in 0..second : s \in 0..MaxSecond
      BY <3>2
    <3>4. QED BY <3>1, <3>2, <3>3 DEF TearCopy
  <2>4. ASSUME NEW i \in Running, CopyOf(i) PROVE CopyOf(i)'
    <3>1. PICK s \in 0..second :
            \/ baks[s] = live
            \/ {live, baks[s]} \subseteq Databases /\ live \ late[i] \subseteq baks[s]
            \/ baks[s] = Torn /\ late[i] # {}
      BY <2>4 DEF CopyOf
    <3>2. live \in Databases /\ live' \in Databases
      BY <1>2, DatabasesAre DEF Record, Commit
    <3>3. live' \ late'[i] \subseteq live \ late[i] /\ late'[i] # {}
      BY <2>2
    <3>4. s \in 0..second' /\ (baks'[s] = baks[s] \/ baks'[s] = Torn)
      BY <2>1, <2>3
    <3>5. CASE baks'[s] = Torn
      BY <3>3, <3>4, <3>5 DEF CopyOf
    <3>6. CASE baks'[s] = baks[s] /\ baks[s] # Torn
      <4>1. {live', baks'[s]} \subseteq Databases /\ live' \ late'[i] \subseteq baks'[s]
        BY <3>1, <3>2, <3>3, <3>6
      <4>2. QED BY <3>4, <4>1 DEF CopyOf
    <3>7. QED BY <3>4, <3>5, <3>6
  <2>5. Copied'
    BY <2>1, <2>4 DEF IInv, Copied
  <2>6. Overlaps' /\ OwnUpload'
    BY <2>1 DEF IInv, Overlaps, OwnUpload
  <2>7. QED BY <1>1, <2>5, <2>6 DEF IInv
<1>3. ASSUME NEW i \in Imports, ImportStep(i) PROVE IInv'
  BY <1>1, <1>3, OverlapsKept, OwnUploadKept, CopiedKept DEF IInv
<1>4. CASE UNCHANGED <<live, importVars, second, shared, late>>
  BY <1>1, <1>4 DEF IInv, Overlaps, OwnUpload, Copied, CopyOf, Running
<1>5. ASSUME NEW e \in Exports, ExportStep(e) PROVE IInv'
  BY <1>4, <1>5 DEF ExportStep, BeginSnapshot, EndSnapshot, SnapshotRaises, BeginSending, EndSending, ExportMoves
<1>6. CASE Stop
  <2>1. Running' = {}
    BY <1>6 DEF Stop, Running, Over
  <2>2. QED BY <1>1, <2>1 DEF IInv, Overlaps, OwnUpload, Copied
<1>7. QED BY <1>2, <1>3, <1>4, <1>5, <1>6 DEF Next, vars

LEMMA Invariant == Spec => []IInv
<1>1. IInv /\ [Next]_vars => IInv'
  BY IInvKept
<1>2. QED BY <1>1, Init_IInv, PTL DEF Spec

(* Every reachable state of a transfer is well typed.                      *)
THEOREM TypeCorrect == Spec => []TypeOK
<1>1. IInv => TypeOK
  BY DEF IInv
<1>2. QED BY <1>1, Invariant, PTL

(* Only the copy of the temporary file over the store takes an import past *)
(* its connect.                                                            *)
LEMMA OnlyReplaces ==
  ASSUME TypeOK, [Next]_vars, NEW i \in Imports, Replaces(i)
  PROVE  Replace(i)
<1>1. ASSUME NEW r \in Rows, Record(r) PROVE FALSE
  BY <1>1 DEF Record, Replaces
<1>2. ASSUME NEW e \in Exports, ExportStep(e) PROVE FALSE
  BY <1>2 DEF ExportStep, BeginSnapshot, EndSnapshot, SnapshotRaises, BeginSending, EndSending, ExportMoves,
              Replaces
<1>3. ASSUME Stop PROVE FALSE
  BY <1>3 DEF Stop, Replaces
<1>4. ASSUME NEW j \in Imports, ImportStep(j) PROVE Replace(i)
  <2>1. j = i
    BY <1>4, StepApart DEF Replaces
  <2>2. QED
    BY <1>4, <2>1
    DEF Replaces, ImportStep, Accept, Refuse, CopyLive, Truncate, Write, Raises, Connect,
        BackupRaises, Leave, Moves, TypeOK
<1>5. ASSUME UNCHANGED vars PROVE FALSE
  BY <1>5 DEF vars, Replaces
<1>6. QED BY <1>1, <1>2, <1>3, <1>4, <1>5 DEF Next

(* An import that no other overlaps makes the store what was uploaded with *)
(* it, whatever temporary file it finds.                                   *)
THEOREM LoneImport == Spec => LoneImportTakesEffect
<1>1. IInv /\ [Next]_vars =>
        [\A i \in Imports \ shared : Replaces(i) => live' = upload[i]]_vars
  <2> SUFFICES ASSUME IInv, [Next]_vars, NEW i \in Imports \ shared, Replaces(i)
               PROVE  live' = upload[i]
    OBVIOUS
  <2>1. Replace(i)
    BY OnlyReplaces DEF IInv
  <2>2. live' = files[handle[i]]
    BY <2>1 DEF Replace, Commit
  <2>3. QED BY <2>2 DEF IInv, OwnUpload, Replaces, Running, Over
<1>2. QED BY <1>1, Invariant, PTL DEF Spec, LoneImportTakesEffect

(* Before it does, one .bak holds all of the store but what was recorded   *)
(* since the copy.                                                         *)
THEOREM BackedUp == Spec => ReplacedIsBackedUp
<1>1. IInv /\ [Next]_vars =>
        [\A i \in Imports \ shared : Replaces(i) => CopyOf(i)]_vars
  BY DEF IInv, Copied, Replaces, Running, Over
<1>2. QED BY <1>1, Invariant, PTL DEF Spec, ReplacedIsBackedUp

-----------------------------------------------------------------------------
(* What an export sends.                                                   *)

(* From its request on, what the store is counts among its states, and the *)
(* snapshot's file holds one of them once its snapshot has ended.          *)
Fresh ==
  \A e \in Exports :
    /\ exportAt[e] # "idle" => live \in states[e]
    /\ exportAt[e] \in {"ready", "sending"} => exported \in states[e]

(* A commit is one of the states of every request under way.               *)
LEMMA CommitFresh ==
  ASSUME Fresh, NEW c, Commit(c), UNCHANGED <<exported, exportAt>>
  PROVE  Fresh'
  BY DEF Fresh, Commit

LEMMA StepFresh ==
  ASSUME TypeOK, Fresh, [Next]_vars
  PROVE  Fresh'
<1>1. ASSUME UNCHANGED <<live, exported, exportAt, states>>
      PROVE  Fresh'
  BY <1>1 DEF Fresh
<1>2. ASSUME NEW r \in Rows, Record(r) PROVE Fresh'
  BY <1>2, CommitFresh DEF Record
<1>3. ASSUME NEW i \in Imports, ImportStep(i) PROVE Fresh'
  <2>1. CASE Replace(i)
    BY <2>1, CommitFresh DEF Replace, Moves
  <2>2. CASE ~Replace(i)
    BY <1>1, <1>3, <2>2
    DEF ImportStep, Accept, Refuse, CopyLive, Truncate, Write, Raises, Connect,
        BackupRaises, Leave, Moves, Steady
  <2>3. QED BY <2>1, <2>2
<1>4. ASSUME NEW e \in Exports, ExportStep(e) PROVE Fresh'
  <2>1. /\ exportAt \in [Exports -> {"idle", "snapshot", "ready", "sending"}]
        /\ states \in [Exports -> SUBSET Contents]
        /\ live' = live
    BY <1>4
    DEF TypeOK, ExportStep, BeginSnapshot, EndSnapshot, SnapshotRaises, BeginSending, EndSending, ExportMoves
  <2>2. CASE BeginSnapshot(e)
    BY <2>1, <2>2 DEF BeginSnapshot, ExportMoves, Fresh
  <2>3. CASE EndSnapshot(e)
    BY <2>1, <2>3 DEF EndSnapshot, ExportMoves, Fresh
  <2>4. CASE BeginSending(e)
    BY <2>1, <2>4 DEF BeginSending, ExportMoves, Fresh
  <2>5. CASE SnapshotRaises(e) \/ EndSending(e)
    BY <2>1, <2>5 DEF SnapshotRaises, EndSending, ExportMoves, Fresh
  <2>6. QED BY <1>4, <2>2, <2>3, <2>4, <2>5 DEF ExportStep
<1>5. CASE Stop
  BY <1>5 DEF Stop, Fresh
<1>6. CASE UNCHANGED vars
  BY <1>1, <1>6 DEF vars
<1>7. QED BY <1>2, <1>3, <1>4, <1>5, <1>6 DEF Next

(* However requests overlap: an export sends a state that the store was in *)
(* since its request, or another export wrote the file meanwhile.          *)
THEOREM FreshExports == Spec => ExportsAreFresh
<1>1. Init => Fresh
  BY DEF Init, Fresh
<1>2. IInv /\ Fresh /\ [Next]_vars => Fresh'
  BY StepFresh DEF IInv
<1>3. Fresh /\ [Next]_vars =>
        [\A e \in Exports :
           exportAt[e] = "sending" /\ exportAt'[e] = "idle" /\ stops' = stops
               /\ reading[e] = Found /\ Found # Torn
             => reading[e] \in states[e]]_vars
  BY DEF Fresh, Found
<1>4. QED BY <1>1, <1>2, <1>3, Invariant, PTL DEF Spec, ExportsAreFresh

=============================================================================

-------------------------------- MODULE MCEstate --------------------------------
(* Instances of Estate for TLC: one export uploaded in two versions, the   *)
(* newer without one of its mappings, and reports.                         *)
EXTENDS Estate, TLC

CONSTANTS export, dump, binary,       (* files                             *)
          old, new, sales, salesToo, junk,  (* contents                    *)
          load, clean,                (* mappings                          *)
          refresh, first, pack, sweep

None == {}
TwoFiles == {export, dump}
Refreshed == {export}
MCContents == {old, new, sales, salesToo, junk}
MCNames == {load, clean}

MCKind == old :> "etl" @@ new :> "etl" @@ sales :> "report" @@ salesToo :> "report"
            @@ junk :> "unknown"
MCPipelines == old :> <<load, clean>> @@ new :> <<clean>> @@ sales :> << >>
            @@ salesToo :> << >> @@ junk :> << >>
MCShips == {<<old, load>>, <<new, clean>>}

NoneShipped == [f \in Files |-> Nothing]
OldShipped  == [f \in Files |-> IF f = export THEN old ELSE Nothing]

Both  == {first, refresh}
Later == {refresh}
OnePack  == {pack}
OneSweep == {sweep}

Up(f, c) == [file |-> f, content |-> c]

(* An export, then a report; meanwhile the export again.                   *)
Interrupted == first :> <<Up(export, old), Up(dump, sales)>>
               @@ refresh :> <<Up(export, new)>>

(* The export twice in one batch, then something else.                     *)
AgainAndJunk == refresh :> <<Up(export, old), Up(export, new), Up(dump, junk)>>

(* Every path its own: the mappings by file and name, the reports by name. *)
MCEtlBase == [k \in Keys |-> <<"etl", k[1], k[2]>>]
OwnNames == [c \in Contents |-> <<"reports", IF c \in {sales, salesToo} THEN c ELSE Nothing>>]
MCBases == {MCEtlBase[k] : k \in Keys} \cup {OwnNames[c] : c \in Contents}

ASSUME OwnPaths == PathsApart

=============================================================================

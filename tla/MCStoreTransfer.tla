---------------------------- MODULE MCStoreTransfer ----------------------------
(***************************************************************************)
(* Instances of StoreTransfer for TLC.                                     *)
(***************************************************************************)
EXTENDS StoreTransfer, TLC

CONSTANTS a

MixedUploads == {{}, {a}, Malformed, Garbage}

(* Requests of one kind are alike.                                         *)
Alike == Permutations(Imports) \cup Permutations(Exports)
=============================================================================

-------------------------- MODULE MCSnapshotStore --------------------------
(* Small instances of SnapshotStore: two update calls, one of them         *)
(* unscoped, and up to two scripts.                                        *)
EXTENDS SnapshotStore
=============================================================================

--------------------------- MODULE MCArchiveStore ---------------------------
(***************************************************************************)
(* Small instances of ArchiveStore: two callers, five files: when one is   *)
(* created, two calls and two versions of the directory use four.          *)
(***************************************************************************)
EXTENDS ArchiveStore

CONSTANTS w1, w2, i1, i2, i3, i4, i5

MCWriter == {w1, w2}
MCInode == {i1, i2, i3, i4, i5}
=============================================================================

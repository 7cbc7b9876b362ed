---------------------------- MODULE MCFileData ----------------------------
(***************************************************************************)
(* FileData for TLC: files are interchangeable.                            *)
(***************************************************************************)
EXTENDS FileData, TLC

Symmetry == Permutations(File)
=============================================================================

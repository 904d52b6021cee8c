--------------------------- MODULE MCAtomicWrite ---------------------------
(* Three writers of one path and two values of different length.  In       *)
(* MCAtomicWrite.cfg they save as WriteJSONAtomic and EnsureZipCache do      *)
(* (the temporary file is removed after a failed rename), in                 *)
(* MCAtomicWriteShared.cfg as WriteCacheFile and saveTokenCache do.          *)
EXTENDS AtomicWrite

CONSTANTS w1, w2, w3, short, long

MCSize == [v \in {short, long} |-> IF v = short THEN 1 ELSE 2]

=============================================================================

----------------------- MODULE MCParallelSolrIndexer -----------------------
(***************************************************************************)
(* Small instances of ParallelSolrIndexer for TLC.                         *)
(***************************************************************************)
EXTENDS ParallelSolrIndexer, TLC

CONSTANTS c1, c2, pathA, pathB

MCConsumers == {c1, c2}
MCPaths == {pathA, pathB}

\* Three lines, two of which name the same image.
MCFileList == <<pathA, pathB, pathA>>

MCSymmetry == Permutations(MCConsumers)

============================================================================

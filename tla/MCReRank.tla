-------------------------------- MODULE MCReRank --------------------------------
(***************************************************************************)
(* Every candidate list over four documents, with every assignment of      *)
(* three distances.                                                        *)
(***************************************************************************)
EXTENDS ReRank

MCDocs == {11, 12, 13, 14}
MCDistances == 0..2
MCRows == {-1, 0, 1, 2, 3, 5}

================================================================================

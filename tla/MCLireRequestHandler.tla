-------------------------- MODULE MCLireRequestHandler --------------------------
(***************************************************************************)
(* Small instances of LireRequestHandler for TLC: two images that share a  *)
(* hash, one that cannot be read and one without features; one request or  *)
(* two.                                                                    *)
(***************************************************************************)
EXTENDS LireRequestHandler

CONSTANTS r1, r2, imageA, imageB, noFile, noFeature

OneRequest == {r1}
TwoRequests == {r1, r2}

MCImages == {imageA, imageB, noFile, noFeature}
MCFeatures == 0..3
MCSchema == KnownFields

\* Scaling changes the feature of B, trimming changes nothing.
MCFeatureOf ==
  [i \in MCImages |->
     [p \in Pipelines |-> IF i # imageB THEN 1 ELSE IF p = "add file" THEN 3 ELSE 2]]

\* Twelve hashes, six of them used by a search: one common to all features, the
\* others the feature's own.  Written in base 10 none of them is one in base 16.
MCHashesOf ==
  [f \in MCFeatures |-> [k \in 1..12 |-> IF k = 1 THEN 10 ELSE 170 + 2 * f + (k % 2)]]

Param(given, image, base, field, rows) ==
  [given |-> given, image |-> image, base |-> base, field |-> field, rows |-> rows]

\* Every kind of request, with and without its optional parameters, with an unknown
\* field, with no result wanted.
MCParams ==
  {Param({"id"}, imageB, 16, f, <<2>>) : f \in {"absent", "oh_ha", "unknown"}} \cup
  {Param({"id"}, imageB, 16, "absent", rows) : rows \in {<<>>, <<0>>, <<-1>>}} \cup
  {Param({"hashes", "feature"}, imageB, b, "oh_ha", <<2>>) : b \in {10, 16}} \cup
  {Param({"hashes", "feature", "id"}, imageB, 16, "unknown", <<2>>),
   Param({"hashes", "feature"}, imageB, 16, "absent", <<2>>),
   Param({"hashes"}, imageB, 16, "absent", <<2>>)} \cup
  {Param({"url"}, imageB, 16, f, <<2>>) : f \in {"absent", "unknown"}} \cup
  {Param({"url"}, i, 16, "absent", <<2>>) : i \in {noFile, noFeature}} \cup
  {Param({"extract"}, i, 16, "absent", <<>>) : i \in {imageA, noFile, noFeature}} \cup
  {Param({}, imageB, 16, "absent", rows) : rows \in {<<>>, <<2>>}}

\* Searches by id, for two threads that meet in the field "time".
TimeParams == {Param({"id"}, imageB, 16, "oh_ha", <<2>>)}

================================================================================

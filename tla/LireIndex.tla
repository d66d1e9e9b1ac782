------------------------------- MODULE LireIndex -------------------------------
(***************************************************************************)
(* What the index holds of an image, and the terms by which it is found.   *)
(*                                                                         *)
(* A feature is a number and the distance of two features is their         *)
(* difference; the histograms of one image stand for each other, so one    *)
(* number does for all its fields.  Hashes are numbers, terms are          *)
(* sequences of digits.                                                    *)
(***************************************************************************)
EXTENDS Integers, FiniteSets, FiniteSetsExt, SequencesExt, TLC

CONSTANTS Images,     \* image files; the path is the document's id
          Features,   \* feature values
          FeatureOf,  \* FeatureOf[image][pipeline]: what extraction gives
          HashesOf,   \* BitSampling.generateHashes of each feature value
          Schema      \* fields the schema declares

KnownFields == {"cl_ha", "ph_ha", "oh_ha", "eh_ha", "jc_ha"}

\* The ways an image becomes a feature: ParallelSolrIndexer trims and scales, the
\* data import handler takes the image as it is, the request handler trims.
Sources == {"add file", "import"}
Pipelines == Sources \cup {"request"}

\* The feature object before an empty value was read into it.
Blank == 0

ASSUME LireIndexAssumption ==
  /\ IsFiniteSet(Images)
  /\ Blank \in Features /\ Features \subseteq Nat
  /\ FeatureOf \in [Images -> [Pipelines -> Features]]
  /\ HashesOf \in [Features -> Seq(0 .. 2^12 - 1) \ {<<>>}]
  /\ KnownFields \ {"oh_ha"} \subseteq Schema /\ Schema \subseteq KnownFields

Distance(a, b) == IF a < b THEN b - a ELSE a - b

--------------------------------------------------------------------------------
(* Terms                                                                   *)

\* The digits of a number, first digit first.
Digits(number, base) ==
  LET digits[n \in 0..number] ==
        IF n < base THEN <<n>> ELSE Append(digits[n \div base], n % base)
  IN digits[number]

\* Integer.toHexString
ToHexString(hash) == Digits(hash, 16)

--------------------------------------------------------------------------------
(* Documents                                                               *)

\* A segment keeps a deleted document, not live, until it is merged away.
Documents == [image : Images, source : Sources, live : BOOLEAN]

\* ParallelSolrIndexer leaves OpponentHistogram out of its features.
FieldsOf(doc) ==
  IF doc.source = "add file" THEN Schema \ {"oh_ha"} ELSE Schema

\* Only ParallelSolrIndexer writes a title.
HasTitle(doc) == doc.source = "add file"

FeatureIn(doc) == FeatureOf[doc.image][doc.source]

\* The text of a hash field, split at white space.
TermsIn(doc, field) ==
  IF field \in FieldsOf(doc)
    THEN {ToHexString(h) : h \in ToSet(HashesOf[FeatureIn(doc)])}
    ELSE {}

\* A document number is a position in the index.
LiveDocs(index) == {d \in DOMAIN index : index[d].live}

\* MultiDocValues.getBinaryValues() gives null when no document, deleted ones
\* included, has a value.
HasBinaryValues(index, field) ==
  \E d \in DOMAIN index : field \in FieldsOf(index[d])

\* get() of a document without a value gives an empty one, from which the
\* feature object reads nothing.
BinaryValue(index, d, field) ==
  IF field \in FieldsOf(index[d]) THEN FeatureIn(index[d]) ELSE Blank

\* The documents a query of optional terms finds.
Matching(index, field, terms) ==
  {d \in LiveDocs(index) : TermsIn(index[d], field) \cap terms # {}}

--------------------------------------------------------------------------------
(* Updates: what a commit leaves, the next searcher sees                   *)

\* The id is the unique key: an older document of the image is deleted.
Without(index, image) ==
  [d \in DOMAIN index |->
     IF index[d].image = image THEN [index[d] EXCEPT !.live = FALSE]
                               ELSE index[d]]

With(index, image, source) ==
  Append(Without(index, image),
         [image |-> image, source |-> source, live |-> TRUE])

\* Document numbers in their order.
Ascending(S) ==
  CHOOSE s \in [1..Cardinality(S) -> S] : \A j, k \in DOMAIN s : j < k => s[j] < s[k]

\* A merge drops deleted documents and renumbers the others.
Merged(index) ==
  LET kept == Ascending(LiveDocs(index)) IN [k \in DOMAIN kept |-> index[kept[k]]]

================================================================================

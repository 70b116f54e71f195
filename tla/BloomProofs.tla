---------------------------- MODULE BloomProofs -----------------------------
(* What the Bloom filters of taint keep, whatever the hash. *)
EXTENDS Bloom, TLAPS

\* A label that was added is found, whatever was in the filter before and is
\* merged into it later (prov_bloom_add, prov_bloom_merge, prov_bloom_in).
THEOREM NoFalseNegative ==
    ASSUME NEW b, NEW c, NEW val
    PROVE  /\ prov_bloom_in(prov_bloom_merge(prov_bloom_add(b, val), c), val)
           /\ prov_bloom_in(prov_bloom_merge(c, prov_bloom_add(b, val)), val)
  BY DEF prov_bloom_in, prov_bloom_match, prov_bloom_add, prov_bloom_merge

\* Adding a label, and merging, do to the filters what adding and union do to the
\* sets of labels, so that the filter of a node in the code is the filter of the
\* labels the node has in Record.
THEOREM FilterOfLabels ==
    ASSUME NEW L, NEW M, NEW val
    PROVE  /\ BloomOf({}) = {}
           /\ BloomOf(L \cup {val}) = prov_bloom_add(BloomOf(L), val)
           /\ BloomOf(L \cup M) = prov_bloom_merge(BloomOf(L), BloomOf(M))
  BY DEF BloomOf, prov_bloom_add, prov_bloom_merge

\* A node that has all the labels of another matches it (prov_bloom_match), as
\* the taint of a receiver does after a propagating relation.
THEOREM MatchOfLabels ==
    ASSUME NEW L, NEW M, L \subseteq M
    PROVE  prov_bloom_match(BloomOf(M), BloomOf(L))
  BY DEF BloomOf, prov_bloom_match

\* The seven hashes of a label are those of its successors: with two labels seven
\* apart or less in the filter, every label between them is found, added or not.
THEOREM LabelsBetween ==
    ASSUME NEW b, NEW val \in Nat, NEW d \in 0..7, NEW e \in 0..d
    PROVE  prov_bloom_in(prov_bloom_add(prov_bloom_add(b, val), val + d), val + e)
  <1>1. Bits(val + e) \subseteq Bits(val) \cup Bits(val + d)
    <2>1. SUFFICES ASSUME NEW i \in 0..6
                   PROVE  prov_hash(val + e + i) % 256 \in Bits(val) \cup Bits(val + d)
      BY DEF Bits, PROV_K_HASH, PROV_M_BITS
    <2>2. CASE e + i <= 6
      <3>1. val + e + i = val + (e + i) /\ e + i \in 0..6
        BY <2>2
      <3> QED
        BY <3>1 DEF Bits, PROV_K_HASH, PROV_M_BITS
    <2>3. CASE e + i >= 7
      <3>1. val + e + i = val + d + (e + i - d) /\ e + i - d \in 0..6
        BY <2>3
      <3> QED
        BY <3>1 DEF Bits, PROV_K_HASH, PROV_M_BITS
    <2> QED
      BY <2>2, <2>3
  <1> QED
    BY <1>1 DEF prov_bloom_in, prov_bloom_match, prov_bloom_add
=============================================================================

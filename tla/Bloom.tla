------------------------------- MODULE Bloom --------------------------------
(***************************************************************************)
(* The Bloom filters in which nodes keep their taint (prov_bloom_* of      *)
(* uapi/linux/provenance.h), as the sets of the bits that are set.  Record *)
(* keeps the labels themselves; BloomOf relates the two.                   *)
(***************************************************************************)
EXTENDS Integers, FiniteSetsExt

PROV_K_HASH == 7
PROV_M_BITS == 256

\* The bytes of PROV_GOLDEN_RATIO_64, the lowest first, and of a label below 2^31.
Golden == [i \in 0..7 |-> <<235, 131, 181, 128, 70, 134, 200, 97>>[i + 1]]
Byte(val, i) == IF i > 3 THEN 0 ELSE (val \div 256^i) % 256

\* prov_hash: the highest byte of the 64-bit product with the golden ratio.
prov_hash(val) ==
    LET column[k \in 0..7] == MapThenSumSet(LAMBDA i : Byte(val, i) * Golden[k - i], 0..k)
        sum[k \in 0..7] == column[k] + IF k = 0 THEN 0 ELSE sum[k - 1] \div 256
    IN  sum[7] % 256

\* The bits of a label.
Bits(val) == {prov_hash(val + i) % PROV_M_BITS : i \in 0..(PROV_K_HASH - 1)}

prov_bloom_add(bloom, val) == bloom \cup Bits(val)

\* Every bit of set is in super.
prov_bloom_match(super, set) == \A b \in set : b \in super

prov_bloom_in(bloom, val) == prov_bloom_match(bloom, prov_bloom_add({}, val))

prov_bloom_merge(dest, src) == dest \cup src

prov_bloom_empty(bloom) == bloom = {}

\* The filter to which the labels in L were added.
BloomOf(L) == UNION {Bits(l) : l \in L}

\* Known values of prov_hash: 1, 2 and 3 times the golden ratio, and a product
\* that overflows.
ASSUME HashValues ==
    <<prov_hash(0), prov_hash(1), prov_hash(2), prov_hash(3), prov_hash(1000000007)>>
        = <<0, 97, 195, 37, 236>>
=============================================================================

----------------------------- MODULE MCHashmap -----------------------------
(* Small instances of Hashmap for TLC. *)
EXTENDS Hashmap

CONSTANTS ka, ka2, kb, kc, kd, v1, v2

(* Keys ka and ka2 are two pointers to the same text.  With 3 buckets ka,  *)
(* kc and kd share a bucket; after one resize (6 buckets) and after two    *)
(* (12 buckets) ka and kc still do.                                        *)
KeysFive  == {ka, ka2, kb, kc, kd}
KeysFour  == {ka, ka2, kc, kd}
ValsTwo   == {v1, v2}
ValsThree == {v1, v2, Null}

TextsAll ==
  [k \in Keys \cup {Null} |-> IF k = ka2 THEN ka ELSE k]

HashColliding ==
  [k \in Keys |-> IF k = kb THEN 1 ELSE IF k = kc THEN 12 ELSE IF k = kd THEN 3 ELSE 0]

NoSite    == {}
AllSites  == CallocSites
NotRehash == CallocSites \ {"rehash"}

=============================================================================

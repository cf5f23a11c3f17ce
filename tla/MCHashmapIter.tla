--------------------------- MODULE MCHashmapIter ---------------------------
(* Small instances of HashmapIter for TLC. *)
EXTENDS HashmapIter

CONSTANTS ka, ka2, kc, kd, v1

(* Keys ka and ka2 are two pointers to the same text.  With 3 buckets ka,  *)
(* kc and kd share a bucket; after one resize (6 buckets) ka and kc do.    *)
KeysFour == {ka, ka2, kc, kd}
ValsOne  == {v1}

TextsAll == [k \in Keys \cup {Null} |-> IF k = ka2 THEN ka ELSE k]

HashColliding ==
  [k \in Keys |-> IF k = kc THEN 12 ELSE IF k = kd THEN 3 ELSE 0]

NoSite == {}

=============================================================================

-------------------------------- MODULE Maps --------------------------------
(***************************************************************************)
(* Ordered maps of the canisters (Rust BTreeMap) as partial functions: the *)
(* domain is the set of keys that are present.                             *)
(***************************************************************************)

\* f has keys in K and values in V.
IsMap(f, K, V) == DOMAIN f \subseteq K /\ f \in [DOMAIN f -> V]

\* The map f after insert(k, v): k is added, or its value replaced.
Put(f, k, v) == [x \in DOMAIN f \cup {k} |-> IF x = k THEN v ELSE f[x]]

EmptyMap == [x \in {} |-> x]
=============================================================================

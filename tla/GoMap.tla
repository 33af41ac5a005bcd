------------------------------- MODULE GoMap --------------------------------
(***************************************************************************)
(* A Go map is a function whose DOMAIN holds the keys that are present.    *)
(***************************************************************************)

Empty == [x \in {} |-> x]

\* delete(f, k) for every k of D, and f[k] = v.
Delete(f, D) == [x \in DOMAIN f \ D |-> f[x]]
Put(f, k, v) == [x \in DOMAIN f \cup {k} |-> IF x = k THEN v ELSE f[x]]

\* Looking up a map: the values found, at most one.
Lookup(f, k) == {f[x] : x \in DOMAIN f \cap {k}}

=============================================================================

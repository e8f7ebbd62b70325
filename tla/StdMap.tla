------------------------------ MODULE StdMap ------------------------------
(***************************************************************************)
(* std::map as the code uses it: a function whose domain is the keys.      *)
(***************************************************************************)

EmptyMap == [key \in {} |-> 0]

\* map.erase(key)
Erase(map, key) == [k \in DOMAIN map \ {key} |-> map[k]]

\* map[key] = value
Put(map, key, value) ==
    [k \in DOMAIN map \cup {key} |-> IF k = key THEN value ELSE map[k]]
===========================================================================

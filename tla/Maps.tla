-------------------------------- MODULE Maps --------------------------------
(***************************************************************************)
(* Finite maps, for the std::map members and the tables of the models.     *)
(***************************************************************************)

EmptyMap == [k \in {} |-> {}]

\* The map f with the value at key k replaced by v (inserted if absent).
Put(f, k, v) == [j \in DOMAIN f \cup {k} |-> IF j = k THEN v ELSE f[j]]
=============================================================================

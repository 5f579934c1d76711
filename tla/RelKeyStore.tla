---------------------------- MODULE RelKeyStore ----------------------------
(***************************************************************************)
(* What the relation key map promises to the storage manager: from the     *)
(* moment a relation exists until it is dropped it is bound to one         *)
(* internal key, or to none if it is not encrypted, and nothing the        *)
(* principal key machinery does (rotation, fallback to the default key,    *)
(* deletion of principal keys, crashes) changes or loses that binding.     *)
(***************************************************************************)
CONSTANTS Loc, RelKey, None, Gone

VARIABLE store    \* store[l]: Gone, None (a plain relation) or an internal key

StoreInit == store = [l \in Loc |-> Gone]

\* A relation comes into existence with its key.
Bind(l, k) ==
    /\ store[l] = Gone
    /\ store' = [store EXCEPT ![l] = k]

\* A relation is dropped.
Unbind(l) ==
    /\ store[l] # Gone
    /\ store' = [store EXCEPT ![l] = Gone]

StoreNext ==
    \E l \in Loc : Unbind(l) \/ \E k \in RelKey \cup {None} : Bind(l, k)

StoreSpec == StoreInit /\ [][StoreNext]_store

=============================================================================

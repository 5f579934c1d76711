----------------------------- MODULE KeyMapFile -----------------------------
(***************************************************************************)
(* The per-database key file "<dboid>_keys": a header that names (and is   *)
(* signed with) one principal key, and an array of fixed-size map entries, *)
(* each either EMPTY or a relation's internal key wrapped with a principal *)
(* key.  The operators are the pure part of open_pg_tde_tdemap.c: what a   *)
(* scan finds, which slot a save writes, what each operation leaves in the *)
(* file.  Wrapping is AES-GCM: an entry opens only under the principal key *)
(* it was made with, so an entry records that key in the field "by".       *)
(***************************************************************************)
EXTENDS Naturals, Sequences

CONSTANTS
    Rel,      \* relation file locators (spcOid, relNumber) of one database
    RelKey,   \* internal (relation) keys
    PKey,     \* principal keys, identified by provider and name
    None      \* "no value"

ASSUME NoneAssumption == None \notin (Rel \cup RelKey \cup PKey)

-----------------------------------------------------------------------------
(* Map entries.  MAP_ENTRY_TYPE_EMPTY is the all-zero entry.               *)

EmptyEntry == [rel |-> None, key |-> None, by |-> None]

KeyEntry(r, k, p) == [rel |-> r, key |-> k, by |-> p]

\* A rotation opens an entry and wraps the relation key with k.
RewrapForgotten(e, k) == e
Rewrap(e, k) == KeyEntry(e.rel, e.key, k)

KeyEntries == [rel : Rel, key : RelKey, by : PKey]

Entries == KeyEntries \cup {EmptyEntry}

(* A key file.  A missing file and an empty one both have no header.       *)

KeyFiles ==
    [present : BOOLEAN, hdr : PKey \cup {None}, slots : Seq(Entries)]

NoFile == [present |-> FALSE, hdr |-> None, slots |-> << >>]

-----------------------------------------------------------------------------
(* Opening.                                                                *)

\* Opened for write without truncation: the file is created if missing and
\* gets a header if it has none and the caller (p # None) supplies one.
OpenedForWrite(f, p) ==
    IF f.hdr = None THEN [present |-> TRUE, hdr |-> p, slots |-> << >>] ELSE f

\* Opened with O_TRUNC, before the header is written.
Truncated == [present |-> TRUE, hdr |-> None, slots |-> << >>]

\* Truncated and given a header: all a file holds after saving a principal key.
HeaderOnly(p) == [present |-> TRUE, hdr |-> p, slots |-> << >>]

-----------------------------------------------------------------------------
(* Scanning.                                                               *)

HasEntry(f, r) == \E i \in DOMAIN f.slots : f.slots[i].rel = r

\* The slot a lookup of r stops at: the first entry for r.
FirstEntry(f, r, i) ==
    /\ i \in DOMAIN f.slots
    /\ f.slots[i].rel = r
    /\ \A j \in 1 .. (i - 1) : f.slots[j].rel # r

HasEmpty(f) == \E i \in DOMAIN f.slots : f.slots[i] = EmptyEntry

FirstEmpty(f, i) ==
    /\ i \in DOMAIN f.slots
    /\ f.slots[i] = EmptyEntry
    /\ \A j \in 1 .. (i - 1) : f.slots[j] # EmptyEntry

\* Number of keys is zero.
NoKeysUncounted(f) == TRUE
NoKeys(f) == \A i \in DOMAIN f.slots : f.slots[i] = EmptyEntry

\* The slot a save of r writes: r's own entry, else the first free one, else
\* one past the end of the file.
WriteSlotFirstEmpty(f, r, i) ==
    \/ FirstEmpty(f, i)
    \/ ~HasEmpty(f) /\ i = Len(f.slots) + 1
WriteSlot(f, r, i) ==
    \/ FirstEntry(f, r, i)
    \/ ~HasEntry(f, r) /\ FirstEmpty(f, i)
    \/ ~HasEntry(f, r) /\ ~HasEmpty(f) /\ i = Len(f.slots) + 1

-----------------------------------------------------------------------------
(* Writing.                                                                *)

\* One entry written at slot i, which may be one past the end.
PutEntry(f, i, e) ==
    [f EXCEPT !.slots =
        IF i = Len(f.slots) + 1 THEN Append(f.slots, e)
                                ELSE [f.slots EXCEPT ![i] = e]]

=============================================================================

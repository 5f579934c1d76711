---------------------------- MODULE KeyProviders ----------------------------
(***************************************************************************)
(* Key providers and file keyrings.  A provider file per database, and one *)
(* for the global providers, holds records that name a keyring; a keyring  *)
(* file holds the principal keys by name.  The header of a key file names  *)
(* its principal key by provider id and key name and is signed with it.    *)
(*                                                                         *)
(* Two locks are involved: tde_provider_info_lock() protects the provider  *)
(* files and is held for single reads and writes, which are steps here;    *)
(* tde_lwlock_enc_keys() protects the headers.  Nothing protects a keyring *)
(* file.  Changing and deleting a provider look it up, check the headers   *)
(* and write the record in three separate steps.                           *)
(*                                                                         *)
(* When principal keys are set, followed or deleted is KeyMap's subject;   *)
(* here it matters only what headers then say.                             *)
(***************************************************************************)
EXTENDS Integers, Sequences

CONSTANTS
    Db,          \* databases
    Global,      \* GLOBAL_DATA_TDE_OID: scope of global providers, and server key
    Default,     \* DEFAULT_DATA_TDE_OID: default principal key
    Owner,       \* key files used: a subset of Db \cup {Global, Default}
    Name,        \* provider names
    Fold,        \* Fold[n]: name n with case folded
    Place,       \* keyring files
    KeyName,     \* principal key names (compared with case folded)
    Proc,        \* backends
    Changeable,  \* scopes whose providers are changed
    MaxRecords,  \* largest provider id, hence bound on the records of a file
    MaxKeys,     \* bound: principal keys ever generated
    None

ASSUME KeyProvidersAssumption ==
    /\ Global \notin Db /\ Default \notin Db \cup {Global}
    /\ Owner \subseteq Db \cup {Global, Default}
    /\ DOMAIN Fold = Name
    /\ Changeable \subseteq Db \cup {Global}
    /\ None \notin Name \cup Place \cup KeyName \cup Proc \cup Db \cup {Global, Default}
    /\ MaxRecords \in Nat /\ MaxKeys \in Nat

VARIABLES
    prov,    \* prov[s]: records of the provider file of scope s
    ring,    \* ring[f]: entries of keyring file f
    hdr,     \* hdr[o]: header of the key file of o, or None
    made,    \* principal keys generated so far; the n-th has material n
    lock,    \* holder of tde_lwlock_enc_keys(), or None
    pc,      \* where each backend is
    job      \* what each backend has looked up

vars == <<prov, ring, hdr, made, lock, pc, job>>

Scope == Db \cup {Global}

Ids == -MaxRecords .. MaxRecords

-----------------------------------------------------------------------------
(* Types.                                                                  *)

\* A deleted record (UNKNOWN_KEY_PROVIDER) keeps nothing but its id.
Records == [id : Ids, name : Name \cup {None}, place : Place \cup {None}]

Keys == [name : KeyName, mat : 1 .. MaxKeys]

Headers == [prov : Ids, key : Keys]

PCs ==
    {"idle", "change_verify", "change_write", "delete_check", "delete_write",
     "create_seek", "create_write", "set_write"}

Jobs ==
    [scope : Scope \cup {None}, name : Name \cup {None}, id : Ids,
     place : Place \cup {None}, key : Keys \cup {None}, owner : Owner \cup {None},
     at : 0 .. MaxKeys + 1]

NoJob ==
    [scope |-> None, name |-> None, id |-> 0, place |-> None, key |-> None,
     owner |-> None, at |-> 0]

\* Every variable has its type.
TypeOK ==
    /\ prov \in [Scope -> Seq(Records)]
    /\ ring \in [Place -> Seq(Keys)]
    /\ hdr \in [Owner -> Headers \cup {None}]
    /\ made \in 0 .. MaxKeys
    /\ lock \in Proc \cup {None}
    /\ pc \in [Proc -> PCs]
    /\ job \in [Proc -> Jobs]

Init ==
    /\ prov = [s \in Scope |-> << >>]
    /\ ring = [f \in Place |-> << >>]
    /\ hdr = [o \in Owner |-> None]
    /\ made = 0
    /\ lock = None
    /\ pc = [p \in Proc |-> "idle"]
    /\ job = [p \in Proc |-> NoJob]

-----------------------------------------------------------------------------
(* Scans of a provider file.                                               *)

Live(r) == r.name # None

First(seq, i, P(_)) ==
    /\ i \in DOMAIN seq
    /\ P(seq[i])
    /\ \A j \in 1 .. (i - 1) : ~P(seq[j])

\* GetKeyProviderByName: the first record whose name is n but for its case.
ByName(s, n, i) ==
    LET match(r) == Live(r) /\ Fold[r.name] = Fold[n] IN First(prov[s], i, match)

\* get_keyring_info_file_record_by_name: the name is compared exactly.
ByExactName(s, n, i) ==
    LET match(r) == Live(r) /\ r.name = n IN First(prov[s], i, match)

\* GetKeyProviderByID: negative ids are global providers.
ScopeOf(o, id) == IF id < 0 THEN Global ELSE o

\* The key a keyring file has under name k is the first entry of that name.
KeyAt(f, k, key) ==
    \E i \in DOMAIN ring[f] :
        /\ ring[f][i] = key /\ key.name = k
        /\ \A j \in 1 .. (i - 1) : ring[f][j].name # k

HasKey(f, k) == \E i \in DOMAIN ring[f] : ring[f][i].name = k

\* write_key_provider_info: the record goes to its place in the file, or is the
\* new last one, by one durable write.
WriteProvider(s, i, r) ==
    prov' = [prov EXCEPT ![s] = IF i > Len(@) THEN Append(@, r) ELSE [@ EXCEPT ![i] = r]]

Goto(p, step) == pc' = [pc EXCEPT ![p] = step]

Finish(p) == Goto(p, "idle") /\ job' = [job EXCEPT ![p] = NoJob]

-----------------------------------------------------------------------------
(* Adding a provider, under the provider lock.                             *)

Magnitude(i) == IF i < 0 THEN -i ELSE i

\* The largest id in the file, deleted records included; 0 if there is none.
LargestIdOfLive(s, m) ==
    /\ \A i \in DOMAIN prov[s] : Live(prov[s][i]) => Magnitude(prov[s][i].id) <= m
    /\ m = 0 \/ \E i \in DOMAIN prov[s] : Live(prov[s][i]) /\ Magnitude(prov[s][i].id) = m
LargestId(s, m) ==
    /\ \A i \in DOMAIN prov[s] : Magnitude(prov[s][i].id) <= m
    /\ m = 0 \/ \E i \in DOMAIN prov[s] : Magnitude(prov[s][i].id) = m

\* The ids are not used up (PG_INT32_MAX in the code).
IdLeft(m) == m < MaxRecords

NameTaken(s, n) == \E i \in DOMAIN prov[s] : prov[s][i].name = n

\* save_new_key_provider_info
SaveNewProvider(s, n, f) ==
    /\ ~NameTaken(s, n)
    /\ \E m \in 0 .. MaxRecords :
          /\ LargestId(s, m)
          /\ IdLeft(m)
          /\ WriteProvider(s, Len(prov[s]) + 1,
                           [id |-> IF s = Global THEN -(m + 1) ELSE m + 1,
                            name |-> n, place |-> f])

AddProvider(p, s, n, f) ==
    /\ pc[p] = "idle"
    /\ SaveNewProvider(s, n, f)
    /\ UNCHANGED <<ring, hdr, made, lock, pc, job>>

-----------------------------------------------------------------------------
(* Changing where a provider keeps its keys.                               *)

ChangeProvider(p, s, n, f) ==
    /\ pc[p] = "idle"
    /\ s \in Changeable
    /\ \E i \in DOMAIN prov[s] :
          /\ ByName(s, n, i)
          /\ job' = [job EXCEPT ![p] = [NoJob EXCEPT !.scope = s, !.name = n,
                                            !.id = prov[s][i].id, !.place = f]]
    /\ Goto(p, "change_verify")
    /\ UNCHANGED <<prov, ring, hdr, made, lock>>

\* open_pg_tde_verify_provider_keys_in_use: the server key and the key of every
\* database that have this id must be in the new place.
VerifiedUnsigned(id, f) ==
    \A o \in Owner \ {Default} :
        hdr[o] # None /\ hdr[o].prov = id => HasKey(f, hdr[o].key.name)
Verified(id, f) ==
    \A o \in Owner \ {Default} :
        hdr[o] # None /\ hdr[o].prov = id => KeyAt(f, hdr[o].key.name, hdr[o].key)

ChangeVerify(p) ==
    /\ pc[p] = "change_verify"
    /\ lock = None
    /\ \/ Verified(job[p].id, job[p].place) /\ Goto(p, "change_write") /\ UNCHANGED job
       \/ ~Verified(job[p].id, job[p].place) /\ Finish(p)
    /\ UNCHANGED <<prov, ring, hdr, made, lock>>

\* modify_key_provider_info
ChangeWrite(p) ==
    LET s == job[p].scope  n == job[p].name IN
    /\ pc[p] = "change_write"
    /\ \/ \E i \in DOMAIN prov[s] :
             /\ ByExactName(s, n, i)
             /\ prov[s][i].id = job[p].id
             /\ WriteProvider(s, i, [prov[s][i] EXCEPT !.place = job[p].place])
       \/ /\ ~\E i \in DOMAIN prov[s] : ByExactName(s, n, i) /\ prov[s][i].id = job[p].id
          /\ UNCHANGED prov
    /\ Finish(p)
    /\ UNCHANGED <<ring, hdr, made, lock>>

-----------------------------------------------------------------------------
(* Deleting a provider.                                                    *)

DeleteProvider(p, s, n) ==
    /\ pc[p] = "idle"
    /\ \E i \in DOMAIN prov[s] :
          /\ ByName(s, n, i)
          /\ job' = [job EXCEPT ![p] = [NoJob EXCEPT !.scope = s, !.name = n,
                                                     !.id = prov[s][i].id]]
    /\ Goto(p, "delete_check")
    /\ UNCHANGED <<prov, ring, hdr, made, lock>>

\* open_pg_tde_is_provider_used: of a global provider by any key file, of a
\* database's provider by that database.
UsedHere(s, id) == s \in Owner /\ hdr[s] # None /\ hdr[s].prov = id
Used(s, id) ==
    \E o \in Owner : /\ s = Global \/ o = s
                     /\ hdr[o] # None
                     /\ hdr[o].prov = id

DeleteCheck(p) ==
    /\ pc[p] = "delete_check"
    /\ lock = None
    /\ \/ Used(job[p].scope, job[p].id) /\ Finish(p)
       \/ ~Used(job[p].scope, job[p].id) /\ Goto(p, "delete_write") /\ UNCHANGED job
    /\ UNCHANGED <<prov, ring, hdr, made, lock>>

\* delete_key_provider_info: the id stays in the file.
DeleteWrite(p) ==
    LET s == job[p].scope  n == job[p].name IN
    /\ pc[p] = "delete_write"
    /\ \/ \E i \in DOMAIN prov[s] :
             /\ ByExactName(s, n, i)
             /\ WriteProvider(s, i, [id |-> prov[s][i].id, name |-> None, place |-> None])
       \/ /\ ~\E i \in DOMAIN prov[s] : ByExactName(s, n, i)
          /\ UNCHANGED prov
    /\ Finish(p)
    /\ UNCHANGED <<ring, hdr, made, lock>>

-----------------------------------------------------------------------------
(* Generating a principal key, without any lock.                           *)

GenerateNewKey(k) == [name |-> k, mat |-> made + 1]

\* The name is not in the keyring yet.
CreateKey(p, s, n, k) ==
    /\ pc[p] = "idle"
    /\ made < MaxKeys
    /\ \E i \in DOMAIN prov[s] :
          /\ ByName(s, n, i)
          /\ ~HasKey(prov[s][i].place, k)
          /\ made' = made + 1
          /\ job' = [job EXCEPT ![p] = [NoJob EXCEPT !.place = prov[s][i].place,
                                            !.key = GenerateNewKey(k)]]
    /\ Goto(p, "create_seek")
    /\ UNCHANGED <<prov, ring, hdr, lock>>

\* set_key_by_name looks for the name again and finds the end of the file ...
CreateSeek(p) ==
    LET f == job[p].place IN
    /\ pc[p] = "create_seek"
    /\ IF HasKey(f, job[p].key.name)
       THEN Finish(p)
       ELSE /\ Goto(p, "create_write")
            /\ job' = [job EXCEPT ![p].at = Len(ring[f]) + 1]
    /\ UNCHANGED <<prov, ring, hdr, made, lock>>

\* ... and writes there.
CreateWrite(p) ==
    LET f == job[p].place  i == job[p].at IN
    /\ pc[p] = "create_write"
    /\ ring' = [ring EXCEPT ![f] = IF i > Len(@) THEN Append(@, job[p].key)
                                   ELSE [@ EXCEPT ![i] = job[p].key]]
    /\ Finish(p)
    /\ UNCHANGED <<prov, hdr, made, lock>>

-----------------------------------------------------------------------------
(* Principal keys.                                                         *)

\* Which providers the SQL functions offer for the key of o: a database may use
\* its own and the global ones, the server key and the default key global ones.
MayUse(o, s) == s = Global \/ s = o

\* set_principal_key_with_keyring: provider and key are looked up with the
\* lock held ...
SetKey(p, o, s, n, k) ==
    /\ pc[p] = "idle"
    /\ lock = None
    /\ MayUse(o, s)
    /\ \E i \in DOMAIN prov[s], m \in 1 .. MaxKeys :
          LET key == [name |-> k, mat |-> m] IN
          /\ ByName(s, n, i)
          /\ KeyAt(prov[s][i].place, k, key)
          /\ job' = [job EXCEPT ![p] = [NoJob EXCEPT !.owner = o, !.id = prov[s][i].id,
                                                     !.key = key]]
    /\ lock' = p
    /\ Goto(p, "set_write")
    /\ UNCHANGED <<prov, ring, hdr, made>>

\* ... and the header is written.
SetWrite(p) ==
    /\ pc[p] = "set_write"
    /\ hdr' = [hdr EXCEPT ![job[p].owner] = [prov |-> job[p].id, key |-> job[p].key]]
    /\ lock' = None
    /\ Finish(p)
    /\ UNCHANGED <<prov, ring, made>>

\* A database takes over the default key, by fallback or rotation.
AdoptDefault(o) ==
    /\ lock = None
    /\ o \in Owner \ {Default} /\ Default \in Owner
    /\ hdr[Default] # None
    /\ hdr' = [hdr EXCEPT ![o] = hdr[Default]]
    /\ UNCHANGED <<prov, ring, made, lock, pc, job>>

DeleteKey(o) ==
    /\ lock = None
    /\ hdr[o] # None
    /\ hdr' = [hdr EXCEPT ![o] = None]
    /\ UNCHANGED <<prov, ring, made, lock, pc, job>>

\* Every file is written by one durable write per step; WAL replay repeats the
\* provider records at their old offsets.
Crash ==
    /\ \E p \in Proc : pc[p] # "idle"
    /\ lock' = None
    /\ pc' = [p \in Proc |-> "idle"]
    /\ job' = [p \in Proc |-> NoJob]
    /\ UNCHANGED <<prov, ring, hdr, made>>

Next ==
    \/ \E p \in Proc, s \in Scope, n \in Name :
          \/ \E f \in Place : AddProvider(p, s, n, f) \/ ChangeProvider(p, s, n, f)
          \/ DeleteProvider(p, s, n)
          \/ \E k \in KeyName : CreateKey(p, s, n, k)
          \/ \E o \in Owner, k \in KeyName : SetKey(p, o, s, n, k)
    \/ \E p \in Proc :
          \/ ChangeVerify(p) \/ ChangeWrite(p) \/ DeleteCheck(p) \/ DeleteWrite(p)
          \/ CreateSeek(p) \/ CreateWrite(p) \/ SetWrite(p)
    \/ \E o \in Owner : AdoptDefault(o) \/ DeleteKey(o)
    \/ Crash

Spec == Init /\ [][Next]_vars

-----------------------------------------------------------------------------
(* Safety.                                                                 *)

\* Ids stay in their width, and no two records of a provider file have the same
\* one, deleted ones included: an id in a header never comes to mean a provider
\* added later.
IdsNeverReused ==
    /\ TypeOK
    /\ \A s \in Scope : \A i, j \in DOMAIN prov[s] :
           prov[s][i].id = prov[s][j].id => i = j

\* get_principal_key_from_keyring succeeds for o: the provider is there, has
\* the key and the header's signature matches it.
Loadable(o) ==
    hdr[o] # None =>
        \E i \in DOMAIN prov[ScopeOf(o, hdr[o].prov)] :
            LET r == prov[ScopeOf(o, hdr[o].prov)][i] IN
            /\ Live(r) /\ r.id = hdr[o].prov
            /\ KeyAt(r.place, hdr[o].key.name, hdr[o].key)

\* The principal keys of the server and of every database can be loaded after
\* a restart, whatever is added, changed, deleted or generated by one backend
\* after the other: a sequence of calls never strands a key file.
KeysLoadable == \A o \in Owner \ {Default} : Loadable(o)

-----------------------------------------------------------------------------
(* What documentation and comments say, and the model refutes.             *)

\* functions.md: only providers that are not in use can be deleted.
UsedProviderKept ==
    \A o \in Owner : hdr[o] # None =>
        \E i \in DOMAIN prov[ScopeOf(o, hdr[o].prov)] :
            /\ Live(prov[ScopeOf(o, hdr[o].prov)][i])
            /\ prov[ScopeOf(o, hdr[o].prov)][i].id = hdr[o].prov

\* The comment in modify_key_provider_info: the ids never differ.  (Read with
\* one backend; with two, the provider may be replaced in between.)
IdsAgree ==
    \A p \in Proc : pc[p] = "change_write" =>
        \A i \in DOMAIN prov[job[p].scope] :
            ByExactName(job[p].scope, job[p].name, i) =>
                prov[job[p].scope][i].id = job[p].id

\* The comment on open_pg_tde_verify_provider_keys_in_use: all keys in use are
\* verified before a provider is modified.
DefaultLoadable == Default \in Owner => Loadable(Default)

\* The comment in set_key_by_name: the key is written to the end of the file.
WritesAtEnd ==
    \A p \in Proc : pc[p] = "create_write" => job[p].at = Len(ring[job[p].place]) + 1

=============================================================================

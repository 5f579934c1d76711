------------------------------ MODULE MCKeyRedo ------------------------------
EXTENDS KeyRedo

CONSTANTS k1, k2, v1, v2

\* Each key has a provider of its own.
ProvOfKey == [k \in {k1, k2} |-> IF k = k1 THEN v1 ELSE v2]

Both == {Primary, Standby}

Scenario(c, r, k, d, v, b, i) ==
    [crash |-> c, replay |-> r, default |-> k, delete |-> d, remove |-> v,
     backup |-> b, install |-> i]

\* A primary that crashes, with a default key, with a standby, with deleted keys
\* too; and a standby that is restarted, with a default key, with deleted keys and
\* providers; and the same of a standby made by a backup, with and without deletions.
\* Last, both with an extension that is installed again.
Replays ==
    {Scenario({Primary}, {Primary}, {k2}, {}, {}, "none", "none"),
     Scenario({Primary}, Both, {}, {}, {}, "none", "none"),
     Scenario({Primary}, Both, {}, {Db}, {}, "none", "none"),
     Scenario({Standby}, Both, {k2}, {}, {}, "none", "none"),
     Scenario({Standby}, Both, {}, {Db}, {v1}, "none", "none"),
     Scenario({Standby}, Both, {}, {}, {}, "between", "none"),
     Scenario({Standby}, Both, {}, {Db}, {v1}, "between", "none"),
     Scenario({Primary}, {Primary}, {}, {}, {}, "none", "committed"),
     Scenario({Standby}, Both, {}, {}, {}, "none", "committed")}

DeletedKey == {Scenario({Primary}, {Primary}, {}, {Db}, {}, "none", "none")}

\* Backups that may begin within a key change.
Backups == {Scenario({}, {Standby}, {}, {}, {}, "any", "none")}

\* A transaction that drops the extension and installs it, and is rolled back.
Reinstalled == {Scenario({}, {Primary}, {}, {}, {}, "none", "any")}

=============================================================================

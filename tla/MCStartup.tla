----------------------------- MODULE MCStartup -----------------------------
(* Instances of Startup for TLC. *)
EXTENDS Startup

Content(v, states, c) ==
    [ver |-> v, entries |-> [i \in DOMAIN states |-> [key |-> i, cipher |-> c, state |-> states[i]]]]

\* Version 3 and the first of the WAL have 16-byte keys only, version 4 no longer
\* than 32; version 2 of relation key files has no reader any more.
CipherOf(v) ==
    CASE v \in {1, 3} -> "AES_128" [] v = 4 -> "AES_128_XTS" [] OTHER -> "AES_256_XTS"

RelContents ==
    {Absent, Headless, Content(2, <<>>, "AES_128")}
    \cup {Content(v, es, CipherOf(v)) : v \in {3, 4, 5},
              es \in {<<"empty", "key">>, <<"key", "torn">>}}
    \cup {Content(6, <<"key">>, CipherOf(6))}

WalContents ==
    {Headless}
    \cup {Content(1, es, "AES_128") : es \in {<<"key", "torn">>, <<"key", "key">>}}
    \cup {Content(v, <<"key">>, "AES_256") : v \in {2, 3, 4}}

\* All contents of one file beside ordinary ones of the others, which may have
\* been written by other versions.
MCDirectories ==
    LET d1 == CHOOSE d \in Dbs : TRUE
        make(c, o, w) == [f \in File |-> IF f = Wal THEN w ELSE IF f = d1 THEN c ELSE o]
        other == Content(5, <<"key">>, "AES_128_XTS") IN
    {Nothing}
    \cup {make(c, other, Absent) : c \in RelContents}
    \cup {make(other, Absent, w) : w \in WalContents}
=============================================================================

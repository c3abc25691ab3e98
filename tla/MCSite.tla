--------------------------------- MODULE MCSite ---------------------------------
(* Instances of Site for TLC. *)
EXTENDS Site, TLC

CONSTANTS alice, o1, o2, j1, j2, k1, p1, q1

\* Two projects in one organisation, one in the other.
MCOrgOf     == j1 :> o1 @@ j2 :> o1 @@ k1 :> o2 @@ p1 :> o1 @@ q1 :> o1
MCProjectOf == p1 :> j1 @@ q1 :> None
MCReleases  == p1 :> 2 @@ q1 :> 1

Online  == [database |-> TRUE, wait |-> 3, origin |-> "https", shared_auth |-> TRUE,
            signing |-> "long", client |-> "long", account_scope |-> TRUE]
Bare    == [Online EXCEPT !.database = FALSE, !.origin = "http_loopback",
                          !.shared_auth = FALSE]
NoDatabase == [Online EXCEPT !.database = FALSE]
Refused == {[Online EXCEPT !.origin = "http_remote"], [Online EXCEPT !.signing = "short"],
            [Online EXCEPT !.account_scope = FALSE], [Online EXCEPT !.client = Unset, !.wait = Malformed]}
Public  == [Online EXCEPT !.shared_auth = FALSE]
AllEnvironments == {Online, Bare, NoDatabase, Public} \cup Refused

\* A stranger to a private package, and the admin of its organisation who is a
\* member of another.
Stranger == [orgs |-> {o1}, role |-> alice :> (o1 :> None @@ o2 :> None), direct |-> {},
             visibility |-> p1 :> "private" @@ q1 :> "absent",
             latest |-> p1 :> 1 @@ q1 :> 0]
Admin    == [orgs |-> {o1, o2}, role |-> alice :> (o1 :> "admin" @@ o2 :> "member"),
             direct |-> {}, visibility |-> p1 :> "private" @@ q1 :> "public",
             latest |-> p1 :> 1 @@ q1 :> 1]
\* Paths of up to three bytes after the slash, and escapes of a slash nested up to
\* ten deep.
Plain     == {"/", "%", "x"} \cup Digits
Tails(n)  == UNION {[1 .. k -> Plain] : k \in 0 .. n}
Nested(k) == [i \in 1 .. 2 * k |-> IF i % 2 = 1 THEN "2" ELSE "5"]
Deep(start) == {start \o <<"%">> \o Nested(k) \o <<"2", "f">> : k \in 0 .. 10}
MCPaths   == {HomePage \o tail : tail \in Tails(3)} \cup Deep(HomePage) \cup Deep(<<"/", "x">>)
MCTargets == {<<"/", "x">>, <<"/", "\\", "x">>}

Both == {Stranger, Admin}
================================================================================

------------------------------ MODULE MCService ------------------------------
(***************************************************************************)
(* Finite instances of Service for TLC.                                    *)
(***************************************************************************)
EXTENDS Service, TLC

Env(app, render, secrets, url, trust) ==
    [APP_ENV |-> app, RENDER |-> render, SECRET_KEY |-> secrets, DATABASE_URL |-> url,
     POSTGRES_HOST |-> "localhost", POSTGRES_PASSWORD |-> "shipped",
     FIRST_SUPERUSER_PASSWORD |-> secrets, TRUST_PROXY_HEADERS |-> trust]

\* A checkout run as it is; a service on the platform, configured and behind its
\* proxy, and behind one that appends to the header; one with its APP_ENV mangled;
\* and one that only the check stops.
Deployments ==
    {<<Env(None, FALSE, "shipped", None, FALSE), None>>,
     <<Env("production", TRUE, "own", "postgres", TRUE), "overwrites">>,
     <<Env("production", TRUE, "own", "postgres", TRUE), "appends">>,
     <<Env("unusable", TRUE, "shipped", "postgresql", TRUE), "overwrites">>,
     <<Env("production", TRUE, "shipped", "postgres", FALSE), None>>}

\* Every environment, with no proxy.
AnyEnvironment == Environment \X {None}

\* No header, and a list of which the first element is an address.
Headers == {<<>>} \cup {<<a, None>> : a \in Client}

\* Where LetThroughExactly says nothing, which client has asked plays no part: no
\* guard looks at it.
Seen ==
    IF AsDocumented THEN vars
    ELSE <<hits, deployment, worker, uploads, left,
           [r \in Req |-> IF waiting[r] = None THEN None
                           ELSE <<waiting[r].key, waiting[r].path>>]>>

\* The slots and the uuids are interchangeable, and so are the clients.
Interchangeable == Permutations(Req) \cup Permutations(Uuid) \cup Permutations(Client)
=============================================================================

------------------------------ MODULE RateLimit ------------------------------
(***************************************************************************)
(* Rate limiting (app/core/rate_limit.py, app/utils/network.py): a fixed   *)
(* window per address and path in the memory of one process.  A request    *)
(* meets a dependency of the router, before everything else, and then, if  *)
(* its endpoint carries a limit of its own, the decorator of the endpoint; *)
(* one of the two has to count it, and once.                               *)
(***************************************************************************)
EXTENDS Naturals, Sequences

CONSTANTS
    Client,               \* the addresses that requests come from
    Proxy,                \* the address of the reverse proxy
    RATE_LIMIT_DEFAULT,   \* requests per window
    RATE_LIMIT_AUTH

VARIABLES
    hits,      \* the windows: how often each address has asked for each path
    asked,     \* history: how often each client was counted in this window
    through    \* history: and how often it was let through

windows == <<hits, asked, through>>

ASSUME LimitsAssumption ==
    RATE_LIMIT_DEFAULT \in Nat /\ RATE_LIMIT_AUTH \in Nat /\ Proxy \notin Client

Address == Client \cup {Proxy}

\* "login" stands for the endpoints with a decorator, "media" for the others.
Path == {"login", "media"}
HasOwnLimit(p) == p = "login"

Limit(p) == IF HasOwnLimit(p) THEN RATE_LIMIT_AUTH ELSE RATE_LIMIT_DEFAULT

NoHits(S) == [k \in S \X Path |-> 0]

WindowsOK ==
    /\ hits \in [Address \X Path -> Nat]
    /\ asked \in [Client \X Path -> Nat]
    /\ through \in [Client \X Path -> Nat]

\* client_ip: of X-Forwarded-For the first element counts, where the header is
\* trusted and if that element is an address.
client_ip(trust, peer, forwarded) ==
    IF trust /\ forwarded # <<>> /\ Head(forwarded) \in Address
    THEN Head(forwarded) ELSE peer

Passes(key, p) == hits[<<key, p>>] < Limit(p)

\* _check_request_limit: the window counts the request, passed or not.
Check(key, client, p) ==
    /\ hits' = [hits EXCEPT ![<<key, p>>] = @ + 1]
    /\ asked' = [asked EXCEPT ![<<client, p>>] = @ + 1]
    /\ through' = [through EXCEPT ![<<client, p>>] = IF Passes(key, p) THEN @ + 1 ELSE @]

\* Mistake: the dependency looks at every route, the decorated ones too, whose
\* own window it then counts up.
CheckDefaultToo(key, client, p) ==
    IF HasOwnLimit(p)
    THEN hits' = [hits EXCEPT ![<<key, p>>] = @ + 1] /\ UNCHANGED <<asked, through>>
    ELSE Check(key, client, p)

\* enforce_default_rate_limit.
CheckDefault(key, client, p) ==
    IF HasOwnLimit(p) THEN UNCHANGED windows ELSE Check(key, client, p)

\* The decorator, where there is one.
CheckOwn(key, client, p) ==
    IF HasOwnLimit(p) THEN Check(key, client, p) ELSE UNCHANGED windows

\* A window ends, and with it what history says of it.
WindowEnds(a, p) ==
    /\ hits[<<a, p>>] > 0
    /\ hits' = [hits EXCEPT ![<<a, p>>] = 0]
    /\ asked' = [k \in DOMAIN asked |-> IF k = <<a, p>> THEN 0 ELSE asked[k]]
    /\ through' = [k \in DOMAIN through |-> IF k = <<a, p>> THEN 0 ELSE through[k]]

\* A process starts with no windows, and takes them along.
NoWindows ==
    /\ hits' = NoHits(Address)
    /\ asked' = NoHits(Client)
    /\ through' = NoHits(Client)
=============================================================================

------------------------------- MODULE Service -------------------------------
(***************************************************************************)
(* A worker process of the service under a process manager (app/main.py):  *)
(* it starts if its settings and its database allow it, limits the rate of *)
(* the requests that reach it, and runs the uploads that get through. When *)
(* it dies its windows and its requests are gone, and what is on the disk  *)
(* is found by the next worker.                                            *)
(***************************************************************************)
EXTENDS RateLimit, Settings

CONSTANTS
    Deployed,   \* bound: the environments the service is deployed with, and the
                \* proxy in front of each
    Header,     \* bound: the lists that clients send as X-Forwarded-For
    Req,        \* requests in flight at once
    Uuid, Filename, MaxSize, CHUNK_SIZE, max_bytes,
    MaxAsked    \* bound: requests beyond the limit that an address makes in a window

\* What a proxy does to the header that clients send; None is no proxy.
Proxies == {None, "overwrites", "appends"}

ASSUME DeployedAssumption == Deployed \subseteq Environment \X Proxies /\ MaxAsked \in Nat

\* None in a list is an element that is no address.
ASSUME HeaderAssumption == Header \subseteq Seq(Address \cup {None})

ASSUME NoneAssumption == None \notin Address \cup {"overwrites", "appends"}

ASSUME UploadsAssumption ==
    /\ MaxSize \in Nat /\ max_bytes \in Nat /\ CHUNK_SIZE \in Nat \ {0}
    /\ None \notin Nat

VARIABLES
    env,        \* the environment of the process
    proxy,      \* the proxy in front of it
    worker,     \* "down" or "up"
    waiting,    \* the requests whose dependencies are being resolved
    disk, stored, unanswered, opening, drawn, pc, job,   \* as in Uploads
    left        \* history: the files that were being written when a worker died

uploads == <<disk, stored, unanswered, opening, drawn, pc, job>>
deployment == <<env, proxy>>
vars == <<windows, deployment, worker, waiting, uploads, left>>

U == INSTANCE Uploads

\* A request by the client's real address and the one that is limited.
Asking == [key : Address, client : Client, path : Path]

TypeOK ==
    /\ WindowsOK /\ U!TypeOK
    /\ deployment \in Deployed /\ worker \in {"down", "up"}
    /\ waiting \in [Req -> Asking \cup {None}]
    /\ left \subseteq U!Path
    /\ \A r \in Req : worker = "down" \/ pc[r] # "idle" => waiting[r] = None

Init ==
    /\ \E d \in Deployed : env = d[1] /\ proxy = d[2]
    /\ worker = "down"
    /\ hits = NoHits(Address) /\ asked = NoHits(Client) /\ through = NoHits(Client)
    /\ waiting = [r \in Req |-> None]
    /\ U!Init
    /\ left = {}

-----------------------------------------------------------------------------
(* The process.                                                            *)

\* lifespan: the worker serves once the database has answered; without an answer
\* the process ends again.
Boot ==
    /\ worker = "down" /\ Imports(env)
    /\ \E answers \in BOOLEAN : worker' = IF answers THEN "up" ELSE "down"
    /\ NoWindows
    /\ UNCHANGED <<deployment, waiting, uploads, left>>

\* Killed, out of memory, or restarted by hand: what was in its memory is gone.
Crash ==
    /\ worker = "up"
    /\ worker' = "down"
    /\ waiting' = [r \in Req |-> None]
    /\ left' = left \cup {job[r].path : r \in {r \in Req : pc[r] # "idle"}}
    /\ U!Die
    /\ NoWindows
    /\ UNCHANGED deployment

-----------------------------------------------------------------------------
(* Requests.                                                               *)

\* Who connects when a client does, and the list that arrives for its header.
Peer(c) == IF proxy = None THEN c ELSE Proxy

Forwarded(c, header) ==
    CASE proxy = None -> header
      [] proxy = "overwrites" -> <<c>>
      [] proxy = "appends" -> Append(header, c)

\* Mistake: the header is believed whoever sends it.
KeyBelieving(c, header) == client_ip(TRUE, Peer(c), Forwarded(c, header))

\* _rate_limit_key.
Key(c, header) == client_ip(env.TRUST_PROXY_HEADERS, Peer(c), Forwarded(c, header))

Arrive(r) ==
    /\ worker = "up" /\ waiting[r] = None /\ pc[r] = "idle"
    /\ \E c \in Client, p \in Path, header \in Header :
          LET key == Key(c, header) IN
          /\ hits[<<key, p>>] < Limit(p) + MaxAsked
          /\ CheckDefault(key, c, p)
          /\ waiting' = IF HasOwnLimit(p) \/ Passes(key, p)
                        THEN [waiting EXCEPT ![r] = [key |-> key, client |-> c, path |-> p]]
                        ELSE waiting
    /\ UNCHANGED <<deployment, worker, uploads, left>>

\* Another dependency fails: the credentials, the body, the database.
Unresolved(r) ==
    /\ waiting[r] # None
    /\ waiting' = [waiting EXCEPT ![r] = None]
    /\ UNCHANGED <<windows, deployment, worker, uploads, left>>

\* The endpoint is called.  What a login does then is told in Auth.
Call(r) ==
    LET q == waiting[r] IN
    /\ q # None
    /\ CheckOwn(q.key, q.client, q.path)
    /\ waiting' = [waiting EXCEPT ![r] = None]
    /\ IF q.path = "media" THEN U!Save(r) ELSE UNCHANGED uploads
    /\ UNCHANGED <<deployment, worker, left>>

Upload ==
    /\ worker = "up"
    /\ \/ \E r \in Req : U!Work(r)
       \/ \E p \in U!Path : U!LateOpen(p)
    /\ UNCHANGED <<windows, deployment, worker, waiting, left>>

Tick ==
    /\ \E a \in Address, p \in Path : WindowEnds(a, p)
    /\ UNCHANGED <<deployment, worker, waiting, uploads, left>>

Next ==
    \/ Boot \/ Crash
    \/ \E r \in Req : Arrive(r) \/ Unresolved(r) \/ Call(r)
    \/ Upload \/ Tick

Spec == Init /\ [][Next]_vars

-----------------------------------------------------------------------------
(* What must be true of it.                                                *)

\* The deployment is as the README asks: X-Forwarded-For is trusted behind a proxy
\* that overwrites it, and nowhere else; where it is not, clients connect directly.
AsDocumented == proxy = IF env.TRUST_PROXY_HEADERS THEN "overwrites" ELSE None

\* In such a deployment a client is let through as often as the limit says in every
\* window, and refused no earlier, whatever list it sends: each request is counted
\* once, by the dependency or by the decorator, and against the client's own address
\* (rate_limit.py, network.py).  Behind a proxy that appends to a trusted header
\* it is not so: client_ip takes the first element, which the client has sent.
LetThroughExactly ==
    AsDocumented =>
        \A c \in Client, p \in Path :
            through[<<c, p>>] = IF asked[<<c, p>>] < Limit(p) THEN asked[<<c, p>>] ELSE Limit(p)

\* On the hosting platform a worker serves with the shipped secrets only where
\* APP_ENV says development, or nothing: what its panel makes of a value does not
\* take the production check away (config.py).
HostedIsConfigured ==
    (worker = "up" /\ env.RENDER /\ env.APP_ENV \notin {"development", None}) =>
        env.SECRET_KEY # "shipped" /\ env.FIRST_SUPERUSER_PASSWORD # "shipped"

\* What a client was told of its upload stays true, through failures and crashes.
AnsweredIsStored == U!AnsweredIsStored

\* "Any failure mid-write (size limit, disconnect, disk error) must not leave a
\* partial file behind": a file with something in it was answered for, or is being
\* written, or has all that its client sent and only the end of its request has
\* failed; unless a worker died while it wrote.
NoPartialContent ==
    \A p \in U!Path \ left :
        disk[p] \notin {None, 0} =>
            \/ \E s \in stored : s.path = p
            \/ \E s \in unanswered : s.path = p /\ s.size = disk[p]
            \/ \E r \in Req : pc[r] \in {"copy", "close"} /\ job[r].path = p

\* No file exceeds the limit, not even one that a crash has left.
WithinLimit == U!WithinLimit

-----------------------------------------------------------------------------
(* What the documentation says of the settings.                            *)

\* "refuses to boot if SECRET_KEY, POSTGRES_PASSWORD, or FIRST_SUPERUSER_PASSWORD
\* are still at their shipped default values".
ShippedDefaultsRefused ==
    (worker = "up" /\ AppEnv(env) = "production") =>
        /\ env.SECRET_KEY # "shipped" /\ env.FIRST_SUPERUSER_PASSWORD # "shipped"
        /\ env.DATABASE_URL = None => env.POSTGRES_PASSWORD # "shipped"
=============================================================================

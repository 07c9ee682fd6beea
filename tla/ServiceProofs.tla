---------------------------- MODULE ServiceProofs ----------------------------
(***************************************************************************)
(* Theorems about a worker of the service: rate limits, settings and       *)
(* uploads, for any number of clients, requests, files and crashes.        *)
(***************************************************************************)
EXTENDS Service, TLAPS

-----------------------------------------------------------------------------
(* The inductive invariant.                                                *)

\* The uuid of the file that request r works on.
UuidOf(r) == job[r].path[1]

Busy(r) == pc[r] # "idle"

\* Each window has counted the requests of its own client, and let them through as
\* the limit says.
Exact ==
    \A c \in Client, p \in Path :
        /\ hits[<<c, p>>] = asked[<<c, p>>]
        /\ through[<<c, p>>] = IF asked[<<c, p>>] < Limit(p) THEN asked[<<c, p>>] ELSE Limit(p)

WindowsInv == WindowsOK /\ (AsDocumented => Exact)

\* The address that is limited is the client's, also while a request waits.
OwnAddress ==
    AsDocumented => \A r \in Req : waiting[r] # None => waiting[r].key = waiting[r].client

\* No two uploads, files whose upload has ended, or threads that still open a file
\* share a uuid, except for files whose upload has ended.
OwnUuid ==
    /\ \A r \in Req : Busy(r) => job[r].path \in U!Path /\ UuidOf(r) \in drawn
    /\ \A r, q \in Req : (Busy(r) /\ Busy(q) /\ r # q) => UuidOf(r) # UuidOf(q)
    /\ \A s \in stored \cup unanswered :
          /\ s.path[1] \in drawn /\ s.path \notin opening
          /\ \A r \in Req : Busy(r) => UuidOf(r) # s.path[1]
    /\ \A p \in opening : /\ p[1] \in drawn
                          /\ \A r \in Req : Busy(r) => UuidOf(r) # p[1]

\* What a request has counted is what is on the disk, and in the end all there is.
Counted ==
    \A r \in Req :
        /\ job[r].size <= max_bytes
        /\ pc[r] = "open" => job[r].size = 0
        /\ pc[r] \in {"copy", "close"} => disk[job[r].path] = job[r].size
        /\ pc[r] = "close" => job[r].size = job[r].sent

\* A file whose request failed at the very end is as its client sent it.
Whole == \A s \in unanswered : disk[s.path] = s.size

UploadsInv == U!TypeOK /\ left \subseteq U!Path /\ OwnUuid /\ Counted /\ Whole
                 /\ AnsweredIsStored /\ NoPartialContent /\ WithinLimit

IInv ==
    /\ TypeOK /\ WindowsInv /\ OwnAddress /\ UploadsInv
    /\ worker = "up" => Imports(env)

-----------------------------------------------------------------------------
(* Rate limits.                                                            *)

\* Both limits are numbers.
LEMMA LimitTyped == \A p \in Path : Limit(p) \in Nat
  BY LimitsAssumption DEF Limit, HasOwnLimit, Path

\* A window counts whatever the key is.
LEMMA CheckTyped ==
  ASSUME WindowsOK, NEW key \in Address, NEW c \in Client, NEW p \in Path, Check(key, c, p)
  PROVE  WindowsOK'
  BY DEF WindowsOK, Check

\* A request that is counted once, against the client's own address.
LEMMA CheckExact ==
  ASSUME WindowsOK, Exact, NEW c \in Client, NEW p \in Path, Check(c, c, p)
  PROVE  Exact'
  <1> USE DEF WindowsOK, Check, Address
  <1> SUFFICES ASSUME NEW d \in Client, NEW o \in Path
               PROVE  /\ hits'[<<d, o>>] = asked'[<<d, o>>]
                      /\ through'[<<d, o>>] = IF asked'[<<d, o>>] < Limit(o) THEN asked'[<<d, o>>] ELSE Limit(o)
    BY DEF Exact
  <1>0. /\ hits[<<d, o>>] = asked[<<d, o>>]
        /\ through[<<d, o>>] = IF asked[<<d, o>>] < Limit(o) THEN asked[<<d, o>>] ELSE Limit(o)
    BY DEF Exact
  <1>1. CASE <<d, o>> = <<c, p>>
    <2> DEFINE k == <<c, p>>
    <2>1. o = p /\ k \in Client \X Path /\ k \in Address \X Path
      BY <1>1
    <2>2. hits[k] = asked[k] /\ asked[k] \in Nat /\ Limit(p) \in Nat
      BY <2>1, <1>0, <1>1, LimitTyped
    <2>3. /\ hits'[k] = hits[k] + 1 /\ asked'[k] = asked[k] + 1
          /\ through'[k] = IF hits[k] < Limit(p) THEN through[k] + 1 ELSE through[k]
      BY <2>1 DEF Passes
    <2>4. through[k] = IF asked[k] < Limit(p) THEN asked[k] ELSE Limit(p)
      BY <1>0, <1>1, <2>1
    <2> HIDE DEF k, WindowsOK, Check, Address
    <2>5. /\ hits'[k] = asked'[k]
          /\ through'[k] = IF asked'[k] < Limit(p) THEN asked'[k] ELSE Limit(p)
      BY <2>2, <2>3, <2>4
    <2> QED
      BY <1>1, <2>1, <2>5 DEF k
  <1>2. CASE <<d, o>> # <<c, p>>
    BY <1>0, <1>2
  <1> QED
    BY <1>1, <1>2

\* Either the dependency counts a request or the decorator does.
LEMMA CountedOnce ==
  ASSUME WindowsInv, UNCHANGED deployment,
         NEW key \in Address, NEW c \in Client, NEW p \in Path, AsDocumented => key = c,
         CheckDefault(key, c, p) \/ CheckOwn(key, c, p)
  PROVE  WindowsInv'
  <1>0. AsDocumented' <=> AsDocumented
    BY DEF AsDocumented, deployment
  <1>1. CASE Check(key, c, p)
    <2>1. WindowsOK'
      BY <1>1, CheckTyped DEF WindowsInv
    <2>2. AsDocumented => Exact'
      BY <1>1, CheckExact DEF WindowsInv
    <2> QED
      BY <1>0, <2>1, <2>2 DEF WindowsInv
  <1>2. CASE UNCHANGED windows
    BY <1>0, <1>2 DEF windows, WindowsInv, WindowsOK, Exact
  <1> QED
    BY <1>1, <1>2 DEF CheckDefault, CheckOwn

\* A window that ends takes its history along.
LEMMA EndWindows ==
  ASSUME WindowsInv, UNCHANGED deployment, NEW a \in Address, NEW p \in Path, WindowEnds(a, p)
  PROVE  WindowsInv'
  <1> USE DEF WindowsOK, WindowEnds, Address
  <1>1. WindowsOK'
    BY DEF WindowsInv
  <1>2. ASSUME Exact, NEW d \in Client, NEW o \in Path
        PROVE  /\ hits'[<<d, o>>] = asked'[<<d, o>>]
               /\ through'[<<d, o>>] = IF asked'[<<d, o>>] < Limit(o) THEN asked'[<<d, o>>] ELSE Limit(o)
    <2>0. /\ WindowsOK /\ hits[<<d, o>>] = asked[<<d, o>>]
          /\ through[<<d, o>>] = IF asked[<<d, o>>] < Limit(o) THEN asked[<<d, o>>] ELSE Limit(o)
      BY <1>2 DEF Exact, WindowsInv
    <2>1. CASE <<d, o>> = <<a, p>>
      BY <2>0, <2>1, LimitTyped
    <2>2. CASE <<d, o>> # <<a, p>>
      BY <2>0, <2>2
    <2> QED
      BY <2>1, <2>2
  <1>3. Exact => Exact'
    BY <1>2 DEF Exact
  <1> QED
    BY <1>1, <1>3 DEF WindowsInv, AsDocumented, deployment

\* A worker that starts or dies has empty windows, and has asked nobody.
LEMMA EmptyWindows ==
  ASSUME NoWindows
  PROVE  WindowsInv'
  BY LimitTyped DEF NoWindows, WindowsInv, WindowsOK, Exact, NoHits, Address

\* A request is limited by some address; in a deployment as the README asks, by the
\* client's own, whatever the client sends.
LEMMA KeyTyped ==
  ASSUME env \in Environment, NEW c \in Client, NEW header
  PROVE  Key(c, header) \in Address /\ (AsDocumented => Key(c, header) = c)
  <1>1. env.TRUST_PROXY_HEADERS \in BOOLEAN
    BY DEF Environment
  <1>2. Peer(c) \in Address /\ c \in Address
    BY DEF Peer, Address
  <1>3. Key(c, header) \in Address
    BY <1>2 DEF Key, client_ip
  <1>4. CASE env.TRUST_PROXY_HEADERS
    <2>1. AsDocumented => Forwarded(c, header) = <<c>>
      BY <1>4, NoneAssumption DEF AsDocumented, Forwarded
    <2> QED
      BY <1>2, <1>3, <1>4, <2>1 DEF Key, client_ip
  <1>5. CASE ~env.TRUST_PROXY_HEADERS
    BY <1>3, <1>5 DEF Key, client_ip, AsDocumented, Peer
  <1> QED
    BY <1>1, <1>4, <1>5

-----------------------------------------------------------------------------
(* Settings.                                                               *)

\* What the import of the settings lets through is what HostedIsConfigured asks.
LEMMA ImportsConfigured ==
  ASSUME env \in Environment, worker = "up" => Imports(env)
  PROVE  HostedIsConfigured
  <1> SUFFICES ASSUME worker = "up", env.RENDER, env.APP_ENV \notin {"development", None}
               PROVE  env.SECRET_KEY # "shipped" /\ env.FIRST_SUPERUSER_PASSWORD # "shipped"
    BY DEF HostedIsConfigured
  <1>1. env.APP_ENV \in {"production", "unusable", "other"}
    BY DEF Environment
  <1>2. AppEnv(env) = "production"
    BY <1>1 DEF Imports, AppEnv
  <1>3. Insecure(env) = {}
    BY <1>2 DEF Imports
  <1>4. ASSUME NEW s \in {"SECRET_KEY", "FIRST_SUPERUSER_PASSWORD"}, env[s] = "shipped"
        PROVE  FALSE
    BY <1>3, <1>4 DEF Insecure
  <1> QED
    BY <1>4

-----------------------------------------------------------------------------
(* Uploads.  Each lemma takes one step of U; disk, stored and opening      *)
(* change only at the path of the request that makes it.                   *)

\* A new upload draws a uuid that nothing else has.
LEMMA SaveInv ==
  ASSUME UploadsInv, NEW r \in Req, U!Save(r), left' = left
  PROVE  UploadsInv'
  <1> USE DEF UploadsInv, U!Save, U!TypeOK, U!Path, U!Job, U!Sized, Whole
  <1> PICK u \in Uuid \ drawn, f \in Filename, n \in 0 .. MaxSize :
        /\ pc[r] = "idle"
        /\ pc' = [pc EXCEPT ![r] = "open"]
        /\ job' = [job EXCEPT ![r] = [path |-> <<u, f>>, sent |-> n, size |-> 0]]
        /\ drawn' = drawn \cup {u}
        /\ UNCHANGED <<disk, stored, unanswered, opening>>
    BY DEF U!StoredName
  <1>1. U!TypeOK' /\ (left \subseteq U!Path)'
    BY UploadsAssumption
  <1>2. OwnUuid'
    BY DEF OwnUuid, Busy, UuidOf
  <1>3. Counted'
    BY UploadsAssumption DEF Counted
  <1>4. AnsweredIsStored' /\ Whole' /\ WithinLimit'
    BY DEF AnsweredIsStored, U!AnsweredIsStored, WithinLimit, U!WithinLimit
  <1>5. NoPartialContent'
    BY DEF NoPartialContent
  <1> QED
    BY <1>1, <1>2, <1>3, <1>4, <1>5

\* The file is opened.
LEMMA OpenInv ==
  ASSUME UploadsInv, NEW r \in Req, U!Open(r), left' = left
  PROVE  UploadsInv'
  <1> USE DEF UploadsInv, U!Open, U!TypeOK, U!Path, U!Job, U!Sized, Whole
  <1>0. job[r].path \in U!Path /\ job[r].size = 0
    BY DEF OwnUuid, Busy, Counted
  <1>1. U!TypeOK' /\ (left \subseteq U!Path)'
    BY <1>0, UploadsAssumption
  <1>2. OwnUuid'
    BY DEF OwnUuid, Busy, UuidOf
  <1>3. Counted'
    BY <1>0 DEF Counted, OwnUuid, Busy, UuidOf
  <1>4. AnsweredIsStored' /\ Whole' /\ WithinLimit'
    BY <1>0, UploadsAssumption DEF AnsweredIsStored, U!AnsweredIsStored, WithinLimit, U!WithinLimit, OwnUuid, Busy, UuidOf
  <1>5. NoPartialContent'
    BY <1>0 DEF NoPartialContent
  <1> QED
    BY <1>1, <1>2, <1>3, <1>4, <1>5

\* The except clause: the request's file is gone, its uuid stays in use at most
\* by the thread that still opens it.
LEMMA UnlinkInv ==
  ASSUME UploadsInv, NEW r \in Req, Busy(r), U!Unlink(r), left' = left,
         opening' = opening \/ opening' = opening \cup {job[r].path}
  PROVE  UploadsInv'
  <1> USE DEF UploadsInv, U!Unlink, U!End, U!NoJob, U!TypeOK, U!Path, U!Job, U!Sized, Whole
  <1>0. job[r].path \in U!Path
    BY DEF OwnUuid
  <1>1. U!TypeOK' /\ (left \subseteq U!Path)'
    BY <1>0, UploadsAssumption
  <1>2. OwnUuid'
    BY <1>0 DEF OwnUuid, Busy, UuidOf
  <1>3. Counted'
    BY <1>0, UploadsAssumption DEF Counted, OwnUuid, Busy, UuidOf
  <1>4. AnsweredIsStored' /\ Whole' /\ WithinLimit'
    BY <1>0 DEF AnsweredIsStored, U!AnsweredIsStored, WithinLimit, U!WithinLimit, OwnUuid, Busy, UuidOf
  <1>5. NoPartialContent'
    BY <1>0 DEF NoPartialContent, OwnUuid, Busy, UuidOf
  <1> QED
    BY <1>1, <1>2, <1>3, <1>4, <1>5

\* A chunk is written only if the size stays within the limit.
LEMMA CopyInv ==
  ASSUME UploadsInv, NEW r \in Req, U!Copy(r), left' = left
  PROVE  UploadsInv'
  <1> DEFINE size == job[r].size + U!ChunkLength(r)
  <1>1. Busy(r) /\ job[r].path \in U!Path /\ opening' = opening /\ pc[r] = "copy"
    BY DEF U!Copy, Busy, UploadsInv, OwnUuid
  <1>2. job[r] \in U!Job
    BY DEF UploadsInv, U!TypeOK
  <1>3. CASE size > max_bytes
    <2>1. U!Unlink(r)
      BY <1>3 DEF U!Copy
    <2> QED
      BY <2>1, <1>1, UnlinkInv
  <1>4. CASE ~(size > max_bytes)
    <2>1. /\ disk' = [disk EXCEPT ![job[r].path] = size]
          /\ job' = [job EXCEPT ![r].size = size]
          /\ UNCHANGED <<stored, unanswered, drawn, pc>>
      BY <1>4 DEF U!Copy
    <2>2. size \in 0 .. MaxSize /\ size <= max_bytes /\ size <= job[r].sent
      BY <1>2, <1>4, UploadsAssumption DEF U!Job, U!ChunkLength, U!ToCopy
    <2> HIDE DEF size
    <2>3. /\ job' \in [Req -> U!Job]
          /\ job'[r].path = job[r].path /\ job'[r].size = size
          /\ \A q \in Req \ {r} : job'[q] = job[q]
      BY <2>1, <2>2, <1>2 DEF U!Job, UploadsInv, U!TypeOK
    <2> USE <1>1, <2>1, <2>3 DEF UploadsInv, U!TypeOK, U!Path, U!Sized, Whole
    <2>4. U!TypeOK' /\ (left \subseteq U!Path)'
      BY <2>2
    <2>5. OwnUuid'
      BY DEF OwnUuid, Busy, UuidOf
    <2>6. Counted'
      BY <2>2 DEF Counted, OwnUuid, Busy, UuidOf
    <2>7. AnsweredIsStored' /\ Whole' /\ WithinLimit'
      BY <2>2 DEF AnsweredIsStored, U!AnsweredIsStored, WithinLimit, U!WithinLimit, OwnUuid, Busy, UuidOf
    <2>8. NoPartialContent'
      BY DEF NoPartialContent, OwnUuid, Busy, UuidOf
    <2> QED
      BY <2>4, <2>5, <2>6, <2>7, <2>8
  <1> QED
    BY <1>3, <1>4

\* All has been copied when the file is closed.
LEMMA CopiedInv ==
  ASSUME UploadsInv, NEW r \in Req, U!Copied(r), left' = left
  PROVE  UploadsInv'
  <1> USE DEF UploadsInv, U!Copied, U!ToCopy, U!TypeOK, U!Path, U!Job, U!Sized, Whole
  <1>1. U!TypeOK' /\ (left \subseteq U!Path)'
    OBVIOUS
  <1>2. OwnUuid'
    BY DEF OwnUuid, Busy, UuidOf
  <1>3. Counted'
    <2>1. job[r] \in U!Job
      OBVIOUS
    <2>2. job[r].size \in Nat /\ job[r].sent \in Nat /\ job[r].sent - job[r].size = 0
      BY <2>1, UploadsAssumption
    <2> HIDE DEF UploadsInv, U!Copied, U!ToCopy, U!TypeOK, U!Job
    <2>3. job[r].size = job[r].sent
      BY <2>2
    <2> QED
      BY <2>3 DEF Counted, UploadsInv, U!Copied, U!TypeOK
  <1>4. AnsweredIsStored' /\ Whole' /\ WithinLimit'
    BY DEF AnsweredIsStored, U!AnsweredIsStored, WithinLimit, U!WithinLimit
  <1>5. NoPartialContent'
    BY DEF NoPartialContent
  <1> QED
    BY <1>1, <1>2, <1>3, <1>4, <1>5

\* The client is answered for the file that is on the disk.
LEMMA FinishInv ==
  ASSUME UploadsInv, NEW r \in Req, U!Finish(r), left' = left
  PROVE  UploadsInv'
  <1> USE DEF UploadsInv, U!Finish, U!End, U!NoJob, U!TypeOK, U!Path, U!Job, U!Sized, Whole
  <1>0. Busy(r) /\ job[r].path \in U!Path /\ disk[job[r].path] = job[r].size
    BY DEF OwnUuid, Busy, Counted
  <1>1. U!TypeOK' /\ (left \subseteq U!Path)'
    BY <1>0, UploadsAssumption
  <1>2. OwnUuid'
    BY <1>0 DEF OwnUuid, Busy, UuidOf
  <1>3. Counted'
    BY <1>0, UploadsAssumption DEF Counted
  <1>4. AnsweredIsStored' /\ Whole' /\ WithinLimit'
    BY <1>0 DEF AnsweredIsStored, U!AnsweredIsStored, WithinLimit, U!WithinLimit
  <1>5. ASSUME NEW p \in U!Path \ left, disk[p] \notin {None, 0}
        PROVE  (\/ \E s \in stored : s.path = p
                \/ \E s \in unanswered : s.path = p /\ s.size = disk[p]
                \/ \E q \in Req : pc[q] \in {"copy", "close"} /\ job[q].path = p)'
    <2>1. CASE p = job[r].path
      <3>1. [path |-> job[r].path, size |-> job[r].size] \in stored'
        OBVIOUS
      <3> QED
        BY <2>1, <3>1
    <2>2. CASE p # job[r].path
      <3>1. \/ \E s \in stored : s.path = p
            \/ \E s \in unanswered : s.path = p /\ s.size = disk[p]
            \/ \E q \in Req \ {r} : pc[q] \in {"copy", "close"} /\ job[q].path = p
        BY <1>5, <2>2 DEF NoPartialContent
      <3> QED
        BY <3>1
    <2> QED
      BY <2>1, <2>2
  <1>6. NoPartialContent'
    BY <1>5 DEF NoPartialContent
  <1> QED
    BY <1>1, <1>2, <1>3, <1>4, <1>6

\* The request fails after the last chunk: nobody is told, and the file is whole.
LEMMA FailCloseInv ==
  ASSUME UploadsInv, NEW r \in Req, U!FailClose(r), left' = left
  PROVE  UploadsInv'
  <1> USE DEF UploadsInv, U!FailClose, U!End, U!NoJob, U!TypeOK, U!Path, U!Job, U!Sized, Whole
  <1>0. /\ Busy(r) /\ job[r].path \in U!Path
        /\ disk[job[r].path] = job[r].size /\ job[r].size = job[r].sent
    BY DEF OwnUuid, Busy, Counted
  <1>1. U!TypeOK' /\ (left \subseteq U!Path)'
    BY <1>0, UploadsAssumption
  <1>2. OwnUuid'
    BY <1>0 DEF OwnUuid, Busy, UuidOf
  <1>3. Counted'
    BY <1>0, UploadsAssumption DEF Counted
  <1>4. AnsweredIsStored' /\ Whole' /\ WithinLimit'
    BY <1>0 DEF AnsweredIsStored, U!AnsweredIsStored, WithinLimit, U!WithinLimit
  <1>5. ASSUME NEW p \in U!Path \ left, disk[p] \notin {None, 0}
        PROVE  (\/ \E s \in stored : s.path = p
                \/ \E s \in unanswered : s.path = p /\ s.size = disk[p]
                \/ \E q \in Req : pc[q] \in {"copy", "close"} /\ job[q].path = p)'
    <2>1. CASE p = job[r].path
      <3>1. [path |-> job[r].path, size |-> job[r].sent] \in unanswered'
        OBVIOUS
      <3> QED
        BY <1>0, <2>1, <3>1
    <2>2. CASE p # job[r].path
      <3>1. \/ \E s \in stored : s.path = p
            \/ \E s \in unanswered : s.path = p /\ s.size = disk[p]
            \/ \E q \in Req \ {r} : pc[q] \in {"copy", "close"} /\ job[q].path = p
        BY <1>5, <2>2 DEF NoPartialContent
      <3> QED
        BY <3>1
    <2> QED
      BY <2>1, <2>2
  <1>6. NoPartialContent'
    BY <1>5 DEF NoPartialContent
  <1> QED
    BY <1>1, <1>2, <1>3, <1>4, <1>6

\* The thread that nobody waits for creates an empty file, of a uuid of its own.
LEMMA LateOpenInv ==
  ASSUME UploadsInv, NEW p \in U!Path, U!LateOpen(p), left' = left
  PROVE  UploadsInv'
  <1> USE DEF UploadsInv, U!LateOpen, U!TypeOK, U!Path, U!Sized, Whole
  <1>1. U!TypeOK' /\ (left \subseteq U!Path)'
    BY UploadsAssumption
  <1>2. OwnUuid'
    BY DEF OwnUuid, Busy, UuidOf
  <1>3. Counted'
    BY DEF Counted, OwnUuid, Busy, UuidOf
  <1>4. AnsweredIsStored' /\ Whole' /\ WithinLimit'
    BY UploadsAssumption DEF AnsweredIsStored, U!AnsweredIsStored, WithinLimit, U!WithinLimit, OwnUuid
  <1>5. NoPartialContent'
    BY DEF NoPartialContent
  <1> QED
    BY <1>1, <1>2, <1>3, <1>4, <1>5

\* When the process dies the files that were being written are told as left.
LEMMA DieInv ==
  ASSUME UploadsInv, U!Die,
         left' = left \cup {job[r].path : r \in {r \in Req : pc[r] # "idle"}}
  PROVE  UploadsInv'
  <1> USE DEF UploadsInv, U!Die, U!NoJob, U!TypeOK, U!Path, U!Job, U!Sized, Whole
  <1>1. U!TypeOK' /\ (left \subseteq U!Path)'
    BY UploadsAssumption DEF OwnUuid, Busy
  <1>2. OwnUuid'
    BY DEF OwnUuid, Busy, UuidOf
  <1>3. Counted'
    BY UploadsAssumption DEF Counted
  <1>4. AnsweredIsStored' /\ Whole' /\ WithinLimit'
    BY DEF AnsweredIsStored, U!AnsweredIsStored, WithinLimit, U!WithinLimit
  <1>5. NoPartialContent'
    BY DEF NoPartialContent
  <1> QED
    BY <1>1, <1>2, <1>3, <1>4, <1>5

\* All that a request may do once its file has a name.
LEMMA WorkInv ==
  ASSUME UploadsInv, NEW r \in Req, U!Work(r), left' = left
  PROVE  UploadsInv'
  <1>1. CASE U!Open(r)
    BY <1>1, OpenInv
  <1>2. CASE U!Copy(r)
    BY <1>2, CopyInv
  <1>3. CASE U!Copied(r)
    BY <1>3, CopiedInv
  <1>4. CASE U!Finish(r)
    BY <1>4, FinishInv
  <1>5. CASE U!FailClose(r)
    BY <1>5, FailCloseInv
  <1>6. CASE U!Fail(r) \/ U!FailOpen(r) \/ U!CancelOpen(r)
    BY <1>6, UnlinkInv DEF U!Fail, U!FailOpen, U!CancelOpen, Busy
  <1> QED
    BY <1>1, <1>2, <1>3, <1>4, <1>5, <1>6 DEF U!Work

-----------------------------------------------------------------------------
(* The worker.                                                             *)

\* A worker that has not started yet.
LEMMA InitIInv == Init => IInv
  <1> SUFFICES ASSUME Init PROVE IInv
    OBVIOUS
  <1> USE DEF Init
  <1>1. WindowsInv
    BY LimitTyped DEF WindowsInv, WindowsOK, Exact, NoHits, Address
  <1>2. UploadsInv
    <2> USE DEF U!Init, U!NoJob
    <2>1. U!TypeOK /\ left \subseteq U!Path
      BY UploadsAssumption DEF U!TypeOK, U!Job
    <2>2. OwnUuid /\ Counted /\ Whole
      BY UploadsAssumption DEF OwnUuid, Counted, Busy, Whole
    <2>3. AnsweredIsStored /\ NoPartialContent /\ WithinLimit
      BY DEF AnsweredIsStored, U!AnsweredIsStored, NoPartialContent, WithinLimit, U!WithinLimit
    <2> QED
      BY <2>1, <2>2, <2>3 DEF UploadsInv
  <1>3. deployment \in Deployed
    <2> PICK d \in Deployed : env = d[1] /\ proxy = d[2]
      OBVIOUS
    <2> QED
      BY DeployedAssumption DEF deployment
  <1>4. TypeOK /\ OwnAddress
    BY <1>1, <1>2, <1>3 DEF TypeOK, OwnAddress, WindowsInv, UploadsInv, AsDocumented, deployment
  <1> QED
    BY <1>1, <1>2, <1>4 DEF IInv

\* Steps that leave one part of the state alone keep its part of the invariant.
LEMMA SameUploads ==
  ASSUME UploadsInv, UNCHANGED <<uploads, left>>
  PROVE  UploadsInv'
  BY DEF uploads, UploadsInv, U!TypeOK, OwnUuid, Busy, UuidOf, Counted, Whole,
         AnsweredIsStored, U!AnsweredIsStored, NoPartialContent, WithinLimit, U!WithinLimit

\* The same of the windows.
LEMMA SameWindows ==
  ASSUME WindowsInv, UNCHANGED <<windows, deployment>>
  PROVE  WindowsInv'
  BY DEF windows, deployment, WindowsInv, WindowsOK, Exact, AsDocumented

\* The environment is one that the service may be deployed with.
LEMMA DeployedEnv ==
  ASSUME deployment \in Deployed
  PROVE  env \in Environment
  <1>1. deployment \in Environment \X Proxies
    BY DeployedAssumption
  <1> QED
    BY <1>1 DEF deployment

\* A request arrives: it is counted by the dependency or left to the decorator.
LEMMA ArriveIInv ==
  ASSUME IInv, NEW r \in Req, Arrive(r)
  PROVE  IInv'
  <1> PICK c \in Client, p \in Path, header \in Header :
        /\ CheckDefault(Key(c, header), c, p)
        /\ waiting' = IF HasOwnLimit(p) \/ Passes(Key(c, header), p)
                      THEN [waiting EXCEPT ![r] = [key |-> Key(c, header), client |-> c, path |-> p]]
                      ELSE waiting
    BY DEF Arrive
  <1> DEFINE key == Key(c, header)
  <1>1. key \in Address /\ (AsDocumented => key = c)
    BY KeyTyped, DeployedEnv DEF IInv, TypeOK
  <1>2. /\ CheckDefault(key, c, p)
        /\ \/ waiting' = waiting
           \/ waiting' = [waiting EXCEPT ![r] = [key |-> key, client |-> c, path |-> p]]
    OBVIOUS
  <1> HIDE DEF key
  <1>3. /\ UNCHANGED <<deployment, worker, uploads, left>>
        /\ worker = "up" /\ pc[r] = "idle"
    BY DEF Arrive
  <1>4. WindowsInv'
    BY <1>1, <1>2, <1>3, CountedOnce DEF IInv
  <1>5. UploadsInv'
    BY <1>3, SameUploads DEF IInv
  <1>6. TypeOK'
    BY <1>1, <1>2, <1>3, <1>4, <1>5
       DEF IInv, TypeOK, Asking, WindowsInv, UploadsInv, uploads
  <1>7. OwnAddress'
    BY <1>1, <1>2, <1>3 DEF IInv, TypeOK, OwnAddress, AsDocumented, deployment
  <1> QED
    BY <1>3, <1>4, <1>5, <1>6, <1>7 DEF IInv, deployment

\* The endpoint is called: the decorator counts what the dependency did not.
LEMMA CallIInv ==
  ASSUME IInv, NEW r \in Req, Call(r)
  PROVE  IInv'
  <1> DEFINE q == waiting[r]
  <1>1. q \in Asking /\ (AsDocumented => q.key = q.client)
    BY DEF Call, IInv, TypeOK, OwnAddress
  <1>2. /\ CheckOwn(q.key, q.client, q.path)
        /\ q.key \in Address /\ q.client \in Client /\ q.path \in Path
    BY <1>1 DEF Call, Asking
  <1>3. /\ UNCHANGED <<deployment, worker, left>>
        /\ waiting' = [waiting EXCEPT ![r] = None]
        /\ U!Save(r) \/ UNCHANGED uploads
    BY DEF Call
  <1> HIDE DEF q
  <1>4. WindowsInv'
    BY <1>1, <1>2, <1>3, CountedOnce DEF IInv
  <1>5. UploadsInv'
    BY <1>3, SaveInv, SameUploads DEF IInv
  <1>6. \A o \in Req \ {r} : pc'[o] = pc[o]
    BY <1>3 DEF U!Save, uploads, IInv, TypeOK, U!TypeOK
  <1>7. TypeOK' /\ OwnAddress'
    BY <1>3, <1>4, <1>5, <1>6
       DEF IInv, TypeOK, OwnAddress, WindowsInv, UploadsInv,
           AsDocumented, deployment
  <1> QED
    BY <1>3, <1>4, <1>5, <1>7 DEF IInv, deployment

\* A request that writes its file does nothing but that.
LEMMA UploadIInv ==
  ASSUME IInv, Upload
  PROVE  IInv'
  <1>1. UNCHANGED <<windows, deployment, worker, waiting, left>>
    BY DEF Upload
  <1>2. CASE \E r \in Req : U!Work(r)
    <2> PICK r \in Req : U!Work(r)
      BY <1>2
    <2>1. UploadsInv'
      BY <1>1, WorkInv DEF IInv
    <2>2. pc[r] # "idle" /\ \A o \in Req \ {r} : pc'[o] = pc[o]
      BY DEF U!Work, U!Open, U!Copy, U!Copied, U!Finish, U!Fail, U!FailOpen, U!CancelOpen,
             U!FailClose, U!Unlink, U!End, IInv, TypeOK, U!TypeOK
    <2>3. TypeOK' /\ OwnAddress'
      BY <1>1, <2>1, <2>2, SameWindows DEF IInv, TypeOK, OwnAddress, WindowsInv, UploadsInv,
                                         AsDocumented, deployment
    <2> QED
      BY <1>1, <2>1, <2>3, SameWindows DEF IInv, deployment
  <1>3. CASE \E p \in U!Path : U!LateOpen(p)
    <2> PICK p \in U!Path : U!LateOpen(p)
      BY <1>3
    <2>1. UploadsInv' /\ pc' = pc
      BY <1>1, LateOpenInv DEF IInv, U!LateOpen
    <2>2. TypeOK' /\ OwnAddress'
      BY <1>1, <2>1, SameWindows DEF IInv, TypeOK, OwnAddress, WindowsInv, UploadsInv,
                                         AsDocumented, deployment
    <2> QED
      BY <1>1, <2>1, <2>2, SameWindows DEF IInv, deployment
  <1> QED
    BY <1>2, <1>3 DEF Upload

\* Every step of the worker and of what surrounds it.
LEMMA NextIInv == IInv /\ [Next]_vars => IInv'
  <1> SUFFICES ASSUME IInv, [Next]_vars PROVE IInv'
    OBVIOUS
  <1>1. CASE Boot
    <2>1. /\ worker' \in {"up", "down"} /\ Imports(env) /\ NoWindows
          /\ UNCHANGED <<deployment, waiting, uploads, left>>
          /\ worker = "down"
      BY <1>1 DEF Boot
    <2>2. WindowsInv' /\ UploadsInv'
      BY <2>1, EmptyWindows, SameUploads DEF IInv
    <2> QED
      BY <2>1, <2>2
         DEF IInv, TypeOK, OwnAddress, WindowsInv, UploadsInv, uploads, AsDocumented, deployment
  <1>2. CASE Crash
    <2>1. /\ worker' = "down" /\ waiting' = [r \in Req |-> None]
          /\ NoWindows /\ UNCHANGED deployment
      BY <1>2 DEF Crash
    <2>2. WindowsInv' /\ UploadsInv'
      BY <1>2, <2>1, EmptyWindows, DieInv DEF Crash, IInv
    <2> QED
      BY <2>1, <2>2 DEF IInv, TypeOK, OwnAddress, WindowsInv, UploadsInv, deployment
  <1>3. ASSUME NEW r \in Req, Unresolved(r) PROVE IInv'
    <2>1. /\ waiting' = [waiting EXCEPT ![r] = None]
          /\ UNCHANGED <<windows, deployment, worker, uploads, left>>
      BY <1>3 DEF Unresolved
    <2>2. WindowsInv' /\ UploadsInv'
      BY <2>1, SameWindows, SameUploads DEF IInv
    <2> QED
      BY <2>1, <2>2 DEF IInv, TypeOK, OwnAddress, WindowsInv, UploadsInv, uploads, AsDocumented, deployment
  <1>4. CASE Tick
    <2>1. UNCHANGED <<deployment, worker, waiting, uploads, left>>
      BY <1>4 DEF Tick
    <2>2. WindowsInv' /\ UploadsInv'
      BY <1>4, <2>1, EndWindows, SameUploads DEF Tick, IInv
    <2> QED
      BY <2>1, <2>2 DEF IInv, TypeOK, OwnAddress, WindowsInv, UploadsInv, uploads, AsDocumented, deployment
  <1>5. CASE UNCHANGED vars
    <2>1. UNCHANGED <<windows, deployment, worker, waiting, uploads, left>>
      BY <1>5 DEF vars
    <2>2. WindowsInv' /\ UploadsInv'
      BY <2>1, SameWindows, SameUploads DEF IInv
    <2> QED
      BY <2>1, <2>2 DEF IInv, TypeOK, OwnAddress, WindowsInv, UploadsInv, uploads, AsDocumented, deployment
  <1> QED
    BY <1>1, <1>2, <1>3, <1>4, <1>5, ArriveIInv, CallIInv, UploadIInv DEF Next

-----------------------------------------------------------------------------
(* Theorems.                                                               *)

\* IInv holds of every worker, however often it dies.
THEOREM SpecIInv == Spec => []IInv
  BY InitIInv, NextIInv, PTL DEF Spec

\* Every reachable state is well typed; a request never waits and writes at once.
THEOREM TypeCorrect == Spec => []TypeOK
  <1>1. IInv => TypeOK
    BY DEF IInv
  <1> QED
    BY <1>1, SpecIInv, PTL

\* In a deployment as the README asks, each client is let through in every window
\* exactly as often as the limit says, whatever X-Forwarded-For it sends:
\* enforce_default_rate_limit and the decorators share out the routes, and client_ip
\* is the client's address.
THEOREM RateLimited == Spec => []LetThroughExactly
  <1>1. IInv => LetThroughExactly
    BY DEF IInv, WindowsInv, LetThroughExactly, Exact
  <1> QED
    BY <1>1, SpecIInv, PTL

\* No environment that a panel has mangled lets a hosted worker serve with the
\* shipped secrets (Settings._normalise_app_env).
THEOREM Configured == Spec => []HostedIsConfigured
  <1>1. IInv => HostedIsConfigured
    BY ImportsConfigured, DeployedEnv DEF IInv, TypeOK
  <1> QED
    BY <1>1, SpecIInv, PTL

\* An upload that was answered for keeps its file and size for ever, for any
\* number of uploads and crashes (LocalStorageBackend.save).
THEOREM Stored == Spec => []AnsweredIsStored
  <1>1. IInv => AnsweredIsStored
    BY DEF IInv, UploadsInv
  <1> QED
    BY <1>1, SpecIInv, PTL

\* Nothing but a crash leaves a part of a file behind: what has content was answered
\* for, is being written, or is whole and its request failed while it closed what
\* it read from (LocalStorageBackend.save).
THEOREM CleanedUp == Spec => []NoPartialContent
  <1>1. IInv => NoPartialContent
    BY DEF IInv, UploadsInv
  <1> QED
    BY <1>1, SpecIInv, PTL

\* No file exceeds the limit, for any chunk size and limit.
THEOREM LimitKept == Spec => []WithinLimit
  <1>1. IInv => WithinLimit
    BY DEF IInv, UploadsInv
  <1> QED
    BY <1>1, SpecIInv, PTL
=============================================================================

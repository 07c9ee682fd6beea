------------------------------- MODULE Uploads -------------------------------
(***************************************************************************)
(* POST /media and the local storage backend (app/storage/local.py): the   *)
(* uploaded file is copied to its final place chunk by chunk, other        *)
(* requests run between the chunks, and a failure has to clean up.         *)
(* Opening the file is a call in a thread (aiofiles) that goes on when the *)
(* request that waits for it is cancelled.  Service runs this in a process *)
(* that may die.                                                           *)
(***************************************************************************)
EXTENDS Naturals

CONSTANTS
    Uuid,        \* values of uuid4, each drawn once
    Filename,    \* names clients give
    Req,
    MaxSize,     \* bound: the size of what clients send
    CHUNK_SIZE,  \* in some unit, as the next
    max_bytes,
    None

VARIABLES
    disk,     \* the size of each file under the upload root
    stored,   \* the files that were answered for, with their sizes
    unanswered,   \* history: files whose request failed at its very end, with the
                  \* sizes that clients sent
    opening,  \* files that a thread still opens though its request is gone
    drawn,    \* uuids in use
    pc, job

vars == <<disk, stored, unanswered, opening, drawn, pc, job>>

Path == Uuid \X Filename

Sized == [path : Path, size : 0 .. MaxSize]

\* sent: how much the client sends.  size: how much of it has been copied.
Job == {j \in [path : Path \cup {None}, sent : 0 .. MaxSize, size : 0 .. MaxSize] :
           j.size <= j.sent}

NoJob == [path |-> None, sent |-> 0, size |-> 0]

TypeOK ==
    /\ disk \in [Path -> 0 .. MaxSize \cup {None}]
    /\ stored \subseteq Sized /\ unanswered \subseteq Sized
    /\ opening \subseteq Path /\ drawn \subseteq Uuid
    /\ pc \in [Req -> {"idle", "open", "copy", "close"}]
    /\ job \in [Req -> Job]

Init ==
    /\ disk = [p \in Path |-> None]
    /\ stored = {} /\ unanswered = {} /\ opening = {} /\ drawn = {}
    /\ pc = [r \in Req |-> "idle"]
    /\ job = [r \in Req |-> NoJob]

\* Mistake: files are stored under the name the client gave.
StoredNameGiven(u, f) == <<CHOOSE v \in Uuid : TRUE, f>>

\* stored_name: a uuid before what is left of the client's name.
StoredName(u, f) == <<u, f>>

\* A folder or extension that is not allowed is a 400 before anything happens.
Save(r) ==
    \E u \in Uuid \ drawn, f \in Filename, n \in 0 .. MaxSize :
        /\ pc[r] = "idle"
        /\ pc' = [pc EXCEPT ![r] = "open"]
        /\ job' = [job EXCEPT ![r] = [path |-> StoredName(u, f), sent |-> n, size |-> 0]]
        /\ drawn' = drawn \cup {u}
        /\ UNCHANGED <<disk, stored, unanswered, opening>>

Open(r) ==
    /\ pc[r] = "open"
    /\ disk' = [disk EXCEPT ![job[r].path] = 0]
    /\ pc' = [pc EXCEPT ![r] = "copy"]
    /\ UNCHANGED <<stored, unanswered, opening, drawn, job>>

End(r) ==
    /\ pc' = [pc EXCEPT ![r] = "idle"]
    /\ job' = [job EXCEPT ![r] = NoJob]
    /\ UNCHANGED drawn

\* The except clause: target.unlink(missing_ok=True).  What becomes of the
\* file.close() after it changes nothing.
Unlink(r) ==
    /\ disk' = [disk EXCEPT ![job[r].path] = None]
    /\ UNCHANGED <<stored, unanswered>> /\ End(r)

ToCopy(r) == job[r].sent - job[r].size

ChunkLength(r) == IF ToCopy(r) < CHUNK_SIZE THEN ToCopy(r) ELSE CHUNK_SIZE

\* Mistake: the chunk is written before the size is looked at.
CopyFirst(r) ==
    LET size == job[r].size + ChunkLength(r) IN
    /\ pc[r] = "copy" /\ ToCopy(r) > 0
    /\ IF job[r].size > max_bytes THEN Unlink(r)
       ELSE /\ disk' = [disk EXCEPT ![job[r].path] = size]
            /\ job' = [job EXCEPT ![r].size = size]
            /\ UNCHANGED <<stored, unanswered, drawn, pc>>
    /\ UNCHANGED opening

\* Mistake: every chunk is taken to be a full one.
CopyFull(r) ==
    LET size == job[r].size + CHUNK_SIZE IN
    /\ pc[r] = "copy" /\ ToCopy(r) > 0
    /\ IF size > max_bytes THEN Unlink(r)
       ELSE /\ disk' = [disk EXCEPT ![job[r].path] = size]
            /\ job' = [job EXCEPT ![r].size = size]
            /\ UNCHANGED <<stored, unanswered, drawn, pc>>
    /\ UNCHANGED opening

Copy(r) ==
    LET size == job[r].size + ChunkLength(r) IN
    /\ pc[r] = "copy" /\ ToCopy(r) > 0
    /\ IF size > max_bytes THEN Unlink(r)
       ELSE /\ disk' = [disk EXCEPT ![job[r].path] = size]
            /\ job' = [job EXCEPT ![r].size = size]
            /\ UNCHANGED <<stored, unanswered, drawn, pc>>
    /\ UNCHANGED opening

\* The whole file was read, and its copy is closed: what comes now is out of the
\* reach of the except clause.
Copied(r) ==
    /\ pc[r] = "copy" /\ ToCopy(r) = 0
    /\ pc' = [pc EXCEPT ![r] = "close"]
    /\ UNCHANGED <<disk, stored, unanswered, opening, drawn, job>>

\* file.close() has returned: the client is told path and size.
Finish(r) ==
    /\ pc[r] = "close"
    /\ stored' = stored \cup {[path |-> job[r].path, size |-> job[r].size]}
    /\ UNCHANGED <<disk, unanswered, opening>> /\ End(r)

\* file.close() fails or is cancelled in the finally clause: the file stays, and
\* nobody is told of it.
FailClose(r) ==
    /\ pc[r] = "close"
    /\ unanswered' = unanswered \cup {[path |-> job[r].path, size |-> job[r].sent]}
    /\ UNCHANGED <<disk, stored, opening>> /\ End(r)

\* Mistake: `except Exception`, which a cancellation is not.
FailUncaught(r) ==
    /\ pc[r] = "copy" /\ UNCHANGED opening
    /\ \/ Unlink(r)
       \/ UNCHANGED <<disk, stored, unanswered>> /\ End(r)

\* Reading or writing a chunk fails or is cancelled.
Fail(r) ==
    /\ pc[r] = "copy" /\ Unlink(r) /\ UNCHANGED opening

\* The file cannot be opened.
FailOpen(r) ==
    /\ pc[r] = "open" /\ Unlink(r) /\ UNCHANGED opening

\* The request is cancelled while the thread opens the file.
CancelOpen(r) ==
    /\ pc[r] = "open"
    /\ opening' = opening \cup {job[r].path} /\ Unlink(r)

LateOpen(p) ==
    /\ p \in opening
    /\ opening' = opening \ {p}
    /\ disk' = [disk EXCEPT ![p] = 0]
    /\ UNCHANGED <<stored, unanswered, drawn, pc, job>>

Work(r) ==
    \/ Open(r) \/ Copy(r) \/ Copied(r) \/ Finish(r)
    \/ Fail(r) \/ FailOpen(r) \/ CancelOpen(r) \/ FailClose(r)

\* The process dies: its uploads are gone, the disk and the uuids are not.
Die ==
    /\ pc' = [r \in Req |-> "idle"]
    /\ job' = [r \in Req |-> NoJob]
    /\ opening' = {}
    /\ UNCHANGED <<disk, stored, unanswered, drawn>>

-----------------------------------------------------------------------------
\* What a client was told stays true: no other upload, of the same name or
\* failing, and no crash touches its file.
AnsweredIsStored == \A s \in stored : disk[s.path] = s.size

\* No file is larger than the limit, not even while it is written.
WithinLimit == \A p \in Path : disk[p] # None => disk[p] <= max_bytes
=============================================================================

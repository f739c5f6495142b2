------------------------------- MODULE Blobs -------------------------------
(***************************************************************************)
(* Blob storage as the jobs of one process use it: the registry that       *)
(* shares one client per location and closes them at shutdown, the copy of *)
(* full texts into the repository's own storage while references and robot *)
(* results are ingested, the line-by-line reading of a file that arrives   *)
(* in chunks, and signed URLs under a cached user delegation key.          *)
(*                                                                         *)
(* The jobs are coroutines of one event loop: an action is what happens    *)
(* between two awaits.  A file is a sequence of bytes; its checksum is the *)
(* content itself, which is what a checksum is trusted to tell apart.      *)
(***************************************************************************)
EXTENDS Integers, Sequences, FiniteSets, SequencesExt

CONSTANTS
    Job,            \* the coroutines
    Work,           \* the sets of [Job -> work] a process may be given
    MaxTexts,       \* bound: full texts of one reference
    MaxBytes,       \* full_text_max_byte_size
    KeyDuration,    \* user_delegation_key_duration
    UrlExpiry,      \* presigned_url_expiry_seconds
    MaxLatency,     \* how long a request for a delegation key takes at most
    MaxTime,        \* bound: where the clock stops
    MaxFaults       \* bound: failures of the stores

\* A cached delegation key outlives every URL signed with it: the defaults
\* are a day for the key, kept for half of it, and an hour for the URL.
KeyOutlivesUrl == UrlExpiry + MaxLatency <= KeyDuration \div 2

VARIABLES
    clients,        \* the registry: the client of each location
    made,           \* how many clients were instantiated
    open,           \* the clients that are open
    closer,         \* aclose: "idle", "waiting", "closing", "closed"
    closing,        \* the clients aclose took out of the registry
    job,            \* what each coroutine does
    blob,           \* the files of the repository's own storage
    key,            \* the cached delegation key
    keyLock,        \* the coroutine that requests a key
    now,            \* the clock
    urls,           \* the signed URLs: when they and their keys expire
    faults          \* failures so far

vars == <<clients, made, open, closer, closing, job, blob, key, keyLock, now,
          urls, faults>>
registry == <<clients, made, open, closer, closing>>
signing == <<key, keyLock, now, urls>>

----------------------------------------------------------------------------
(* Files, clients and the work of a job.                                   *)

\* BlobStorageLocation; http and https differ only in the URL they give.
Owned == "azure"
Remote == "https"
Location == {Owned, Remote}

NoClient == 0

\* A full text: where it is, what its source holds, the size and the checksum
\* declared for it.
NoSize == -1
NoSum == <<"none">>
FullText(from, bytes, size, sum) ==
    [blob |-> from, bytes |-> bytes, size |-> size, sum |-> sum]

\* The work of a job: full texts to store, a file to read in lines, a file
\* to sign a URL for (with the account's key or, under a managed identity,
\* with a delegation key), or nothing.
Working(kind, texts, file, at, managed) ==
    [kind |-> kind, texts |-> texts, file |-> file, at |-> at,
     managed |-> managed]
Storing(texts) == Working("store", texts, <<>>, Owned, FALSE)
Reading(bytes) == Working("read", <<>>, bytes, Owned, FALSE)
Signing(at, managed) == Working("sign", <<>>, <<>>, at, managed)
Idle == Working("idle", <<>>, <<>>, Owned, FALSE)

\* A job: where it stands, its work, the full text it is at, the clients it
\* was given, the bytes that came so far, the part of a character and of a
\* line it holds back and the lines it passed on, the full texts kept, the
\* error it met, and when it asked for a delegation key.
NewJob(w) ==
    [pc |-> CASE w.kind = "idle" -> "done"
              [] w.kind = "store" -> "next"
              [] OTHER -> "client",
     work |-> w, n |-> 1, source |-> NoClient, target |-> NoClient,
     got |-> <<>>, char |-> <<>>, buffer |-> <<>>, lines |-> <<>>,
     kept |-> {}, cause |-> "none", since |-> 0]

NoKey == [until |-> -1, cached |-> -1]

\* Something outside the process fails.
Fault == faults < MaxFaults /\ faults' = faults + 1

Init ==
    /\ clients = [l \in Location |-> NoClient]
    /\ made = 0
    /\ open = {}
    /\ closer = "idle"
    /\ closing = {}
    /\ \E w \in Work : job = [j \in Job |-> NewJob(w[j])]
    /\ blob = [j \in Job |-> [n \in 1..MaxTexts |-> NoSum]]
    /\ key = NoKey
    /\ keyLock = "free"
    /\ now = 0
    /\ urls = {}
    /\ faults = 0

----------------------------------------------------------------------------
(* The registry of clients.                                                *)

Goto(j, pc) == job' = [job EXCEPT ![j].pc = pc]

\* The job is given client c and goes on.
Given(j, c) ==
    job' = [job EXCEPT ![j] =
        CASE @.pc \in {"source", "source wait"} ->
                 [@ EXCEPT !.source = c, !.pc = "target"]
          [] @.pc \in {"target", "target wait"} ->
                 [@ EXCEPT !.target = c, !.pc = "copy"]
          [] OTHER ->
                 [@ EXCEPT !.target = c,
                           !.pc = IF job[j].work.kind = "read" THEN "lines" ELSE "sign"]]

\* The location of a job that waits for the registry's lock.
Place(j) ==
    IF job[j].pc \in {"source", "source wait"} THEN Remote
    ELSE IF job[j].work.kind = "store" THEN Owned
    ELSE job[j].work.at

Asking == {"source", "target", "client"}
Waiting == {"source wait", "target wait", "client wait"}

\* The lock of the registry is held across an await only by aclose.
Locked == closer = "closing"

\* A client is made for the location and kept.
Instantiate(j, l) ==
    /\ made' = made + 1
    /\ open' = open \cup {made + 1}
    /\ clients' = [clients EXCEPT ![l] = made + 1]
    /\ Given(j, made + 1)
    /\ UNCHANGED <<closer, closing>>

Found(j, l) == Given(j, clients[l]) /\ UNCHANGED registry

\* _BlobClientRegistry.get: the client is there; or the lock is free and it is
\* made; or the job waits for the lock.
Get(j) ==
    /\ job[j].pc \in Asking
    /\ \/ clients[Place(j)] # NoClient /\ Found(j, Place(j))
       \/ /\ clients[Place(j)] = NoClient
          /\ ~Locked
          /\ Instantiate(j, Place(j))
       \/ /\ clients[Place(j)] = NoClient
          /\ Locked
          /\ Goto(j, job[j].pc \o " wait")
          /\ UNCHANGED registry
    /\ UNCHANGED <<blob, signing, faults>>

\* Mutant: the check is not repeated under the lock.
GetLockedOnce(j) ==
    /\ job[j].pc \in Waiting
    /\ ~Locked
    /\ Instantiate(j, Place(j))
    /\ UNCHANGED <<blob, signing, faults>>

\* The lock is free: the registry is read again before a client is made.
GetLocked(j) ==
    /\ job[j].pc \in Waiting
    /\ ~Locked
    /\ IF clients[Place(j)] # NoClient
       THEN Found(j, Place(j))
       ELSE Instantiate(j, Place(j))
    /\ UNCHANGED <<blob, signing, faults>>

\* aclose: the registry is emptied under the lock ...
Close ==
    /\ closer = "idle"
    /\ closer' = "closing"
    /\ closing' = {clients[l] : l \in Location} \ {NoClient}
    /\ clients' = [l \in Location |-> NoClient]
    /\ UNCHANGED <<made, open, job, blob, signing, faults>>

\* ... and each client is closed; that one raises does not keep the others
\* from being closed.
CloseOne(c) ==
    /\ c \in closing
    /\ open' = open \ {c}
    /\ closing' = closing \ {c}
    /\ UNCHANGED <<clients, made, closer, job, blob, signing, faults>>

\* Every client has been closed: the lock is released.
CloseEnds ==
    /\ closer = "closing"
    /\ closing = {}
    /\ closer' = "closed"
    /\ UNCHANGED <<clients, made, open, closing, job, blob, signing, faults>>

----------------------------------------------------------------------------
(* Storing full texts.                                                     *)

\* The full text a storing job is at.
Text(j) == job[j].work.texts[job[j].n]

\* The full text is left out, or kept as r, and the next one is taken up.
Leave(j, r) ==
    job' = [job EXCEPT ![j] =
        [@ EXCEPT !.pc = "next", !.n = @ + 1, !.got = <<>>, !.kept = @ \cup r]]

\* The job ends with an exception.
Fail(j, e) == job' = [job EXCEPT ![j] = [@ EXCEPT !.pc = "raised", !.cause = e]]

\* The exception of upload_file for the exception e of the chunks it is given:
\* every exception becomes a failure of the store it writes to.
UploadError(e) == "AzureBlobStorageError"

\* What store_full_text makes of an exception of the copy.
StoreError(e) ==
    IF e \in {"BlobSizeExceededError", "RemoteBlobStorageError"}
    THEN "FullTextIngestionError"
    ELSE e

\* The copy failed on e: _store_full_texts and _process_enhancement_line drop
\* the full text on the errors they know and end with any other.
CopyFails(j, e) ==
    IF StoreError(UploadError(e)) = "FullTextIngestionError"
    THEN Leave(j, {})
    ELSE Fail(j, e)

\* The loop over the full texts: one that is not remote is dropped.
NextText(j) ==
    /\ job[j].pc = "next"
    /\ \/ job[j].n > Len(job[j].work.texts) /\ Goto(j, "done")
       \/ /\ job[j].n <= Len(job[j].work.texts)
          /\ IF Text(j).blob = Remote THEN Goto(j, "source") ELSE Leave(j, {})
    /\ UNCHANGED <<registry, blob, signing, faults>>

\* A chunk comes from the source: hashed, counted, and checked against the cap.
Chunk(j) ==
    /\ job[j].pc = "copy"
    /\ job[j].source \in open
    /\ Len(job[j].got) < Len(Text(j).bytes)
    /\ LET got == Append(job[j].got, Text(j).bytes[Len(job[j].got) + 1]) IN
       IF Len(got) > MaxBytes
       THEN CopyFails(j, "BlobSizeExceededError")
       ELSE job' = [job EXCEPT ![j].got = got]
    /\ UNCHANGED <<registry, blob, signing, faults>>

\* The source fails, or its client was closed meanwhile.
SourceFails(j) ==
    /\ job[j].pc = "copy"
    /\ \/ job[j].source \in open /\ Fault /\ CopyFails(j, "RemoteBlobStorageError")
       \/ /\ job[j].source \notin open
          /\ CopyFails(j, "RuntimeError")
          /\ UNCHANGED faults
    /\ UNCHANGED <<registry, blob, signing>>

\* The upload fails, or its client was closed meanwhile.
UploadFails(j) ==
    /\ job[j].pc = "copy"
    /\ \/ job[j].target \in open /\ Fault
       \/ job[j].target \notin open /\ UNCHANGED faults
    /\ CopyFails(j, "AzureError")
    /\ UNCHANGED <<registry, blob, signing>>

\* What was declared agrees with what was copied.
Agrees(text, got) ==
    /\ text.sum \in {NoSum, got}
    /\ text.size \in {NoSize, Len(got)}

\* The upload is committed, then the copy is compared with what was declared:
\* the content points to the copy, or the full text is dropped.
CopyEnds(j) ==
    /\ job[j].pc = "copy"
    /\ {job[j].source, job[j].target} \subseteq open
    /\ job[j].got = Text(j).bytes
    /\ blob' = [blob EXCEPT ![j][job[j].n] = job[j].got]
    /\ LET stored == [n |-> job[j].n, blob |-> Owned,
                      size |-> Len(job[j].got), sum |-> job[j].got] IN
       Leave(j, IF Agrees(Text(j), job[j].got) THEN {stored} ELSE {})
    /\ UNCHANGED <<registry, signing, faults>>

----------------------------------------------------------------------------
(* Reading a file line by line.  A byte is a character of its own, the     *)
(* first or the second half of a character of two bytes, or a line feed.   *)

Half == "<"
Rest == ">"
Newline == "n"

\* The incremental decoder: the characters of the bytes, and the half of one
\* that is carried to the next chunk.
Decoded(char, bytes) ==
    FoldLeft(LAMBDA d, b :
        IF b = Half
        THEN [d EXCEPT !.char = <<Half>>]
        ELSE [text |-> Append(d.text, IF b = Rest THEN "<>" ELSE b),
              char |-> <<>>],
        [text |-> <<>>, char |-> char], bytes)

\* The lines that text completes, and what is left in the buffer.
Split(buffer, text) ==
    FoldLeft(LAMBDA d, c :
        IF c = Newline
        THEN [lines |-> Append(d.lines, d.buffer), buffer |-> <<>>]
        ELSE [d EXCEPT !.buffer = Append(@, c)],
        [lines |-> <<>>, buffer |-> buffer], text)

\* A chunk of k bytes arrives: its whole lines are passed on.
ReadChunk(j, k) ==
    /\ job[j].pc = "lines"
    /\ job[j].target \in open
    /\ LET from == Len(job[j].got)
           chunk == SubSeq(job[j].work.file, from + 1, from + k)
           d == Decoded(job[j].char, chunk)
           s == Split(job[j].buffer, d.text)
       IN  /\ from + k <= Len(job[j].work.file)
           /\ job' = [job EXCEPT ![j] =
                  [@ EXCEPT !.got = @ \o chunk, !.char = d.char,
                            !.buffer = s.buffer, !.lines = @ \o s.lines]]
    /\ UNCHANGED <<registry, blob, signing, faults>>

\* The file ends: half a character is an error, a last line without a line
\* feed is passed on.
ReadEnds(j) ==
    /\ job[j].pc = "lines"
    /\ job[j].got = job[j].work.file
    /\ IF job[j].char # <<>>
       THEN Fail(j, "UnicodeDecodeError")
       ELSE job' = [job EXCEPT ![j] =
                [@ EXCEPT !.pc = "done", !.buffer = <<>>,
                          !.lines = @ \o IF job[j].buffer = <<>> THEN <<>>
                                         ELSE <<job[j].buffer>>]]
    /\ UNCHANGED <<registry, blob, signing, faults>>

\* The store fails while the file is read, or its client was closed meanwhile.
ReadFails(j) ==
    /\ job[j].pc = "lines"
    /\ \/ job[j].target \in open /\ Fault
       \/ job[j].target \notin open /\ UNCHANGED faults
    /\ Fail(j, "AzureBlobStorageError")
    /\ UNCHANGED <<registry, blob, signing>>

----------------------------------------------------------------------------
(* Signing URLs.                                                           *)

\* Mutant: it is used for all of its life.
CachedToTheEnd == key.cached # NoKey.cached /\ now < key.cached + KeyDuration

\* The cached delegation key is used for half of its life.
Cached == key.cached # NoKey.cached /\ now < key.cached + KeyDuration \div 2

\* A URL is signed with a key that is good until k.
Signed(j, k) ==
    /\ urls' = urls \cup {[expires |-> now + UrlExpiry, until |-> k]}
    /\ Goto(j, "done")

\* The job holds the lock and asks for a key that starts now.
Request(j) ==
    /\ keyLock' = j
    /\ job' = [job EXCEPT ![j] = [@ EXCEPT !.pc = "key", !.since = now]]

\* A URL of a remote file is refused; the account's key never expires; a
\* delegation key is cached, requested, or waited for.
Sign(j) ==
    /\ job[j].pc = "sign"
    /\ \/ job[j].work.at = Remote /\ Fail(j, "RemoteBlobStorageError")
          /\ UNCHANGED <<urls, keyLock>>
       \/ /\ job[j].work.at = Owned /\ ~job[j].work.managed
          /\ Signed(j, now + UrlExpiry)
          /\ UNCHANGED keyLock
       \/ /\ job[j].work.at = Owned /\ job[j].work.managed
          /\ IF Cached THEN Signed(j, key.until) /\ UNCHANGED keyLock
             ELSE /\ IF keyLock = "free" THEN Request(j)
                     ELSE Goto(j, "key wait") /\ UNCHANGED keyLock
                  /\ UNCHANGED urls
    /\ UNCHANGED <<registry, blob, key, now, faults>>

\* The lock is free: the cache is read again before a key is requested.
SignLocked(j) ==
    /\ job[j].pc = "key wait"
    /\ keyLock = "free"
    /\ IF Cached THEN Signed(j, key.until) /\ UNCHANGED keyLock
       ELSE Request(j) /\ UNCHANGED urls
    /\ UNCHANGED <<registry, blob, key, now, faults>>

\* The key arrives: it is cached from now on.
KeyArrives(j) ==
    /\ job[j].pc = "key"
    /\ job[j].target \in open
    /\ key' = [until |-> job[j].since + KeyDuration, cached |-> now]
    /\ keyLock' = "free"
    /\ Signed(j, job[j].since + KeyDuration)
    /\ UNCHANGED <<registry, blob, now, faults>>

\* The request fails: the lock is released.
KeyFails(j) ==
    /\ job[j].pc = "key"
    /\ \/ job[j].target \in open /\ Fault
       \/ job[j].target \notin open /\ UNCHANGED faults
    /\ keyLock' = "free"
    /\ Fail(j, "AzureBlobStorageError")
    /\ UNCHANGED <<registry, blob, key, now, urls>>

\* Time passes; a request for a key is answered within MaxLatency.
Tick ==
    /\ now < MaxTime
    /\ \A j \in Job : job[j].pc = "key" => now - job[j].since < MaxLatency
    /\ \E j \in Job : job[j].work.kind = "sign" /\ job[j].pc \notin {"done", "raised"}
    /\ now' = now + 1
    /\ UNCHANGED <<registry, job, blob, key, keyLock, urls, faults>>

----------------------------------------------------------------------------
JobStep(j) ==
    \/ Get(j)
    \/ GetLocked(j)
    \/ NextText(j)
    \/ Chunk(j)
    \/ SourceFails(j)
    \/ UploadFails(j)
    \/ CopyEnds(j)
    \/ \E k \in 1..3 : ReadChunk(j, k)
    \/ ReadEnds(j)
    \/ ReadFails(j)
    \/ Sign(j)
    \/ SignLocked(j)
    \/ KeyArrives(j)
    \/ KeyFails(j)

CloseStep == (\E c \in closing : CloseOne(c)) \/ CloseEnds

Next == (\E j \in Job : JobStep(j)) \/ Close \/ CloseStep \/ Tick

Spec == Init /\ [][Next]_vars

----------------------------------------------------------------------------
(* Properties.                                                             *)

\* _BlobClientRegistry: a client that is open is the registered one of its
\* location or is about to be closed: none is lost, however the jobs that ask
\* for a client and the shutdown interleave.
NoClientLost == open \subseteq {clients[l] : l \in Location} \cup closing

\* generate_signed_url: a URL is good until it says it expires: the delegation
\* key that signed it does not expire before, though the key was cached and
\* its request took time.
UrlGoodToTheEnd == \A u \in urls : u.expires <= u.until

=============================================================================

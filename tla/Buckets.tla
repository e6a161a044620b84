-------------------------------- MODULE Buckets --------------------------------
(***************************************************************************)
(* The objects of one upload manager and its clients' calls, over each of  *)
(* the buckets: a Map, a directory, an S3 or a Cloud Storage bucket, and   *)
(* the noop manager.                                                       *)
(*                                                                         *)
(* A directory is seen one file operation at a time: an object is the file *)
(* of its key, its attributes are a second file beside it, and a save      *)
(* streams to a temporary file, which it renames.  The remote services     *)
(* put, delete and list whole objects, a page at a time, and may do so     *)
(* long after the caller was told of a failure.  A crash ends every call,  *)
(* and what a Map holds.                                                   *)
(***************************************************************************)
EXTENDS Naturals, FiniteSets

CONSTANTS
  NumKeys,       \* how many keys there are; services list them in this order
  Version,       \* what may be saved under a key
  Typed,         \* the versions saved with a contentType or cacheControl
  TooLarge,      \* the versions longer than maxSizeBytes
  User,
  Backends,      \* the buckets in use
  PageSize,      \* bound: the most keys on a page
  MaxJobs,       \* bound: how many calls are made
  MaxBreakdowns, \* bound: how often the process dies
  None           \* absent

VARIABLES
  backend,   \* the bucket in use
  objects,   \* the version each key holds
  side,      \* the attributes file of each key, for a directory
  litter,    \* temporary files left by a crash, named by who wrote them
  jobs,      \* each user's call
  spent,     \* how many calls and crashes there were
  reply      \* history: what the last step answered, unless a failure

bucketVars == <<backend, objects, side, litter, jobs, spent, reply>>

BlobKey == 1..NumKeys

Services == {"s3", "gcp"}

\* at is what the call does next.  version, and stream when it comes chunk by
\* chunk, are what a save writes.  got is what a read has found, names and
\* cursor what a listing has before and behind it.  seen, stayed and listed are
\* history: the versions of the key, and the keys that had an object, during the
\* call, and what a listing has yielded.
Job == [op : {"save", "read", "delete", "exists", "attributes", "list"},
        key : BlobKey, version : Version, stream : BOOLEAN,
        at : {"begin", "stream", "rename", "cleanup", "attrs", "fill", "open",
              "unlink", "land", "stray", "answer", "walk"},
        got : Version \union {None},
        names : SUBSET ({"key", "temp", "left"} \X (BlobKey \union User)),
        cursor : 0..NumKeys,
        listed : SUBSET BlobKey,
        seen : SUBSET (Version \union {None}), stayed : SUBSET BlobKey]

BucketsAssumption ==
  /\ Backends \subseteq {"memory", "filesystem", "s3", "gcp", "noop"}
  /\ Typed \subseteq Version /\ TooLarge \subseteq Version /\ Version # {}
  /\ NumKeys \in Nat \ {0} /\ PageSize \in Nat \ {0}
  /\ MaxJobs \in Nat /\ MaxBreakdowns \in Nat
  /\ None \notin Version \union User \union Job

TypeOK ==
  /\ backend \in Backends
  /\ objects \in [BlobKey -> Version \union {None}]
  /\ side \in [BlobKey -> Version \union {None, "torn"}]
  /\ litter \subseteq User
  /\ jobs \in [User -> Job \union {None}]
  /\ spent \in [jobs : 0..MaxJobs, breakdowns : 0..MaxBreakdowns]

Init ==
  /\ backend \in Backends
  /\ objects = [k \in BlobKey |-> None]
  /\ side = [k \in BlobKey |-> None]
  /\ litter = {}
  /\ jobs = [u \in User |-> None]
  /\ spent = [jobs |-> 0, breakdowns |-> 0]
  /\ reply = None

-----------------------------------------------------------------------------

\* What a call that saves nothing has for a version.
Unsaved == CHOOSE v \in Version : TRUE

Existing(o) == {k \in BlobKey : o[k] # None}

Watch(j) ==
  IF j = None THEN None
  ELSE [j EXCEPT !.seen = @ \union {objects'[j.key]},
                 !.stayed = @ \intersect Existing(objects')]

Go(u, j) == jobs' = [v \in User |-> Watch(IF v = u THEN j ELSE jobs[v])]

Step(u, j) == Go(u, j) /\ reply' = None

End(u, outcome, j) ==
  /\ Go(u, None)
  /\ LET w == Watch(j)
     IN  reply' = IF outcome \in {"done", "missing", "half"}
                    THEN [outcome |-> outcome, op |-> w.op, version |-> w.version,
                          got |-> w.got, seen |-> w.seen,
                          missed |-> w.stayed \ w.listed]
                    ELSE None

At(u, op, at) == jobs[u] # None /\ jobs[u].op = op /\ jobs[u].at = at

Quiet == UNCHANGED <<objects, side, litter>>

Fixed == UNCHANGED <<backend, spent>>

Call(u, op, k, v, stream) ==
  /\ jobs[u] = None /\ spent.jobs < MaxJobs
  /\ spent' = [spent EXCEPT !.jobs = @ + 1]
  /\ Quiet
  /\ Step(u, [op |-> op, key |-> k, version |-> v, stream |-> stream,
              at |-> "begin", got |-> None, names |-> {}, cursor |-> 0,
              listed |-> {}, seen |-> {objects[k]},
              stayed |-> Existing(objects)])
  /\ UNCHANGED backend

\* The breaker is open, and the bucket is not asked.
Broken(u) ==
  /\ jobs[u] # None /\ jobs[u].at = "begin" /\ backend # "noop"
  /\ Quiet /\ Fixed
  /\ End(u, "broken", jobs[u])

-----------------------------------------------------------------------------
(* Save.                                                                   *)

\* Mutant of Admitted: a stream is not limited.
AdmittedStream(v, stream) == stream \/ v \notin TooLarge

\* Whether maxSizeBytes lets the last byte of a body pass.
Admitted(v, stream) == v \notin TooLarge

\* Bytes that are too long are refused before the bucket is asked.  The noop manager
\* asks for no length and drains what it is given, a stream that fails included.
SaveBegins(u) ==
  /\ At(u, "save", "begin")
  /\ Quiet /\ Fixed
  /\ LET j == jobs[u]
         refused == ~j.stream /\ ~Admitted(j.version, FALSE)
     IN  \/ backend = "noop" /\ End(u, "done", j)
         \/ (IF backend = "noop" THEN j.stream ELSE refused) /\ End(u, "rejected", j)
         \/ backend # "noop" /\ ~refused /\ Step(u, [j EXCEPT !.at = "stream"])

\* The body has been read to its end: into memory, into the temporary file, or
\* to the service.
BodyEnds(u) ==
  /\ At(u, "save", "stream") /\ Admitted(jobs[u].version, jobs[u].stream)
  /\ LET j == jobs[u]
     IN  IF backend = "memory"
           THEN /\ objects' = [objects EXCEPT ![j.key] = j.version]
                /\ End(u, "done", j)
           ELSE /\ UNCHANGED objects
                /\ Step(u, [j EXCEPT !.at = IF backend = "filesystem" THEN "rename"
                                            ELSE "land"])
  /\ UNCHANGED <<side, litter>> /\ Fixed

\* The stream fails, crosses the limit, or its target does; mkdir may fail too.
BodyFails(u) ==
  /\ At(u, "save", "stream")
  /\ Quiet /\ Fixed
  /\ jobs[u].stream \/ backend # "memory"
  /\ IF backend = "filesystem"
       THEN Step(u, [jobs[u] EXCEPT !.at = "cleanup"])
       ELSE End(u, "rejected", jobs[u])

Rename(u) ==
  /\ At(u, "save", "rename")
  /\ \E fine \in BOOLEAN :
       /\ objects' = IF fine THEN [objects EXCEPT ![jobs[u].key] = jobs[u].version]
                     ELSE objects
       /\ Step(u, [jobs[u] EXCEPT !.at = IF fine THEN "attrs" ELSE "cleanup"])
  /\ UNCHANGED <<side, litter>> /\ Fixed

Cleanup(u) ==
  /\ At(u, "save", "cleanup")
  /\ Quiet /\ Fixed
  /\ End(u, "rejected", jobs[u])

\* The attributes follow in an operation of their own: writeFile truncates the
\* file and then fills it, and without attributes the file goes.  A failure
\* leaves the object replaced.
SaveAttrs(u) ==
  /\ At(u, "save", "attrs")
  /\ UNCHANGED <<objects, litter>> /\ Fixed
  /\ LET j == jobs[u]
     IN  \/ /\ j.version \in Typed
            /\ side' = [side EXCEPT ![j.key] = "torn"]
            /\ Step(u, [j EXCEPT !.at = "fill"])
         \/ /\ j.version \notin Typed
            /\ side' = [side EXCEPT ![j.key] = None]
            /\ End(u, "done", j)
         \/ UNCHANGED side /\ End(u, "half", j)

FillAttrs(u) ==
  /\ At(u, "save", "fill")
  /\ UNCHANGED <<objects, litter>> /\ Fixed
  /\ \/ /\ side' = [side EXCEPT ![jobs[u].key] = jobs[u].version]
        /\ End(u, "done", jobs[u])
     \/ UNCHANGED side /\ End(u, "half", jobs[u])

-----------------------------------------------------------------------------
(* The services: a put, an upload completed, or a deletion takes effect at  *)
(* one instant or not at all, its answer may be lost, and one that was     *)
(* given up may take effect all the same (a stray).                        *)

Lands(u, op, version) ==
  /\ At(u, op, "land") \/ At(u, op, "stray")
  /\ LET j == jobs[u]
     IN  \/ /\ objects' = [objects EXCEPT ![j.key] = version]
            /\ IF j.at = "land" THEN Step(u, [j EXCEPT !.at = "answer"])
               ELSE End(u, "failed", j)
         \/ UNCHANGED objects /\ End(u, "failed", j)
         \/ UNCHANGED objects /\ j.at = "land" /\ Step(u, [j EXCEPT !.at = "stray"])
  /\ UNCHANGED <<side, litter>> /\ Fixed

PutLands(u) == backend = "s3" /\ Lands(u, "save", jobs[u].version)

UploadLands(u) == backend = "gcp" /\ Lands(u, "save", jobs[u].version)

S3DeleteLands(u) == backend = "s3" /\ Lands(u, "delete", None)

GcsDeleteLands(u) == backend = "gcp" /\ Lands(u, "delete", None)

Answered(u) ==
  /\ jobs[u] # None /\ jobs[u].at = "answer"
  /\ Quiet /\ Fixed
  /\ \E outcome \in {"done", "failed"} : End(u, outcome, jobs[u])

-----------------------------------------------------------------------------
(* Reads.                                                                  *)

\* The object is looked at, and the call ends, but for an open that goes on.
Looks(u, goesOn) ==
  /\ Quiet /\ Fixed
  /\ LET v == objects[jobs[u].key]
         j == [jobs[u] EXCEPT !.got = v]
     IN  CASE v = None -> End(u, "missing", j)
           [] v # None /\ goesOn -> Step(u, [j EXCEPT !.at = "open"])
           [] OTHER -> End(u, "done", j)

ServiceFails(u) == Quiet /\ Fixed /\ End(u, "failed", jobs[u])

Asks(u, b, ops) == backend = b /\ \E op \in ops : At(u, op, "begin")

MemoryReads(u) ==
  Asks(u, "memory", {"read", "exists", "attributes"}) /\ Looks(u, FALSE)

S3Opens(u) ==
  Asks(u, "s3", {"read"}) /\ (Looks(u, FALSE) \/ ServiceFails(u))

S3Heads(u) ==
  Asks(u, "s3", {"exists", "attributes"}) /\ (Looks(u, FALSE) \/ ServiceFails(u))

\* Cloud Storage is asked whether the object exists before it is read.
GcsOpens(u) ==
  Asks(u, "gcp", {"read"}) /\ (Looks(u, TRUE) \/ ServiceFails(u))

GcsHeads(u) ==
  Asks(u, "gcp", {"exists", "attributes"}) /\ (Looks(u, FALSE) \/ ServiceFails(u))

\* The directory's reader stats the file before it opens it.
FileStat(u) == Asks(u, "filesystem", {"read"}) /\ Looks(u, TRUE)

FileExists(u) == Asks(u, "filesystem", {"exists"}) /\ Looks(u, FALSE)

FileAttributes(u) == Asks(u, "filesystem", {"attributes"}) /\ Looks(u, TRUE)

\* The file may be another by then, or gone, which fails the stream.
OpenStream(u) ==
  /\ At(u, "read", "open")
  /\ Quiet /\ Fixed
  /\ LET v == objects[jobs[u].key]
     IN  End(u, IF v = None THEN "failed" ELSE "done",
             [jobs[u] EXCEPT !.got = v])

\* The attributes file is read after the stat; a torn one is not JSON.
ReadSidecar(u) ==
  /\ At(u, "attributes", "open")
  /\ Quiet /\ Fixed
  /\ End(u, IF side[jobs[u].key] = "torn" THEN "failed" ELSE "done", jobs[u])

-----------------------------------------------------------------------------
(* Delete.                                                                 *)

DeleteBegins(u) ==
  /\ At(u, "delete", "begin")
  /\ LET j == jobs[u]
     IN  IF backend \in Services
           THEN UNCHANGED objects /\ Step(u, [j EXCEPT !.at = "land"])
           ELSE /\ objects' = [objects EXCEPT ![j.key] = None]
                /\ IF backend = "filesystem"
                     THEN Step(u, [j EXCEPT !.at = "unlink"])
                     ELSE End(u, "done", j)
  /\ UNCHANGED <<side, litter>> /\ Fixed

\* The attributes file goes after the object.
Unlink(u) ==
  /\ At(u, "delete", "unlink")
  /\ UNCHANGED <<objects, litter>> /\ Fixed
  /\ side' = [side EXCEPT ![jobs[u].key] = None]
  /\ End(u, "done", jobs[u])

-----------------------------------------------------------------------------
(* Listings, whose caller takes one name after the other.                  *)

\* The users whose save has a temporary file.
Writing == {u \in User : \E at \in {"stream", "rename", "cleanup"} :
                           At(u, "save", at)}

\* The files of the directory that are no attributes: temporary ones are.
Names ==
  {<<"key", k>> : k \in Existing(objects)}
    \union {<<"temp", u>> : u \in Writing}
    \union {<<"left", u>> : u \in litter}

ReadDir(u) ==
  /\ backend = "filesystem" /\ At(u, "list", "begin")
  /\ Quiet /\ Fixed
  /\ Step(u, [jobs[u] EXCEPT !.at = "walk", !.names = Names])

\* Each file is looked at when its turn comes, and one that is gone by then
\* fails the listing.
Walk(u) ==
  /\ backend = "filesystem" /\ At(u, "list", "walk")
  /\ Quiet /\ Fixed
  /\ LET j == jobs[u]
     IN  IF j.names = {} THEN End(u, "done", j)
         ELSE \E n \in j.names :
                IF n \notin Names THEN End(u, "failed", j)
                ELSE Step(u, [j EXCEPT
                       !.names = @ \ {n},
                       !.listed = IF n[1] = "key" THEN @ \union {n[2]} ELSE @])

\* Mutant of Beyond: a page begins one key too far.
BeyondNext(c) == {k \in Existing(objects) : k > c + 1}

Beyond(c) == {k \in Existing(objects) : k > c}

\* A page of a service: the next keys behind the last one.
NextPage(u, b) ==
  /\ backend = b /\ jobs[u] # None /\ jobs[u].op = "list"
  /\ Quiet /\ Fixed
  /\ LET j    == jobs[u]
         left == Beyond(j.cursor)
     IN  \/ End(u, "failed", j)
         \/ left = {} /\ End(u, "done", j)
         \/ \E page \in SUBSET left :
              /\ page # {} /\ Cardinality(page) <= PageSize
              /\ \A k \in left \ page, l \in page : l < k
              /\ Step(u, [j EXCEPT !.at = "walk", !.listed = @ \union page,
                            !.cursor = CHOOSE k \in page : \A l \in page : l <= k])

S3Lists(u) == NextPage(u, "s3")

GcsLists(u) == NextPage(u, "gcp")

\* The iterator of a Map goes on to whatever is there by then.
NextEntry(u) ==
  /\ backend = "memory" /\ jobs[u] # None /\ jobs[u].op = "list"
  /\ Quiet /\ Fixed
  /\ LET j    == jobs[u]
         left == Existing(objects) \ j.listed
     IN  IF left = {} THEN End(u, "done", j)
         ELSE \E k \in left :
                Step(u, [j EXCEPT !.at = "walk", !.listed = @ \union {k}])

\* The noop manager knows no object.
NoopCall(u) ==
  /\ backend = "noop" /\ jobs[u] # None /\ jobs[u].op # "save"
  /\ Quiet /\ Fixed
  /\ End(u, "noop", jobs[u])

-----------------------------------------------------------------------------

\* What the service has been asked for is not the process's to end.
Outlives(u) ==
  backend \in Services /\ jobs[u] # None /\ jobs[u].at \in {"land", "stray"}

Breakdown ==
  /\ spent.breakdowns < MaxBreakdowns
  /\ spent' = [spent EXCEPT !.breakdowns = @ + 1]
  /\ jobs' = [u \in User |-> IF Outlives(u) THEN [jobs[u] EXCEPT !.at = "stray"] ELSE None]
  /\ objects' = IF backend = "memory" THEN [k \in BlobKey |-> None] ELSE objects
  /\ litter' = IF backend = "filesystem"
                 THEN litter \union Writing
                 ELSE litter
  /\ reply' = None
  /\ UNCHANGED <<backend, side>>

Next ==
  \/ \E u \in User :
       \/ \E k \in BlobKey :
            \/ \E v \in Version, stream \in BOOLEAN : Call(u, "save", k, v, stream)
            \/ \E op \in {"read", "delete", "exists", "attributes"} :
                 Call(u, op, k, Unsaved, FALSE)
       \/ Call(u, "list", 1, Unsaved, FALSE)
       \/ Broken(u) \/ SaveBegins(u) \/ BodyEnds(u) \/ BodyFails(u) \/ Rename(u) \/ Cleanup(u)
       \/ SaveAttrs(u) \/ FillAttrs(u) 
       \/ PutLands(u) \/ UploadLands(u) \/ S3DeleteLands(u) \/ GcsDeleteLands(u)
       \/ Answered(u) \/ MemoryReads(u) \/ S3Opens(u) \/ S3Heads(u)
       \/ GcsOpens(u) \/ GcsHeads(u) \/ FileStat(u) \/ FileExists(u)
       \/ FileAttributes(u) \/ OpenStream(u) \/ ReadSidecar(u)
       \/ DeleteBegins(u) \/ Unlink(u)
       \/ ReadDir(u) \/ Walk(u) \/ S3Lists(u) \/ GcsLists(u)
       \/ NextEntry(u) \/ NoopCall(u)
  \/ Breakdown

Spec == Init /\ [][Next]_bucketVars

-----------------------------------------------------------------------------
(* Properties.                                                             *)

\* An object is always one whole version that the size limit admits, whichever
\* step fails or crashes; a save or a deletion that succeeds has put that version
\* there, or removed the object, during the call; a read that succeeds answers a
\* version its key held during the call, and one that finds nothing a moment
\* without any; and a listing that ends has every key that had an object all
\* along.  The variables keep their types.
ObjectsAreWhole ==
  /\ TypeOK
  /\ \A k \in BlobKey : objects[k] \notin TooLarge
  /\ reply # None /\ backend # "noop" =>
       /\ reply.outcome = "done" =>
            CASE reply.op = "save"   -> reply.version \in reply.seen
              [] reply.op = "delete" -> None \in reply.seen
              [] reply.op = "list"   -> reply.missed = {}
              [] OTHER               -> reply.got \in reply.seen
       /\ reply.outcome = "half" => reply.version \in reply.seen
       /\ reply.outcome = "missing" => None \in reply.seen
=============================================================================

--------------------------- MODULE ChunkedUpload ---------------------------
(***************************************************************************)
(* One resumable upload (api/chunked_upload.rs): its row in                *)
(* chunked_uploads, the files staged under /tmp, the object the storage    *)
(* backend ends up with (storage/mod.rs), concurrent PUTs of its chunks,   *)
(* and the sweeper of abandoned uploads.                                   *)
(*                                                                         *)
(* A PUT opens "{index}.part.tmp", writes the chunk, renames the file to   *)
(* "{index}.part", records the index and, if that was the last one, puts   *)
(* the object together.  The tmp name has no request in it, so two PUTs of *)
(* one chunk share the file: creating it truncates what the other wrote.   *)
(* A file is an inode, named after the request that created it, and either *)
(* holds the chunk or not; retries of a chunk send the same bytes.         *)
(*                                                                         *)
(* The object is written in place: put_object truncates the file and then  *)
(* writes it, modelled chunk by chunk, and the same for its metadata.  Two *)
(* assemblies write the same path.                                         *)
(***************************************************************************)
EXTENDS Naturals, FiniteSets

CONSTANTS
    total_chunks,   \* of the upload
    Puts,           \* requests, each used once
    NoFile,         \* no inode at this name
    MaxFaults       \* bound: requests that fail or are dropped

ASSUME ConstantsAreSane ==
    /\ total_chunks \in Nat \ {0}
    /\ MaxFaults \in Nat
    /\ NoFile \notin Puts

Chunks == 0 .. (total_chunks - 1)

VARIABLES
    status,         \* of the row; "deleted" once the sweeper took it
    received,       \* received_chunks
    stale,          \* the upload is older than STALE_UPLOAD_AFTER
    purging,        \* the sweeper has deleted the row and not yet the directory
    tmp, part,      \* per chunk: the inode behind the two names
    whole,          \* inodes that hold their chunk
    put,            \* per request: where it is, its chunk, its open file, the
                    \* chunk it reads or writes next, and how many chunks at the
                    \* start of what it read are whole
    created,        \* the file exists in the storage backend
    object,         \* the chunks it holds, each whole and in its place
    sidecar,        \* its .meta.json is complete
    finished,       \* ghost: a put_object has run to its end
    interrupted,    \* ghost: since the file was last truncated a put_object
                    \* that had truncated it ended before its end
    overlapped,     \* ghost: two PUTs of one chunk were under way at once
    faults

vars == <<status, received, stale, purging, tmp, part, whole, put, created, object,
          sidecar, finished, interrupted, overlapped, faults>>

rowVars == <<status, received, stale, purging>>
fileVars == <<tmp, part, whole>>
objectVars == <<created, object, sidecar, finished, interrupted>>
envVars == <<overlapped, faults>>

Fresh == [pc |-> "new", chunk |-> 0, file |-> NoFile, next |-> 0, good |-> 0]

Labels == {"new", "create", "write", "rename", "record", "reread",
           "assemble", "store", "storing", "sidecar", "meta", "clean", "mark", "done"}

PutStates == [pc : Labels, chunk : Chunks, file : Puts \cup {NoFile},
              next : 0 .. total_chunks, good : 0 .. total_chunks]

TypeOK ==
    /\ status \in {"in_progress", "completed", "deleted"}
    /\ received \subseteq Chunks
    /\ stale \in BOOLEAN /\ purging \in BOOLEAN
    /\ tmp \in [Chunks -> Puts \cup {NoFile}]
    /\ part \in [Chunks -> Puts \cup {NoFile}]
    /\ whole \subseteq Puts
    /\ put \in [Puts -> PutStates]
    /\ object \subseteq Chunks
    /\ created \in BOOLEAN /\ sidecar \in BOOLEAN
    /\ finished \in BOOLEAN /\ interrupted \in BOOLEAN /\ overlapped \in BOOLEAN
    /\ faults \in 0 .. MaxFaults

\* After init_upload.
Init ==
    /\ status = "in_progress"
    /\ received = {}
    /\ stale = FALSE
    /\ purging = FALSE
    /\ tmp = [i \in Chunks |-> NoFile]
    /\ part = [i \in Chunks |-> NoFile]
    /\ whole = {}
    /\ put = [p \in Puts |-> Fresh]
    /\ created = FALSE
    /\ object = {}
    /\ sidecar = FALSE
    /\ finished = FALSE
    /\ interrupted = FALSE
    /\ overlapped = FALSE
    /\ faults = 0

-----------------------------------------------------------------------------
(* put_chunk *)

Goto(p, label) == put' = [put EXCEPT ![p].pc = label]

UnderWay(p) == put[p].pc \notin {"new", "done"}

\* In put_object, the file truncated and not all of it or its metadata written.
Rewriting(p) == put[p].pc \in {"storing", "sidecar", "meta"}

\* The row is read: the upload is in progress.
Begin(p, i) ==
    /\ put[p].pc = "new"
    /\ status = "in_progress"
    /\ put' = [put EXCEPT ![p].pc = "create", ![p].chunk = i]
    /\ overlapped' = (overlapped \/ \E q \in Puts : UnderWay(q) /\ put[q].chunk = i)
    /\ UNCHANGED <<rowVars, fileVars, objectVars, faults>>

\* create_dir_all and File::create: a new inode, or the truncated one.
CreateTmp(p) ==
    /\ put[p].pc = "create"
    /\ LET i == put[p].chunk IN
       IF tmp[i] = NoFile
       THEN /\ tmp' = [tmp EXCEPT ![i] = p]
            /\ put' = [put EXCEPT ![p].pc = "write", ![p].file = p]
            /\ UNCHANGED whole
       ELSE /\ whole' = whole \ {tmp[i]}
            /\ put' = [put EXCEPT ![p].pc = "write", ![p].file = tmp[i]]
            /\ UNCHANGED tmp
    /\ UNCHANGED <<rowVars, part, objectVars, envVars>>

\* write_all and flush go to the open file, wherever it is linked by now.
Write(p) ==
    /\ put[p].pc = "write"
    /\ whole' = whole \cup {put[p].file}
    /\ Goto(p, "rename")
    /\ UNCHANGED <<rowVars, tmp, part, objectVars, envVars>>

\* rename moves whatever the tmp name holds.
Rename(p) ==
    /\ put[p].pc = "rename"
    /\ tmp[put[p].chunk] # NoFile
    /\ part' = [part EXCEPT ![put[p].chunk] = tmp[put[p].chunk]]
    /\ tmp' = [tmp EXCEPT ![put[p].chunk] = NoFile]
    /\ Goto(p, "record")
    /\ UNCHANGED <<rowVars, whole, objectVars, envVars>>

\* The name is gone, renamed by another PUT or removed with the directory.
RenameFails(p) ==
    /\ put[p].pc = "rename"
    /\ tmp[put[p].chunk] = NoFile
    /\ Goto(p, "done")
    /\ UNCHANGED <<rowVars, fileVars, objectVars, envVars>>

\* array_append guarded by NOT ANY; no row is updated once it is deleted.
Record(p) ==
    /\ put[p].pc = "record"
    /\ received' = IF status = "deleted" THEN received ELSE received \cup {put[p].chunk}
    /\ Goto(p, "reread")
    /\ UNCHANGED <<status, stale, purging, fileVars, objectVars, envVars>>

\* Mutant: asks for one chunk more than there are.
RereadLate(p) ==
    /\ put[p].pc = "reread"
    /\ Goto(p, IF status # "deleted" /\ Cardinality(received) > total_chunks
               THEN "assemble" ELSE "done")
    /\ UNCHANGED <<rowVars, fileVars, objectVars, envVars>>

\* The row is read again: all chunks there, some missing, or the row gone.
Reread(p) ==
    /\ put[p].pc = "reread"
    /\ Goto(p, IF status # "deleted" /\ Cardinality(received) >= total_chunks
               THEN "assemble" ELSE "done")
    /\ UNCHANGED <<rowVars, fileVars, objectVars, envVars>>

\* One fs::read of the assembly loop, in index order.
ReadChunk(p) ==
    /\ put[p].pc = "assemble"
    /\ LET i == put[p].next IN
       /\ part[i] # NoFile
       /\ put' = [put EXCEPT ![p].next = i + 1,
                             ![p].good = IF @ = i /\ part[i] \in whole THEN i + 1 ELSE @,
                             ![p].pc = IF i + 1 = total_chunks THEN "store" ELSE "assemble"]
    /\ UNCHANGED <<rowVars, fileVars, objectVars, envVars>>

\* Mutant: a file that is gone counts as empty.
ReadFailsSkips(p) ==
    /\ put[p].pc = "assemble"
    /\ LET i == put[p].next IN
       /\ part[i] = NoFile
       /\ put' = [put EXCEPT ![p].next = i + 1,
                             ![p].pc = IF i + 1 = total_chunks THEN "store" ELSE "assemble"]
    /\ UNCHANGED <<rowVars, fileVars, objectVars, envVars>>

\* The file is gone: another assembly, or the sweeper, has removed it.
ReadFails(p) ==
    /\ put[p].pc = "assemble"
    /\ part[put[p].next] = NoFile
    /\ Goto(p, "done")
    /\ UNCHANGED <<rowVars, fileVars, objectVars, envVars>>

\* Mutant: the row is marked before the object is written.
StoreOpenMarks(p) ==
    /\ put[p].pc = "store"
    /\ created' = TRUE
    /\ object' = {}
    /\ interrupted' = FALSE
    /\ status' = IF status = "deleted" THEN status ELSE "completed"
    /\ put' = [put EXCEPT ![p].pc = "storing", ![p].next = 0]
    /\ UNCHANGED <<received, stale, purging, fileVars, sidecar, finished, envVars>>

\* StorageEngine::upload, put_object: tokio::fs::write truncates the file.
StoreOpen(p) ==
    /\ put[p].pc = "store"
    /\ created' = TRUE
    /\ object' = {}
    /\ interrupted' = FALSE
    /\ put' = [put EXCEPT ![p].pc = "storing", ![p].next = 0]
    /\ UNCHANGED <<rowVars, fileVars, sidecar, finished, envVars>>

\* ... and writes it front to back.  What follows a torn chunk in the buffer is
\* out of place, and lands on the chunks before.
StoreChunk(p) ==
    /\ put[p].pc = "storing"
    /\ LET i == put[p].next IN
       /\ object' = IF i < put[p].good THEN object \cup {i} ELSE object \ (put[p].good .. i)
       /\ put' = [put EXCEPT ![p].next = i + 1,
                             ![p].pc = IF i + 1 = total_chunks THEN "sidecar" ELSE "storing"]
    /\ UNCHANGED <<rowVars, fileVars, created, sidecar, finished, interrupted, envVars>>

\* Mutant: the parts are removed before put_object has ended.
SidecarOpenCleans(p) ==
    /\ put[p].pc = "sidecar"
    /\ sidecar' = FALSE
    /\ tmp' = [i \in Chunks |-> NoFile]
    /\ part' = [i \in Chunks |-> NoFile]
    /\ Goto(p, "meta")
    /\ UNCHANGED <<rowVars, whole, created, object, finished, interrupted, envVars>>

\* put_object: the metadata beside it, truncated and then written.
SidecarOpen(p) ==
    /\ put[p].pc = "sidecar"
    /\ sidecar' = FALSE
    /\ Goto(p, "meta")
    /\ UNCHANGED <<rowVars, fileVars, created, object, finished, interrupted, envVars>>

StoreSidecar(p) ==
    /\ put[p].pc = "meta"
    /\ sidecar' = TRUE
    /\ finished' = TRUE
    /\ Goto(p, "clean")
    /\ UNCHANGED <<rowVars, fileVars, created, object, interrupted, envVars>>

RemoveDir ==
    /\ tmp' = [i \in Chunks |-> NoFile]
    /\ part' = [i \in Chunks |-> NoFile]
    /\ UNCHANGED whole

\* remove_dir_all, best effort.
Clean(p) ==
    /\ put[p].pc = "clean"
    /\ RemoveDir \/ UNCHANGED fileVars
    /\ Goto(p, "mark")
    /\ UNCHANGED <<rowVars, objectVars, envVars>>

MarkComplete(p) ==
    /\ put[p].pc = "mark"
    /\ status' = IF status = "deleted" THEN status ELSE "completed"
    /\ Goto(p, "done")
    /\ UNCHANGED <<received, stale, purging, fileVars, objectVars, envVars>>

\* An I/O or database error, the size limit, or a client that disconnects
\* (the handler is dropped at an await) ends the request where it is; what it
\* has written of the object stays.
PutFails(p) ==
    /\ UnderWay(p)
    /\ faults < MaxFaults
    /\ faults' = faults + 1
    /\ interrupted' = (interrupted \/ Rewriting(p))
    /\ Goto(p, "done")
    /\ UNCHANGED <<rowVars, fileVars, created, object, sidecar, finished, overlapped>>

-----------------------------------------------------------------------------
(* cleanup_stale_uploads *)

GrowStale ==
    /\ ~stale
    /\ stale' = TRUE
    /\ UNCHANGED <<status, received, purging, fileVars, put, objectVars, envVars>>

\* DELETE ... WHERE status = 'in_progress' AND created_at < cutoff.
SweepRow ==
    /\ status = "in_progress"
    /\ stale
    /\ status' = "deleted"
    /\ purging' = TRUE
    /\ UNCHANGED <<received, stale, fileVars, put, objectVars, envVars>>

\* purge_tmp_dir of what the DELETE returned.
SweepDir ==
    /\ purging
    /\ purging' = FALSE
    /\ RemoveDir
    /\ UNCHANGED <<status, received, stale, put, objectVars, envVars>>

Serve(p) ==
    \/ CreateTmp(p) \/ Write(p) \/ Rename(p) \/ RenameFails(p) \/ Record(p)
    \/ Reread(p) \/ ReadChunk(p) \/ ReadFails(p) \/ StoreOpen(p) \/ StoreChunk(p)
    \/ SidecarOpen(p) \/ StoreSidecar(p) \/ Clean(p) \/ MarkComplete(p)

Next ==
    \/ \E p \in Puts :
        \/ \E i \in Chunks : Begin(p, i)
        \/ Serve(p)
        \/ PutFails(p)
    \/ GrowStale \/ SweepRow \/ SweepDir

Spec == Init /\ [][Next]_vars

\* A request the server has begun is served to its end.
FairSpec == Spec /\ \A p \in Puts : WF_vars(Serve(p))

-----------------------------------------------------------------------------

Stored == object = Chunks /\ sidecar

\* Whatever PUTs fail, are repeated or race, and although put_object truncates
\* a file another assembly has stored: when nobody is writing the file it is
\* whole, unless a write of it was cut short and none came after, or two PUTs
\* of the same chunk have overlapped.
StoredIsWhole ==
    created /\ ~overlapped /\ ~interrupted =>
        object = Chunks \/ \E p \in Puts : put[p].pc = "storing"

\* No chunk the client was told about is lost: while the upload is in
\* progress, a recorded chunk is staged, whole; only once an assembly has
\* stored the file and its metadata may it be gone, and then they are there
\* or being written again, unless that second write was cut short.
ChunksKept ==
    status = "in_progress" /\ ~overlapped =>
        \A i \in received :
            \/ part[i] \in whole
            \/ finished /\ (Stored \/ interrupted \/ \E p \in Puts : Rewriting(p))

\* A completed upload has had its object and metadata stored to the end, and
\* has them whole unless a later assembly is writing them, or was cut short
\* at it, or two PUTs of the same chunk have overlapped.
CompletedIsStored ==
    status = "completed" =>
        /\ finished
        /\ Stored \/ overlapped \/ interrupted \/ \E p \in Puts : Rewriting(p)

\* If no request fails and the upload does not grow stale, all chunks received
\* complete it: of the requests that see the last chunk recorded, one gets
\* through, although they remove each other's files.
LastChunkCompletes ==
    (received = Chunks /\ faults = 0 /\ ~stale)
        ~> (status = "completed" \/ faults > 0 \/ stale)

=============================================================================

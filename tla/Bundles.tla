------------------------------ MODULE Bundles -------------------------------
(***************************************************************************)
(* The transfer of execution bundles and the cache that holds them          *)
(* (bundle_transfer.py), as the controller service keeps one for its        *)
(* consumers and a worker one for its controllers.  The two differ in two   *)
(* ways: the service serialises its handlers with _consumer_bundle_lock and *)
(* its client resumes where the last attempt stopped; a worker that serves  *)
(* several connections has no lock and its client begins at chunk 0.        *)
(*                                                                          *)
(* A step is one access to the file system.  The process may stop between   *)
(* any two, a client may give up on an answer while its handler runs on,    *)
(* and the cache command may collect from another process.                  *)
(***************************************************************************)
EXTENDS Integers, Sequences, FiniteSets, SequencesExt

CONSTANTS
    Archives,       \* archives, each with a client that uploads it
    Bundles,        \* logical bundle identities
    Threads,        \* handler threads of the process, numbered
    Cli,            \* the process of `mncs-fabric cache gc'
    None,
    ChunkCount,     \* chunks of an archive
    ArchiveBytes, ContentBytes,     \* size of an archive and of its content
    MetadataBytes,                  \* size of metadata.json
    MaxCacheBytes, MaxInProgress,   \* max_cache_bytes, MAX_IN_PROGRESS
    MaxFaults       \* bound on timeouts, crashes and collections

ASSUME BundleAssumption ==
    /\ {ChunkCount, ArchiveBytes, ContentBytes, MetadataBytes, MaxCacheBytes, MaxInProgress}
          \subseteq Nat \ {0}
    /\ Threads \subseteq Nat /\ IsFiniteSet(Threads) /\ Threads # {}
    /\ {Cli, None} \cap Threads = {}

VARIABLES
    service,    \* the cache is the service's, not a worker's
    logical,    \* the bundle identity each archive's manifest computes to
    staging,    \* .staging/<transfer>: state.json, its progress, archive.part
    published,  \* bundles/<identity>, the oldest first
    temporary,  \* number of .publish-* directories
    lock,       \* holder of _consumer_bundle_lock
    thread,     \* what each handler does
    client,     \* what each uploader does
    faults

disk == <<staging, published, temporary>>
vars == <<service, logical, disk, lock, thread, client, faults>>

Idle == [pc |-> "idle", archive |-> None, seq |-> 0, status |-> None, part |-> <<>>,
         plan |-> <<>>, goal |-> 0, freed |-> 0]
AtRest == [pc |-> "begin", seq |-> 0, wait |-> None]

Init ==
    /\ service \in BOOLEAN
    /\ logical \in [Archives -> Bundles]
    /\ staging = [a \in Archives |-> None]
    /\ published = <<>>
    /\ temporary = 0
    /\ lock = None
    /\ thread = [t \in Threads \cup {Cli} |-> Idle]
    /\ client = [a \in Archives |-> AtRest]
    /\ faults = 0

-----------------------------------------------------------------------------
\* Published bundles.  rmtree removes a directory's files in any order, so one
\* it was interrupted in has lost content and perhaps its metadata.
Exact == [i \in 1..ChunkCount |-> i - 1]
Entries(b) == {published[i] : i \in {i \in DOMAIN published : published[i].bundle = b}}
\* A directory has one name, so a bundle has one entry.
Without(b) ==
    IF Entries(b) = {} THEN published
    ELSE RemoveAt(published, CHOOSE i \in DOMAIN published : published[i].bundle = b)
Holding(b, metadata) ==
    [i \in DOMAIN published |->
        IF published[i].bundle = b
        THEN [published[i] EXCEPT !.whole = FALSE, !.metadata = metadata]
        ELSE published[i]]

EntryBytes == ArchiveBytes + ContentBytes + MetadataBytes
\* _cache_bytes counts the .publish-* directories as well.
CacheBytes == (Len(published) + temporary) * EntryBytes

\* verify_bundle_archive, and the content checked entry by entry.
Intact(e) == e.whole /\ e.part = Exact

\* _verify_published_target, as _healthy_published_target tells its outcomes.
Health(a) ==
    LET entries == Entries(logical[a])
    IN  IF entries = {} THEN "absent"
        ELSE LET e == CHOOSE e \in entries : TRUE
             IN  IF ~e.metadata THEN "unhealthy"
                 ELSE IF e.archive # a THEN "conflict"
                 ELSE IF Intact(e) THEN "healthy" ELSE "unhealthy"

\* _discard_published_target of what was found unhealthy.
Discarded(a) == IF Health(a) = "unhealthy" THEN Without(logical[a]) ELSE published

-----------------------------------------------------------------------------
\* The uploaders: _upload_service_bundle for the service, transfer_archive for
\* a worker.  Any refusal is an exception; the consumer may try again.
Uploading(n) == [pc |-> IF n = ChunkCount THEN "commit" ELSE "chunk", seq |-> n, wait |-> None]

\* Mutant: the service's client begins at chunk 0, as transfer_archive does.
ClientAfterRestarting(c, status, next) ==
    CASE status = "TRANSFER_REQUIRED" -> Uploading(0)
      [] status = "ACCEPTED" -> Uploading(c.seq + 1)
      [] status \in {"ALREADY_PRESENT", "COMMITTED"} -> [AtRest EXCEPT !.pc = "done"]
      [] OTHER -> AtRest

ClientAfter(c, status, next) ==
    CASE status = "TRANSFER_REQUIRED" -> Uploading(IF service THEN next ELSE 0)
      [] status = "ACCEPTED" -> Uploading(c.seq + 1)
      [] status \in {"ALREADY_PRESENT", "COMMITTED"} -> [AtRest EXCEPT !.pc = "done"]
      [] OTHER -> AtRest

\* Threads are alike: the first that is free takes the request.
Send(a, t) ==
    /\ client[a].pc # "done" /\ client[a].wait = None
    /\ thread[t] = Idle /\ \A u \in Threads : u < t => thread[u] # Idle
    /\ thread' = [thread EXCEPT ![t] = [Idle EXCEPT !.pc = client[a].pc, !.archive = a,
                                                    !.seq = client[a].seq]]
    /\ client' = [client EXCEPT ![a].wait = t]
    /\ UNCHANGED <<service, logical, disk, lock, faults>>

Spend == faults < MaxFaults /\ faults' = faults + 1

\* The client's deadline passes; the handler is not told.
Timeout(a) ==
    /\ client[a].wait # None /\ Spend
    /\ client' = [client EXCEPT ![a] = AtRest]
    /\ UNCHANGED <<service, logical, disk, lock, thread>>

\* The handler ends: its lock is released and a client that waits is answered.
AnswerAt(t, status, next) ==
    LET a == thread[t].archive
    IN  /\ thread' = [thread EXCEPT ![t] = Idle]
        /\ lock' = IF lock = t THEN None ELSE lock
        /\ client' = IF client[a].wait = t
                     THEN [client EXCEPT ![a] = ClientAfter(@, status, next)]
                     ELSE client
        /\ UNCHANGED <<service, logical, faults>>

Answer(t, status) == AnswerAt(t, status, 0)

\* The handler goes on, in the service with the lock it took.
Continue(t, state) ==
    /\ thread' = [thread EXCEPT ![t] = state]
    /\ lock' = IF service THEN t ELSE lock
    /\ UNCHANGED <<service, logical, client, faults>>

\* Mutant: a chunk is taken without the lock.
MayEnterChunks(t) == service /\ thread[t].pc # "chunk" => lock = None

MayEnter(t) == service => lock = None
-----------------------------------------------------------------------------
\* begin (and, in the service, progress)
Staged == {a \in Archives : staging[a] # None}
Full == Cardinality(Staged) >= MaxInProgress

Begin(t) ==
    LET a == thread[t].archive
        health == Health(a)
    IN  /\ thread[t].pc = "begin" /\ MayEnter(t)
        /\ published' = Discarded(a)
        /\ UNCHANGED temporary
        /\ IF health = "healthy" THEN Answer(t, "ALREADY_PRESENT") /\ UNCHANGED staging
           ELSE IF health = "conflict" \/ Full THEN Answer(t, "FAIL") /\ UNCHANGED staging
           ELSE IF staging[a] = None
                THEN /\ staging' = [staging EXCEPT ![a] = [json |-> FALSE, next |-> 0, part |-> <<>>]]
                     /\ Continue(t, [thread[t] EXCEPT !.pc = "begin_state"])
           ELSE /\ IF staging[a].json
                   THEN AnswerAt(t, "TRANSFER_REQUIRED", staging[a].next)
                   ELSE Answer(t, "UNKNOWN")
                /\ UNCHANGED staging

BeginState(t) ==
    LET a == thread[t].archive
    IN  /\ thread[t].pc = "begin_state"
        /\ staging' = [staging EXCEPT ![a] = [json |-> TRUE, next |-> 0, part |-> <<>>]]
        /\ Answer(t, "TRANSFER_REQUIRED")
        /\ UNCHANGED <<published, temporary>>

\* chunk: state.json is read, archive.part grows, state.json is replaced.
Chunk(t) ==
    LET a == thread[t].archive
    IN  /\ thread[t].pc = "chunk" /\ MayEnter(t)
        /\ IF staging[a] # None /\ staging[a].json /\ thread[t].seq = staging[a].next
           THEN Continue(t, [thread[t] EXCEPT !.pc = "chunk_append"])
           ELSE Answer(t, "FAIL")
        /\ UNCHANGED disk

ChunkAppend(t) ==
    LET a == thread[t].archive
    IN  /\ thread[t].pc = "chunk_append"
        /\ IF staging[a] = None
           THEN Answer(t, "UNKNOWN") /\ UNCHANGED staging
           ELSE /\ staging' = [staging EXCEPT ![a].part = Append(@, thread[t].seq)]
                /\ Continue(t, [thread[t] EXCEPT !.pc = "chunk_state"])
        /\ UNCHANGED <<published, temporary>>

\* write_json makes the directory again when a commit has removed it.
ChunkState(t) ==
    LET a == thread[t].archive
        part == IF staging[a] = None THEN <<>> ELSE staging[a].part
    IN  /\ thread[t].pc = "chunk_state"
        /\ staging' = [staging EXCEPT ![a] =
                          [json |-> TRUE, next |-> thread[t].seq + 1, part |-> part]]
        /\ Answer(t, "ACCEPTED")
        /\ UNCHANGED <<published, temporary>>

-----------------------------------------------------------------------------
\* commit
Complete(a) ==
    /\ staging[a] # None /\ staging[a].json /\ staging[a].next = ChunkCount
    /\ staging[a].part = Exact

Commit(t) ==
    LET a == thread[t].archive
        health == Health(a)
    IN  /\ thread[t].pc = "commit" /\ MayEnter(t)
        /\ published' = IF Complete(a) THEN Discarded(a) ELSE published
        /\ IF ~Complete(a) \/ health = "conflict" THEN Answer(t, "FAIL")
           ELSE IF health = "healthy"
                THEN Continue(t, [thread[t] EXCEPT !.pc = "cleanup", !.status = "ALREADY_PRESENT"])
           ELSE Continue(t, [thread[t] EXCEPT !.pc = "room"])
        /\ UNCHANGED <<staging, temporary>>

\* gc is asked for the archive's bytes; near the limit it frees a fifth.  Its
\* status does not count the .publish-* directories, and neither lists them.
Goal(needed) ==
    LET near == Len(published) * EntryBytes >= (MaxCacheBytes * 8) \div 10
        fifth == IF near THEN (MaxCacheBytes * 2) \div 10 ELSE 0
    IN  IF needed > fifth THEN needed ELSE fifth

Collecting(job, needed, inUse) ==
    LET names == [i \in DOMAIN published |-> published[i].bundle]
    IN  [job EXCEPT !.pc = "gc", !.goal = Goal(needed), !.freed = 0,
                    !.plan = SelectSeq(names, LAMBDA b : b \notin inUse)]

Fits == CacheBytes + ArchiveBytes <= MaxCacheBytes

Room(t) ==
    /\ thread[t].pc = "room"
    /\ Continue(t, IF Fits THEN [thread[t] EXCEPT !.pc = "publish"]
                   ELSE Collecting(thread[t], ArchiveBytes, {logical[thread[t].archive]}))
    /\ UNCHANGED disk

\* One round of gc's loop, from the entries status listed.
Evicting(t, needed) ==
    LET job == thread[t]
    IN  /\ job.pc = "gc" /\ job.plan # <<>>
        /\ ~(CacheBytes + needed <= MaxCacheBytes /\ job.freed >= job.goal)
        /\ IF Entries(Head(job.plan)) = {}
           THEN /\ Continue(t, [job EXCEPT !.plan = Tail(@)])
                /\ UNCHANGED published
           ELSE /\ \E metadata \in BOOLEAN : published' = Holding(Head(job.plan), metadata)
                /\ Continue(t, [job EXCEPT !.pc = "evict"])
        /\ UNCHANGED <<staging, temporary>>

Evict(t) ==
    LET job == thread[t]
    IN  /\ job.pc = "evict"
        /\ published' = Without(Head(job.plan))
        /\ Continue(t, [job EXCEPT !.pc = "gc", !.plan = Tail(@), !.freed = @ + EntryBytes])
        /\ UNCHANGED <<staging, temporary>>

\* Mutant: commit trusts the collection it asked for.
CollectedUnchecked(t) ==
    LET job == thread[t]
    IN  /\ job.pc = "gc"
        /\ job.plan = <<>> \/ (Fits /\ job.freed >= job.goal)
        /\ Continue(t, [job EXCEPT !.pc = "publish", !.plan = <<>>, !.goal = 0, !.freed = 0])
        /\ UNCHANGED disk

Collected(t) ==
    LET job == thread[t]
    IN  /\ job.pc = "gc"
        /\ job.plan = <<>> \/ (Fits /\ job.freed >= job.goal)
        /\ IF Fits
           THEN Continue(t, [job EXCEPT !.pc = "publish", !.plan = <<>>, !.goal = 0, !.freed = 0])
           ELSE Answer(t, "UNKNOWN")
        /\ UNCHANGED disk

\* The content is extracted and the archive copied under .publish-*.
Publish(t) ==
    LET a == thread[t].archive
    IN  /\ thread[t].pc = "publish"
        /\ IF staging[a] = None
           THEN Answer(t, "UNKNOWN") /\ UNCHANGED temporary
           ELSE /\ temporary' = temporary + 1
                /\ Continue(t, [thread[t] EXCEPT !.pc = "replace", !.part = staging[a].part])
        /\ UNCHANGED <<staging, published>>

\* os.replace refuses a directory that is there and not empty.
Replace(t) ==
    LET job == thread[t]
        b == logical[job.archive]
    IN  /\ job.pc = "replace"
        /\ temporary' = temporary - 1
        /\ IF Entries(b) # {}
           THEN Answer(t, "UNKNOWN") /\ UNCHANGED published
           ELSE /\ published' = Append(published, [bundle |-> b, archive |-> job.archive,
                                                   part |-> job.part, whole |-> TRUE, metadata |-> TRUE])
                /\ Continue(t, [job EXCEPT !.pc = "cleanup", !.status = "COMMITTED", !.part = <<>>])
        /\ UNCHANGED staging

\* rmtree of the staging directory: one of its two files goes first.
Cleanup(t) ==
    LET a == thread[t].archive
    IN  /\ thread[t].pc = "cleanup"
        /\ IF staging[a] = None
           THEN UNCHANGED staging
           ELSE staging' \in {[staging EXCEPT ![a].json = FALSE], [staging EXCEPT ![a].part = <<>>]}
        /\ Continue(t, [thread[t] EXCEPT !.pc = "cleaned"])
        /\ UNCHANGED <<published, temporary>>

Cleaned(t) ==
    /\ thread[t].pc = "cleaned"
    /\ staging' = [staging EXCEPT ![thread[t].archive] = None]
    /\ Answer(t, thread[t].status)
    /\ UNCHANGED <<published, temporary>>

Handle(t) ==
    \/ Begin(t) \/ BeginState(t)
    \/ Chunk(t) \/ ChunkAppend(t) \/ ChunkState(t)
    \/ Commit(t) \/ Room(t) \/ Evicting(t, ArchiveBytes) \/ Evict(t) \/ Collected(t)
    \/ Publish(t) \/ Replace(t) \/ Cleanup(t) \/ Cleaned(t)

-----------------------------------------------------------------------------
\* `mncs-fabric cache gc --confirm', from its own process: no lock.
CliContinue(job) ==
    /\ thread' = [thread EXCEPT ![Cli] = job]
    /\ UNCHANGED <<service, logical, staging, temporary, lock, client>>

CliGc ==
    /\ thread[Cli] = Idle /\ Goal(0) > 0 /\ Spend
    /\ CliContinue(Collecting(Idle, 0, {}))
    /\ UNCHANGED published

CliStep ==
    LET job == thread[Cli]
    IN  /\ UNCHANGED faults
        /\ \/ /\ job.pc = "gc" /\ job.plan # <<>> /\ job.freed < job.goal
              /\ IF Entries(Head(job.plan)) = {}
                 THEN CliContinue([job EXCEPT !.plan = Tail(@)]) /\ UNCHANGED published
                 ELSE /\ \E metadata \in BOOLEAN : published' = Holding(Head(job.plan), metadata)
                      /\ CliContinue([job EXCEPT !.pc = "evict"])
           \/ /\ job.pc = "evict"
              /\ published' = Without(Head(job.plan))
              /\ CliContinue([job EXCEPT !.pc = "gc", !.plan = Tail(@), !.freed = @ + EntryBytes])
           \/ /\ job.pc = "gc" /\ (job.plan = <<>> \/ job.freed >= job.goal)
              /\ CliContinue(Idle)
              /\ UNCHANGED published

\* The process stops; the directories stay as they are.
Crash ==
    /\ Spend
    /\ thread' = [t \in Threads \cup {Cli} |-> IF t = Cli THEN thread[t] ELSE Idle]
    /\ client' = [a \in Archives |-> IF client[a].wait = None THEN client[a] ELSE AtRest]
    /\ lock' = None
    /\ UNCHANGED <<service, logical, disk>>

Next ==
    \/ \E a \in Archives : (\E t \in Threads : Send(a, t)) \/ Timeout(a)
    \/ \E t \in Threads : Handle(t)
    \/ CliGc \/ CliStep \/ Crash

\* Handlers and clients run on; the lock and the listener starve nobody.
Fairness ==
    /\ \A t \in Threads : SF_vars(Handle(t))
    /\ \A a \in Archives : SF_vars(\E t \in Threads : Send(a, t))
    /\ WF_vars(CliStep)

Spec == Init /\ [][Next]_vars /\ Fairness

-----------------------------------------------------------------------------
\* What the service publishes is the archive that was offered: a client that
\* has given up while its handler runs on, a crash that has it send a chunk
\* once more and the staged archive read again after room was made for it
\* publish no other bytes (bundle_transfer.py, commit; controller_service.py,
\* _consumer_bundle_lock).
PublishedIsVerified == service => \A i \in DOMAIN published : published[i].part = Exact

\* The cache exceeds max_cache_bytes by at most the content and metadata of one
\* bundle in the service, whose commits follow each other, and by one bundle
\* more for each further handler of a worker, whose commits check the size of
\* their archives at the same time; the directories that interrupted
\* publications left behind are included (bundle_transfer.py, commit).
Publishers == IF service THEN 1 ELSE Cardinality(Threads)
CacheBounded == CacheBytes + ArchiveBytes <= MaxCacheBytes + Publishers * EntryBytes

\* What staging a retry cannot repair: state.json is missing, or archive.part
\* is not the chunks that it counts.
Torn(a) ==
    /\ staging[a] # None
    /\ ~staging[a].json \/ staging[a].part # [i \in 1..staging[a].next |-> i - 1]

\* Interrupted publications have used up the cache: gc never sees them.
NoRoom == temporary * EntryBytes + ArchiveBytes > MaxCacheBytes

Blocked(a) == Torn(a) \/ Full \/ NoRoom \/ Health(a) = "conflict"

\* An upload to the service whose consumer keeps trying ends, however often a
\* client gave up or the process stopped, unless for good its staging is torn,
\* staging is full, abandoned publications fill the cache, or the bundle is
\* bound to another archive (_upload_service_bundle, BundleCache.begin).
UploadSettles ==
    \A a \in Archives : <>(~service \/ client[a].pc = "done") \/ <>[]Blocked(a)
=============================================================================

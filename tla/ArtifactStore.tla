--------------------------- MODULE ArtifactStore ---------------------------
(***************************************************************************)
(* The quarantine store of the gateway (gateway.py).  A submission writes, *)
(* file by file and without a lock, the content blob (named by its hash    *)
(* and shared by identical submissions), the manifest and the lookup and   *)
(* index entries, first as "unchecked" and then with the scanner's         *)
(* verdict.  A review stores a summary of a stored artifact the same way.  *)
(* Downloads and reviews read the manifest, then the blob.                 *)
(*                                                                         *)
(* `gc-artifacts`, another process, takes no lock either: it lists the     *)
(* manifests once and then deletes, one expired manifest after the other,  *)
(* the manifest, its entries and, when every manifest it had listed for    *)
(* the same bytes is expired, the blob.                                    *)
(*                                                                         *)
(* Who may call which route, and the run scope, are in RunStore.           *)
(***************************************************************************)
EXTENDS Inspection

CONSTANTS
  Ids,          \* artifact ids; each is drawn at random, so used once
  NoManifest,
  Contents,     \* byte strings, told apart by their hash
  Summaries,    \* the contents the review backend may answer with
  MediaOf,      \* what the contents are, and were declared to be
  Scanners,     \* what a scan may find in each content: the policies in turn
  Routes,       \* statuses a download or review route may access
  Threads,      \* handler threads of the gateway process
  Retention,    \* artifact_store.retention_days
  MaxClock, MaxFaults      \* bounds of the model

Statuses == {"unchecked", "verified", "verified_with_warnings",
             "needs_review", "blocked"}

ASSUME ConstantsAssumption ==
  /\ NoManifest \notin [content: Contents, status: Statuses, created: Nat]
  /\ Summaries \subseteq Contents
  /\ MediaOf \in [Contents -> Media]
  /\ Scanners \subseteq [Contents -> SUBSET Finding]
  /\ \A scan \in Scanners, c \in Contents : IsFiniteSet(scan[c])
  /\ Routes \subseteq SUBSET Statuses
  /\ Threads \cap {"absent", "partial", "whole"} = {}
  /\ Retention \in Nat \ {0}
  /\ MaxClock \in Nat /\ MaxFaults \in Nat

VARIABLES
  blob,      \* per content: absent, partial, whole, or the thread writing it
  manifest,  \* per id
  entries,   \* lookup and index files: pairs of an id and a status
  used,      \* ids drawn so far
  job,       \* what each handler thread is doing
  gc,        \* the gc-artifacts process
  scanner,   \* the scan of the configuration the gateway runs with
  clock,     \* in days
  faults,    \* failed writes and killed processes so far
  acked,     \* history: the manifests of the submissions answered
  late,      \* history: ids stored while gc-artifacts was running
  orphans    \* history: ids whose entries a killed gc-artifacts left behind

vars == <<blob, manifest, entries, used, job, gc, scanner, clock, faults,
          acked, late, orphans>>

-----------------------------------------------------------------------------
(* Manifests and what a reader is allowed *)

Manifest == [content: Contents, status: Statuses, created: Nat]

\* Bug: an artifact expires in its last day of retention.
ExpiredEarly(created, now) == created + Retention <= now

\* The retention window has passed.
Expired(created, now) == created + Retention < now

Stored(id) == manifest[id] # NoManifest

\* What the scan of the configuration in force may say of a content.
Result(c) == Inspected(MediaOf[c], scanner[c])

\* The status a submission ends with; only some routes release warnings.
Verdict(finding, releaseWarnings) ==
  CASE finding = "clean" -> "verified"
    [] finding = "warnable" -> IF releaseWarnings THEN "verified_with_warnings"
                                                  ELSE "needs_review"
    [] OTHER -> finding

\* enforce_artifact_retention, and the statuses a route may access.
MayAccess(m, route) == ~Expired(m.created, clock) /\ m.status \in route

\* The manifest of a reviewed summary, an artifact of its own.
Derived(c) == [content |-> c, status |-> "verified", created |-> clock]

\* A status that claims a scan must still stand up to the current one.
StillPasses(status, finding) ==
  CASE status = "verified" -> finding = "clean"
    [] status = "verified_with_warnings" -> finding \in {"clean", "warnable"}
    [] OTHER -> TRUE

-----------------------------------------------------------------------------
(* Jobs *)

Idle == [step |-> "idle"]

\* draft: what the manifest says at the next write; final: its last status.
Storing == [step: {"open", "write", "manifest", "index", "reply"}, id: Ids,
            draft: Manifest, final: Statuses]

Reading == [step: {"read"}, kind: {"download", "review"},
            route: Routes, found: Manifest]

\* body: the bytes read; "garbage" are bytes that hash to something else.
Serving == [step: {"deliver", "ask"}, route: Routes, found: Manifest,
            body: Contents \cup {"garbage"}]

Job == {Idle} \cup Storing \cup Reading \cup Serving

GcIdle == [step |-> "idle"]

\* listed: the manifests listed at the start, with the content they name;
\* todo: those still to be deleted; done: contents whose blob was deleted.
GcJob == {GcIdle} \cup
  [step: {"manifest", "entries", "blob"}, now: Nat, todo: SUBSET Ids, id: Ids,
   listed: SUBSET [id: Ids, content: Contents, created: Nat],
   done: SUBSET Contents]

TypeOK ==
  /\ blob \in [Contents -> Threads \cup {"absent", "partial", "whole"}]
  /\ manifest \in [Ids -> Manifest \cup {NoManifest}]
  /\ entries \subseteq Ids \X Statuses
  /\ used \subseteq Ids
  /\ job \in [Threads -> Job]
  /\ gc \in GcJob
  /\ scanner \in Scanners
  /\ clock \in Nat /\ faults \in Nat
  /\ acked \subseteq [id: Ids, manifest: Manifest]
  /\ late \subseteq used /\ orphans \subseteq used

Init ==
  /\ blob = [c \in Contents |-> "absent"]
  /\ manifest = [id \in Ids |-> NoManifest]
  /\ entries = {} /\ used = {}
  /\ job = [t \in Threads |-> Idle]
  /\ gc = GcIdle
  /\ scanner \in Scanners
  /\ clock = 0 /\ faults = 0
  /\ acked = {} /\ late = {} /\ orphans = {}

-----------------------------------------------------------------------------
(* Storing an artifact: a submission, or a summary of a review *)

\* The submission was authorised and scanned; its id is drawn.
Submit(t) ==
  /\ job[t] = Idle
  /\ \E id \in Ids \ used, c \in Contents, warn \in BOOLEAN : \E result \in Result(c) :
       /\ used' = used \cup {id}
       /\ job' = [job EXCEPT ![t] =
            [step |-> "open", id |-> id,
             draft |-> [content |-> c, status |-> "unchecked", created |-> clock],
             final |-> Verdict(result, warn)]]
  /\ UNCHANGED <<blob, manifest, entries, gc, scanner, clock, faults, acked, late, orphans>>

\* write_blob_once: create the file, unless it is there.
OpenBlob(t) ==
  /\ job[t].step = "open"
  /\ LET c == job[t].draft.content
         there == blob[c] # "absent"
     IN  /\ blob' = IF there THEN blob ELSE [blob EXCEPT ![c] = t]
         /\ job' = [job EXCEPT ![t].step = IF there THEN "manifest" ELSE "write"]
  /\ late' = IF gc = GcIdle THEN late ELSE late \cup {job[t].id}
  /\ UNCHANGED <<manifest, entries, used, gc, scanner, clock, faults, acked, orphans>>

\* The bytes are on disk; the path may have been deleted meanwhile.
WriteBlob(t) ==
  /\ job[t].step = "write"
  /\ blob' = [blob EXCEPT ![job[t].draft.content] = IF @ = t THEN "whole" ELSE @]
  /\ job' = [job EXCEPT ![t].step = "manifest"]
  /\ UNCHANGED <<manifest, entries, used, gc, scanner, clock, faults, acked, late, orphans>>

\* The manifest replaces the one before.
WriteManifest(t) ==
  /\ job[t].step = "manifest"
  /\ manifest' = [manifest EXCEPT ![job[t].id] = job[t].draft]
  /\ job' = [job EXCEPT ![t].step = "index"]
  /\ UNCHANGED <<blob, entries, used, gc, scanner, clock, faults, acked, late, orphans>>

\* After the first round comes a second one that stores the verdict.
Indexed(j) ==
  [step  |-> IF j.draft.status = j.final THEN "reply" ELSE "manifest",
   id    |-> j.id,
   draft |-> [content |-> j.draft.content, status |-> j.final, created |-> j.draft.created],
   final |-> j.final]

\* Lookup and index: the entries of every other status go.
WriteIndex(t) ==
  /\ job[t].step = "index"
  /\ LET id == job[t].id
         status == job[t].draft.status
     IN  entries' = {e \in entries : e[1] # id} \cup {<<id, status>>}
  /\ job' = [job EXCEPT ![t] = Indexed(@)]
  /\ UNCHANGED <<blob, manifest, used, gc, scanner, clock, faults, acked, late, orphans>>

\* The audit line is written, then the caller gets the artifact_ref.
ReplyStored(t) ==
  /\ job[t].step = "reply"
  /\ acked' = acked \cup {[id |-> job[t].id, manifest |-> job[t].draft]}
  /\ job' = [job EXCEPT ![t] = Idle]
  /\ UNCHANGED <<blob, manifest, entries, used, gc, scanner, clock, faults, late, orphans>>

-----------------------------------------------------------------------------
(* Reading an artifact: a download, or the source of a review *)

\* The manifest is loaded, and checked for retention and status.
LoadManifest(t) ==
  /\ job[t] = Idle
  /\ \E id \in Ids, route \in Routes, kind \in {"download", "review"} :
       /\ Stored(id)
       /\ MayAccess(manifest[id], route)
       /\ job' = [job EXCEPT ![t] = [step |-> "read", kind |-> kind,
                                     route |-> route, found |-> manifest[id]]]
  /\ UNCHANGED <<blob, manifest, entries, used, gc, scanner, clock, faults, acked, late, orphans>>

BytesAt(c) == IF blob[c] = "whole" THEN c ELSE "garbage"

Served(t, bytes) ==
  [step |-> IF job[t].kind = "download" THEN "deliver" ELSE "ask",
   route |-> job[t].route, found |-> job[t].found, body |-> bytes]

\* Bug: the hash of the bytes is not compared with the manifest.
ReadBlobUnchecked(t) ==
  /\ job[t].step = "read"
  /\ LET m == job[t].found IN
     \E result \in Result(m.content) :
       job' = [job EXCEPT ![t] =
           IF blob[m.content] # "absent" /\ StillPasses(m.status, result)
             THEN Served(t, BytesAt(m.content)) ELSE Idle]
  /\ UNCHANGED <<blob, manifest, entries, used, gc, scanner, clock, faults, acked, late, orphans>>

\* The blob is read, its hash compared, and its content scanned again.
ReadBlob(t) ==
  /\ job[t].step = "read"
  /\ LET m == job[t].found
         bytes == BytesAt(m.content)
     IN  \E result \in Result(m.content) : job' = [job EXCEPT ![t] =
           IF /\ blob[m.content] # "absent"
              /\ bytes = m.content
              /\ StillPasses(m.status, result)
             THEN Served(t, bytes) ELSE Idle]
  /\ UNCHANGED <<blob, manifest, entries, used, gc, scanner, clock, faults, acked, late, orphans>>

\* The download is audited and sent, or the reviewed text was too long, the
\* backend failed, or its summary did not pass.
Finish(t) ==
  /\ job[t].step \in {"deliver", "ask"}
  /\ job' = [job EXCEPT ![t] = Idle]
  /\ UNCHANGED <<blob, manifest, entries, used, gc, scanner, clock, faults, acked, late, orphans>>

\* The backend answered with a summary that passes the scan: it is stored as
\* an artifact of its own, verified from its first manifest.
StoreSummary(t) ==
  /\ job[t].step = "ask"
  /\ \E id \in Ids \ used, c \in Summaries :
       /\ "clean" \in Result(c)
       /\ used' = used \cup {id}
       /\ job' = [job EXCEPT ![t] =
            [step |-> "open", id |-> id, draft |-> Derived(c), final |-> "verified"]]
  /\ UNCHANGED <<blob, manifest, entries, gc, scanner, clock, faults, acked, late, orphans>>

-----------------------------------------------------------------------------
(* gc-artifacts *)

StoringSteps == {"open", "write", "manifest", "index", "reply"}

\* Ids whose blob is settled and whose manifest is not there yet.
InFlight == {job[t].id : t \in {u \in Threads : /\ job[u].step \in {"write", "manifest"}
                                               /\ ~Stored(job[u].id)}}

\* Bug: retention is counted one day short in gc-artifacts.
ExpiredManifestsEarly == {id \in Ids : Stored(id) /\ ExpiredEarly(manifest[id].created, clock)}

ExpiredManifests == {id \in Ids : Stored(id) /\ Expired(manifest[id].created, clock)}

\* The manifests are listed and read; the expired ones are the candidates.
GcStart ==
  /\ gc = GcIdle
  /\ \E first \in ExpiredManifests :
       gc' = [step |-> "manifest", now |-> clock, todo |-> ExpiredManifests, id |-> first,
              listed |-> {[id |-> id, content |-> manifest[id].content,
                           created |-> manifest[id].created]
                          : id \in {i \in Ids : Stored(i)}},
              done |-> {}]
  /\ late' = late \cup InFlight
  /\ UNCHANGED <<blob, manifest, entries, used, job, scanner, clock, faults, acked, orphans>>

GcManifest ==
  /\ gc.step = "manifest"
  /\ manifest' = [manifest EXCEPT ![gc.id] = NoManifest]
  /\ gc' = [gc EXCEPT !.step = "entries"]
  /\ UNCHANGED <<blob, entries, used, job, scanner, clock, faults, acked, late, orphans>>

\* Bug: the entries of the status the manifest was listed with stay behind.
GcEntriesKept ==
  /\ gc.step = "entries"
  /\ entries' = {e \in entries : e[1] # gc.id \/ e[2] = "verified"}
  /\ gc' = [gc EXCEPT !.step = "blob"]
  /\ UNCHANGED <<blob, manifest, used, job, scanner, clock, faults, acked, late, orphans>>

GcEntries ==
  /\ gc.step = "entries"
  /\ entries' = {e \in entries : e[1] # gc.id}
  /\ gc' = [gc EXCEPT !.step = "blob"]
  /\ UNCHANGED <<blob, manifest, used, job, scanner, clock, faults, acked, late, orphans>>

Current == CHOOSE r \in gc.listed : r.id = gc.id

\* Bug: the blob goes with the first manifest that names it.
OwnReferenceExpired(content) ==
  \E r \in gc.listed : r.content = content /\ Expired(r.created, gc.now)

\* Every manifest that was listed for the content was expired.
AllReferencesExpired(content) ==
  \A r \in gc.listed : r.content = content => Expired(r.created, gc.now)

GcBlob ==
  /\ gc.step = "blob"
  /\ LET c == Current.content
         delete == c \notin gc.done /\ AllReferencesExpired(c) /\ blob[c] # "absent"
         left == gc.todo \ {gc.id}
     IN  /\ blob' = IF delete THEN [blob EXCEPT ![c] = "absent"] ELSE blob
         /\ \/ left = {} /\ gc' = GcIdle
            \/ \E next \in left :
                 gc' = [gc EXCEPT !.step = "manifest", !.todo = left, !.id = next,
                                  !.done = IF delete THEN @ \cup {c} ELSE @]
  /\ UNCHANGED <<manifest, entries, used, job, scanner, clock, faults, acked, late, orphans>>

-----------------------------------------------------------------------------
(* Failures and the environment *)

\* What is left of the files a dead thread was writing.
Abandon(dead) == [c \in Contents |-> IF blob[c] \in dead THEN "partial" ELSE blob[c]]

\* A write fails (disk full, audit log): the handler answers with an error.
Fail(t) ==
  /\ faults < MaxFaults
  /\ job[t].step \in StoringSteps
  /\ faults' = faults + 1
  /\ blob' = Abandon({t})
  /\ job' = [job EXCEPT ![t] = Idle]
  /\ UNCHANGED <<manifest, entries, used, gc, scanner, clock, acked, late, orphans>>

\* The gateway dies and starts again, perhaps with another policy.
Restart ==
  /\ faults < MaxFaults
  /\ faults' = faults + 1
  /\ blob' = Abandon(Threads)
  /\ job' = [t \in Threads |-> Idle]
  /\ scanner' \in Scanners
  /\ UNCHANGED <<manifest, entries, used, gc, clock, acked, late, orphans>>

\* gc-artifacts is killed; it starts from the beginning the next time.
GcKilled ==
  /\ faults < MaxFaults
  /\ gc # GcIdle
  /\ faults' = faults + 1
  /\ orphans' = IF gc.step = "entries" THEN orphans \cup {gc.id} ELSE orphans
  /\ gc' = GcIdle
  /\ UNCHANGED <<blob, manifest, entries, used, job, scanner, clock, acked, late>>

\* Days pass; no handler runs as long as the retention window.
Tick ==
  /\ clock < MaxClock
  /\ \A t \in Threads : job[t].step \in StoringSteps =>
       ~Expired(job[t].draft.created, clock + 1)
  /\ clock' = clock + 1
  /\ UNCHANGED <<blob, manifest, entries, used, job, gc, scanner, faults, acked, late, orphans>>

Handler(t) ==
  \/ Submit(t) \/ OpenBlob(t) \/ WriteBlob(t) \/ WriteManifest(t)
  \/ WriteIndex(t) \/ ReplyStored(t)
  \/ LoadManifest(t) \/ ReadBlob(t) \/ Finish(t) \/ StoreSummary(t)

Collect == GcStart \/ GcManifest \/ GcEntries \/ GcBlob

Next ==
  \/ \E t \in Threads : Handler(t) \/ Fail(t)
  \/ Collect \/ GcKilled
  \/ Restart
  \/ Tick

Spec == Init /\ [][Next]_vars

-----------------------------------------------------------------------------
(* Properties *)

InForce(a) == ~Expired(a.manifest.created, clock)

\* What no step of an inspection may drop does not weigh enough to hold the
\* content back; a warning is enough for injection and obfuscation only.
FitFor(status, media, found) ==
  LET firm == Firm(found) IN
  /\ Scannable(media) /\ ~media.mismatch /\ ~Incomplete(found)
  /\ \/ Score(firm) < Guard.review
     \/ /\ status = "verified_with_warnings" /\ Score(firm) < Guard.block
        /\ \A f \in firm : f.severity > 0 => f.kind \in Warnable

\* What a download sends, and what a review shows its backend, are the whole
\* bytes the manifest names, although blobs are written and deleted without a
\* lock while they are read; and an artifact labelled verified under an
\* earlier policy is fit for its label by the policy in force now, whatever
\* the small model says of it this time.
DeliversWhatPassed ==
  \A t \in Threads : job[t].step \in {"deliver", "ask"} =>
    LET m == job[t].found IN
    /\ job[t].body = m.content
    /\ m.status \in {"verified", "verified_with_warnings"} =>
         FitFor(m.status, MediaOf[m.content], scanner[m.content])

\* An answered submission keeps its manifest, with the verdict it was answered
\* with, for the whole retention window, whatever gc-artifacts collects and
\* whoever dies meanwhile.
AcknowledgedRemains ==
  \A a \in acked : InForce(a) => manifest[a.id] = a.manifest

\* Its blob is there as well: gc-artifacts deletes bytes that identical
\* submissions share only when none of them is within its retention.  The
\* exception are submissions stored while gc-artifacts was running.
BlobKept ==
  \A a \in acked : InForce(a) /\ a.id \notin late =>
    blob[a.manifest.content] # "absent"

\* A run of gc-artifacts that completes leaves no lookup or index entry of an
\* artifact without a manifest.  The exception are those of the one manifest
\* a run that was killed had just deleted: no later run finds them.
CompletedRunCleans ==
  [][gc # GcIdle /\ gc' = GcIdle /\ faults' = faults
       => \A e \in entries' : manifest'[e[1]] # NoManifest \/ e[1] \in orphans]_vars

=============================================================================

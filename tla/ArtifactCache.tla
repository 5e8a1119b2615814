---------------------------- MODULE ArtifactCache ----------------------------
(***************************************************************************)
(* The artifact cache of one family/revision, shared by processes that     *)
(* fetch, verify, load, mirror, export and import it                       *)
(* (toktier/src/artifact.rs, bundle.rs, fsutil.rs, manifest.rs).           *)
(*                                                                         *)
(* A process holds the family lock only inside `ensure`; `import_bundle`,  *)
(* the first verification and the pruning of old `.part` files run         *)
(* without it.  Processes crash between any two file-system calls (their   *)
(* lock is released, their temporaries stay), installed files rot, and     *)
(* the network drops, truncates or serves other bytes.                     *)
(*                                                                         *)
(* A file's bytes are "good" (the size and SHA-256 the manifest row        *)
(* records), "bad" (any other whole file), "part" (being written) or       *)
(* "none".  Wrong sizes and wrong digests are both "bad".                  *)
(***************************************************************************)
EXTENDS Naturals, Sequences, FiniteSets

CONSTANTS
  Procs,        \* processes (their pids)
  Files,        \* keys of row.files, in BTreeMap order; "tok" is tokenizer.json
  Nonces,       \* unique_temporary tries nonces 0..Nonces-1
  Retries,      \* ArtifactManagerBuilder.retries
  Starts,       \* what a run may find: the host, the directory, the archive
  Calls,        \* the calls processes make
  MaxCalls,     \* bound: calls begun
  MaxCrashes,   \* bound: crashes
  MaxRot        \* bound: installed files that rot

Names == {Files[i] : i \in 1..Len(Files)}
NoProc == "nobody"
Marker == "marker"
Archive == "archive"
AllGood == [n \in Names |-> "good"]
TokBad == [AllGood EXCEPT !["tok"] = "bad"]
Nothing == [n \in Names |-> "none"]

ASSUME FilesAssumption ==
  /\ Files \in Seq(STRING) /\ "tok" \in Names
  /\ Marker \notin Names /\ Archive \notin Names /\ NoProc \notin Procs
ASSUME StartsAssumption ==
  Starts \subseteq [conf : [source : {"net", "local"}, closed : BOOLEAN],
                    file : [Names -> {"none", "good", "bad"}], marker : BOOLEAN,
                    mirror : [Names -> {"none", "good", "bad"}],
                    archive : {"absent", "whole", "foreign", "torn"}]
ASSUME CallsAssumption ==
  Calls \subseteq {"fetch", "verify", "load", "mirror", "export", "import"}
ASSUME BoundsAssumption ==
  /\ Nonces \in Nat \ {0} /\ Retries \in Nat
  /\ MaxCalls \in Nat /\ MaxCrashes \in Nat /\ MaxRot \in Nat

VARIABLES
  conf,    \* this host: its source, and whether it may fetch this family
  dir,     \* the alias directory
  parts,   \* hidden `.part` temporaries inside it
  lock,    \* holder of .locks/<family>-<revision>.lock
  mirror,  \* <root>/<repo>/resolve/<revision>, also the local source
  bundle,  \* the archive at the one bundle path in use
  drafts,  \* hidden `.part` temporaries beside mirrored members and the archive
  proc,    \* each process's call in progress
  rot,     \* names damaged and not yet replaced by verified bytes
  budget   \* what the bounds leave

vars == <<conf, dir, parts, lock, mirror, bundle, drafts, proc, rot, budget>>

Idle == [call |-> "none", pc |-> "idle", st |-> "none", i |-> 1, nonce |-> 0,
         try |-> 0, list |-> {}, held |-> Nothing, file |-> "none", res |-> "none"]

Init ==
  /\ \E start \in Starts :
       /\ conf = start.conf
       /\ dir = [made |-> start.file # Nothing \/ start.marker, file |-> start.file,
                 runtime |-> FALSE, marker |-> start.marker]
       /\ mirror = start.mirror
       /\ bundle = [there |-> start.archive # "absent",
                    ours |-> FALSE,
                    decl |-> IF start.archive = "foreign" THEN TokBad ELSE AllGood,
                    data |-> IF start.archive = "whole" THEN AllGood ELSE TokBad]
  /\ parts = {} /\ drafts = {}
  /\ lock = NoProc
  /\ proc = [p \in Procs |-> Idle]
  /\ rot = {}
  /\ budget = [calls |-> MaxCalls, crashes |-> MaxCrashes, rot |-> MaxRot]

-----------------------------------------------------------------------------
(* Steps of a process. *)

At(p, pc) == proc[p].pc = pc
Name(p) == Files[proc[p].i]
Go(p, pc) == proc' = [proc EXCEPT ![p].pc = pc]
Release(p) == lock' = IF lock = p THEN NoProc ELSE lock

\* Part(p, n, k): the temporary .<n>.<pid>.<k>.part this process would use.
Mine(p, n, k) == {t \in parts : t.pid = p /\ t.name = n /\ t.nonce = k}
Part(p, n, k, bytes) == [pid |-> p, name |-> n, nonce |-> k, bytes |-> bytes, old |-> FALSE]
FreeNonces(p, n) == {k \in 0..Nonces - 1 : Mine(p, n, k) = {}}

\* The same for a temporary outside the directory, which holds what `data` says:
\* one mirrored member, or the members appended to the archive so far.
Drafts(p, n, k) == {t \in drafts : t.pid = p /\ t.name = n /\ t.nonce = k}
Draft(p, n, k, data) == [pid |-> p, name |-> n, nonce |-> k, data |-> data]
FreeDrafts(p, n) == {k \in 0..Nonces - 1 : Drafts(p, n, k) = {}}

\* unique_temporary: the smallest nonce whose path does not exist.
UniqueTemporary(free) == CHOOSE k \in free : \A j \in free : k <= j

\* The call answers r: its lock file is closed with it.
Answer(p, r) ==
  /\ proc' = [proc EXCEPT ![p] = [Idle EXCEPT !.call = proc[p].call, !.pc = "done", !.res = r]]
  /\ Release(p)

\* The call fails after install_file removed its temporary.
AnswerCleaned(p, r) ==
  /\ parts' = parts \ Mine(p, Name(p), proc[p].nonce)
  /\ Answer(p, r)

Begin(p, c) ==
  /\ proc[p].pc \in {"idle", "done"}
  /\ budget.calls > 0
  /\ budget' = [budget EXCEPT !.calls = @ - 1]
  /\ proc' = [proc EXCEPT ![p] =
       [Idle EXCEPT !.call = c,
                    !.pc = IF c = "import" THEN "manifest" ELSE "verify",
                    !.st = CASE c = "verify" -> "inspect"
                             [] c = "import" -> "inspect_bundle"
                             [] OTHER -> "first"]]
  /\ UNCHANGED <<conf, dir, parts, lock, mirror, bundle, drafts, rot>>

-----------------------------------------------------------------------------
(* Verification. *)

\* A plausible bug: a member that exists is taken for a verified one.
ExistsIsEnough(bytes) == bytes # "none"

\* verify_file: size and SHA-256 of a regular file against the row.
VerifyFile(bytes) == bytes = "good"

\* What `ensure` returns to: fetch inspects again, load reads tokenizer.json.
AfterEnsure(p) ==
  /\ Release(p)
  /\ proc' = [proc EXCEPT ![p].i = 1,
                          ![p].pc = CASE proc[p].call = "fetch" -> "verify"
                                      [] proc[p].call = "load" -> "read"
                                      [] proc[p].call = "mirror" -> "mirror_hash"
                                      [] OTHER -> "collect",
                          ![p].st = "inspect"]

\* verify_directory looks at one member at a time.
VerifyMember(p) ==
  /\ At(p, "verify") /\ proc[p].i <= Len(Files)
  /\ dir.made /\ VerifyFile(dir.file[Name(p)])
  /\ proc' = [proc EXCEPT ![p].i = @ + 1]
  /\ UNCHANGED <<conf, dir, parts, lock, mirror, bundle, drafts, rot, budget>>

VerifyFails(p) ==
  /\ At(p, "verify") /\ proc[p].i <= Len(Files)
  /\ ~(dir.made /\ VerifyFile(dir.file[Name(p)]))
  /\ CASE proc[p].st = "first"  -> Go(p, "prune") /\ UNCHANGED lock
       [] proc[p].st = "second" -> Go(p, "gate") /\ UNCHANGED lock
       [] OTHER                 -> Answer(p, "unverified")
  /\ UNCHANGED <<conf, dir, parts, mirror, bundle, drafts, rot, budget>>

VerifyDone(p) ==
  /\ At(p, "verify") /\ proc[p].i > Len(Files)
  /\ CASE proc[p].st \in {"first", "second"} -> AfterEnsure(p)
       [] proc[p].st \in {"final", "imported"} -> Go(p, "marker") /\ UNCHANGED lock
       [] OTHER -> Answer(p, "ok")
  /\ UNCHANGED <<conf, dir, parts, mirror, bundle, drafts, rot, budget>>

\* Registry::verify_local: one read of tokenizer.json, hashed as it was read.
Read(p) ==
  /\ At(p, "read")
  /\ LET bytes == dir.file["tok"] IN
     proc' = [proc EXCEPT ![p] =
       [Idle EXCEPT !.call = "load", !.pc = "done",
                    !.res = IF VerifyFile(bytes) THEN "ok" ELSE "unverified",
                    !.held = [Nothing EXCEPT !["tok"] = bytes]]]
  /\ UNCHANGED <<conf, dir, parts, lock, mirror, bundle, drafts, rot, budget>>

-----------------------------------------------------------------------------
(* ensure: prune, lock, install. *)

\* prune_stale_temporary_files lists the directory before the lock is taken.
ListParts(p) ==
  /\ At(p, "prune")
  /\ proc' = [proc EXCEPT ![p].pc = "pruning",
                          ![p].list = {<<t.pid, t.name, t.nonce>> : t \in parts}]
  /\ UNCHANGED <<conf, dir, parts, lock, mirror, bundle, drafts, rot, budget>>

\* An entry another process removed or renamed since is an Io error.
PruneOne(p) ==
  /\ At(p, "pruning")
  /\ \E path \in proc[p].list :
       LET found == Mine(path[1], path[2], path[3]) IN
       \/ /\ found # {}
          /\ parts' = parts \ {t \in found : t.old}
          /\ proc' = [proc EXCEPT ![p].list = @ \ {path}]
          /\ UNCHANGED lock
       \/ found = {} /\ Answer(p, "io") /\ UNCHANGED parts
  /\ UNCHANGED <<conf, dir, mirror, bundle, drafts, rot, budget>>

\* A plausible bug: the lock file is opened and never locked.
AnyoneEnters(p) == TRUE

LockFree(p) == lock = NoProc

\* lock_exclusive_bounded: polled until free or until lock_timeout.
LockFamily(p) ==
  /\ At(p, "pruning") /\ proc[p].list = {}
  /\ IF LockFree(p)
       THEN /\ lock' = p
            /\ proc' = [proc EXCEPT ![p].pc = "verify", ![p].st = "second", ![p].i = 1]
       ELSE Answer(p, "busy")
  /\ UNCHANGED <<conf, dir, parts, mirror, bundle, drafts, rot, budget>>

\* A derived family, an offline host and a host without a source are refused
\* before anything is written.
Gate(p) ==
  /\ At(p, "gate")
  /\ IF conf.closed
       THEN Answer(p, "not_found") /\ UNCHANGED dir
       ELSE /\ dir' = [dir EXCEPT !.made = TRUE]
            /\ proc' = [proc EXCEPT ![p].pc = "install", ![p].i = 1]
            /\ UNCHANGED lock
  /\ UNCHANGED <<conf, parts, mirror, bundle, drafts, rot, budget>>

Present(p) == dir.file[Name(p)] # "none"

\* install_file: a member that is there is hashed; one that verifies stays, ...
Skip(p) ==
  /\ At(p, "install") /\ proc[p].i <= Len(Files)
  /\ Present(p) /\ VerifyFile(dir.file[Name(p)])
  /\ proc' = [proc EXCEPT ![p].i = @ + 1]
  /\ UNCHANGED <<conf, dir, parts, lock, mirror, bundle, drafts, rot, budget>>

\* ... one that does not is to be quarantined, ...
Doubt(p) ==
  /\ At(p, "install") /\ proc[p].i <= Len(Files)
  /\ Present(p) /\ ~VerifyFile(dir.file[Name(p)])
  /\ Go(p, "quarantine")
  /\ UNCHANGED <<conf, dir, parts, lock, mirror, bundle, drafts, rot, budget>>

\* ... by a rename that takes whatever is at that path by then.
Quarantine(p) ==
  /\ At(p, "quarantine")
  /\ IF Present(p)
       THEN /\ dir' = [dir EXCEPT !.file[Name(p)] = "none"]
            /\ Go(p, "allocate")
            /\ UNCHANGED lock
       ELSE Answer(p, "io") /\ UNCHANGED dir
  /\ UNCHANGED <<conf, parts, mirror, bundle, drafts, rot, budget>>

\* Free space, then a temporary path; either may be missing.
Allocate(p) ==
  /\ \/ At(p, "install") /\ proc[p].i <= Len(Files) /\ ~Present(p)
     \/ At(p, "allocate")
  /\ \/ Answer(p, "io")
     \/ FreeNonces(p, Name(p)) = {} /\ Answer(p, "busy")
     \/ /\ FreeNonces(p, Name(p)) # {}
        /\ proc' = [proc EXCEPT ![p].pc = "open", ![p].try = 0,
                                ![p].nonce = UniqueTemporary(FreeNonces(p, Name(p)))]
        /\ UNCHANGED lock
  /\ UNCHANGED <<conf, dir, parts, mirror, bundle, drafts, rot, budget>>

InstallDone(p) ==
  /\ At(p, "install") /\ proc[p].i > Len(Files)
  /\ proc' = [proc EXCEPT ![p].pc = "verify", ![p].st = "final", ![p].i = 1]
  /\ UNCHANGED <<conf, dir, parts, lock, mirror, bundle, drafts, rot, budget>>

\* A plausible bug: the attempt counter is not advanced.
RetryForever(p) ==
  Go(p, "open") /\ UNCHANGED <<parts, lock>>

\* download_checked: a transport error is tried again, Retries times.
RetryOrFail(p) ==
  IF conf.source = "net" /\ proc[p].try < Retries
    THEN /\ proc' = [proc EXCEPT ![p].pc = "open", ![p].try = @ + 1]
         /\ UNCHANGED <<parts, lock>>
    ELSE AnswerCleaned(p, "network")

\* One attempt: drop the last attempt's file, ask (or open the local source),
\* create the temporary.
Open(p) ==
  /\ At(p, "open")
  /\ \/ /\ conf.source = "net" \/ mirror[Name(p)] # "none"
        /\ parts' = (parts \ Mine(p, Name(p), proc[p].nonce))
                       \cup {Part(p, Name(p), proc[p].nonce, "part")}
        /\ proc' = [proc EXCEPT ![p].pc = "stream", ![p].file = mirror[Name(p)]]
        /\ UNCHANGED lock
     \/ conf.source = "net" /\ RetryOrFail(p)
     \/ conf.source = "net" /\ AnswerCleaned(p, "size")
     \/ conf.source = "local" /\ mirror[Name(p)] = "none" /\ AnswerCleaned(p, "not_found")
  /\ UNCHANGED <<conf, dir, mirror, bundle, drafts, rot, budget>>

\* write_reader_checked: what arrives is hashed and measured as it is written.
Stream(p) ==
  /\ At(p, "stream")
  /\ \/ /\ conf.source = "net" \/ proc[p].file = "good"
        /\ parts' = {IF t \in Mine(p, Name(p), proc[p].nonce)
                       THEN [t EXCEPT !.bytes = "good", !.old = FALSE] ELSE t : t \in parts}
        /\ Go(p, "rename")
        /\ UNCHANGED lock
     \/ /\ conf.source = "net" \/ proc[p].file = "bad"
        /\ AnswerCleaned(p, "hash")
     \/ conf.source = "net" /\ RetryOrFail(p)
  /\ UNCHANGED <<conf, dir, mirror, bundle, drafts, rot, budget>>

\* rename(temporary, target): fails when another process pruned the temporary.
Rename(p) ==
  /\ At(p, "rename")
  /\ LET n == Name(p)
         mine == Mine(p, n, proc[p].nonce) IN
     \/ /\ mine # {}
        /\ \E t \in mine : dir' = [dir EXCEPT !.file[n] = t.bytes]
        /\ rot' = rot \ {n}
        /\ parts' = parts \ mine
        /\ proc' = [proc EXCEPT ![p].pc = "install", ![p].i = @ + 1]
        /\ UNCHANGED lock
     \/ mine = {} /\ AnswerCleaned(p, "io") /\ UNCHANGED <<dir, rot>>
  /\ UNCHANGED <<conf, mirror, bundle, drafts, budget>>

\* write_marker: a temporary beside the members, then a rename.
MarkerTemp(p) ==
  /\ At(p, "marker")
  /\ IF FreeNonces(p, Marker) = {}
       THEN Answer(p, "busy") /\ UNCHANGED parts
       ELSE LET k == UniqueTemporary(FreeNonces(p, Marker)) IN
            /\ parts' = parts \cup {Part(p, Marker, k, "good")}
            /\ proc' = [proc EXCEPT ![p].pc = "marked", ![p].nonce = k]
            /\ UNCHANGED lock
  /\ UNCHANGED <<conf, dir, mirror, bundle, drafts, rot, budget>>

MarkerRename(p) ==
  /\ At(p, "marked")
  /\ LET mine == Mine(p, Marker, proc[p].nonce) IN
     IF mine = {}
       THEN Answer(p, "io") /\ UNCHANGED <<dir, parts>>
       ELSE /\ dir' = [dir EXCEPT !.marker = TRUE]
            /\ parts' = parts \ mine
            /\ IF proc[p].st = "imported"
                 THEN /\ proc' = [proc EXCEPT ![p].pc = "verify", ![p].st = "inspect",
                                              ![p].i = 1]
                      /\ UNCHANGED lock
                 ELSE AfterEnsure(p)
  /\ UNCHANGED <<conf, mirror, bundle, drafts, rot, budget>>

-----------------------------------------------------------------------------
(* mirror and export read the directory after `ensure`, without the lock. *)

\* mirror looks up the next member; copy_atomic allocates a temporary beside the
\* target and hashes the source, ...
MirrorHash(p) ==
  /\ At(p, "mirror_hash")
  /\ IF proc[p].i > Len(Files) THEN Answer(p, "ok")
     ELSE IF ~Present(p) THEN Answer(p, "not_found")
     ELSE IF FreeDrafts(p, Name(p)) = {} THEN Answer(p, "busy")
     ELSE /\ proc' = [proc EXCEPT ![p].pc = "mirror_open",
                                  ![p].nonce = UniqueTemporary(FreeDrafts(p, Name(p))),
                                  ![p].held[Name(p)] = dir.file[Name(p)]]
          /\ UNCHANGED lock
  /\ UNCHANGED <<conf, dir, parts, mirror, bundle, drafts, rot, budget>>

\* ... opens it again and creates the temporary, ...
MirrorOpen(p) ==
  /\ At(p, "mirror_open")
  /\ IF Present(p)
       THEN /\ drafts' = drafts \cup {Draft(p, Name(p), proc[p].nonce,
                                            [Nothing EXCEPT ![Name(p)] = "part"])}
            /\ proc' = [proc EXCEPT ![p].pc = "mirror_stream",
                                    ![p].file = dir.file[Name(p)]]
            /\ UNCHANGED lock
       ELSE Answer(p, "not_found") /\ UNCHANGED drafts
  /\ UNCHANGED <<conf, dir, parts, mirror, bundle, rot, budget>>

\* The temporaries after `bytes` of the current member were written to one.
Written(p, n, k, bytes) ==
  (drafts \ Drafts(p, n, k)) \cup {[t EXCEPT !.data[Name(p)] = bytes] : t \in Drafts(p, n, k)}

\* ... copies the open file under that hash (a copy that does not match is left
\* where it is), ...
MirrorStream(p) ==
  /\ At(p, "mirror_stream")
  /\ drafts' = Written(p, Name(p), proc[p].nonce, proc[p].file)
  /\ IF proc[p].file = proc[p].held[Name(p)]
       THEN Go(p, "mirror_rename") /\ UNCHANGED lock
       ELSE Answer(p, "hash")
  /\ UNCHANGED <<conf, dir, parts, mirror, bundle, rot, budget>>

\* ... and renames the temporary over the target.
MirrorRename(p) ==
  /\ At(p, "mirror_rename")
  /\ \E t \in Drafts(p, Name(p), proc[p].nonce) :
       mirror' = [mirror EXCEPT ![Name(p)] = t.data[Name(p)]]
  /\ drafts' = drafts \ Drafts(p, Name(p), proc[p].nonce)
  /\ proc' = [proc EXCEPT ![p].pc = "mirror_hash", ![p].i = @ + 1]
  /\ UNCHANGED <<conf, dir, parts, lock, bundle, rot, budget>>

\* export collects every member; one that is missing is ArtifactNotFound.
Collect(p) ==
  /\ At(p, "collect")
  /\ IF \A n \in Names : dir.file[n] # "none"
       THEN Go(p, "bundle_hash") /\ UNCHANGED lock
       ELSE Answer(p, "not_found")
  /\ UNCHANGED <<conf, dir, parts, mirror, bundle, drafts, rot, budget>>

\* export_bundle hashes one source after the other into the manifest, ...
BundleHash(p) ==
  /\ At(p, "bundle_hash") /\ proc[p].i <= Len(Files)
  /\ IF Present(p)
       THEN /\ proc' = [proc EXCEPT ![p].held[Name(p)] = dir.file[Name(p)],
                                    ![p].i = @ + 1]
            /\ UNCHANGED lock
       ELSE Answer(p, "not_found")
  /\ UNCHANGED <<conf, dir, parts, mirror, bundle, drafts, rot, budget>>

\* ... starts a temporary archive with that manifest, ...
BundleCreate(p) ==
  /\ At(p, "bundle_hash") /\ proc[p].i > Len(Files)
  /\ IF FreeDrafts(p, Archive) = {}
       THEN Answer(p, "busy") /\ UNCHANGED drafts
       ELSE LET k == UniqueTemporary(FreeDrafts(p, Archive)) IN
            /\ drafts' = drafts \cup {Draft(p, Archive, k, [n \in Names |-> "part"])}
            /\ proc' = [proc EXCEPT ![p].pc = "bundle_append", ![p].nonce = k, ![p].i = 1]
            /\ UNCHANGED lock
  /\ UNCHANGED <<conf, dir, parts, mirror, bundle, rot, budget>>

Scratch(p) == Drafts(p, Archive, proc[p].nonce)

\* ... appends the sources as they are by then (an error removes the archive), ...
BundleAppend(p) ==
  /\ At(p, "bundle_append") /\ proc[p].i <= Len(Files)
  /\ IF Present(p)
       THEN /\ drafts' = Written(p, Archive, proc[p].nonce, dir.file[Name(p)])
            /\ proc' = [proc EXCEPT ![p].i = @ + 1]
            /\ UNCHANGED lock
       ELSE Answer(p, "io") /\ drafts' = drafts \ Scratch(p)
  /\ UNCHANGED <<conf, dir, parts, mirror, bundle, rot, budget>>

\* A plausible bug: the finished archive is published without being re-read.
Unchecked(decl, data) == TRUE

\* verify_archive_files: every member has the bytes the manifest declares.
Authentic(decl, data) == decl = data

\* ... re-opens and authenticates what it wrote, ...
BundleInspect(p) ==
  /\ At(p, "bundle_append") /\ proc[p].i > Len(Files)
  /\ IF \A t \in Scratch(p) : Authentic(proc[p].held, t.data)
       THEN Go(p, "bundle_rename") /\ UNCHANGED <<lock, drafts>>
       ELSE Answer(p, "hash") /\ drafts' = drafts \ Scratch(p)
  /\ UNCHANGED <<conf, dir, parts, mirror, bundle, rot, budget>>

\* ... and renames it to the path other processes open.
BundleRename(p) ==
  /\ At(p, "bundle_rename")
  /\ \E t \in Scratch(p) :
       bundle' = [there |-> TRUE, ours |-> TRUE, decl |-> proc[p].held, data |-> t.data]
  /\ drafts' = drafts \ Scratch(p)
  /\ Answer(p, "ok")
  /\ UNCHANGED <<conf, dir, parts, mirror, rot, budget>>

-----------------------------------------------------------------------------
(* import: inspect_bundle, then import_bundle, each opening the path anew. *)

\* read_and_validate_manifest
OpenManifest(p) ==
  /\ At(p, "manifest")
  /\ IF bundle.there
       THEN /\ proc' = [proc EXCEPT ![p].pc = "archive", ![p].held = bundle.decl]
            /\ UNCHANGED lock
       ELSE Answer(p, "not_found")
  /\ UNCHANGED <<conf, dir, parts, mirror, bundle, drafts, rot, budget>>

\* verify_archive_files against the manifest read before; the second time
\* the members are unpacked into private staging.
ReadArchive(p) ==
  /\ At(p, "archive")
  /\ IF bundle.there /\ Authentic(proc[p].held, bundle.data)
       THEN /\ IF proc[p].st = "inspect_bundle"
                 THEN proc' = [proc EXCEPT ![p].pc = "manifest", ![p].st = "stage"]
                 ELSE Go(p, "target")
            /\ UNCHANGED lock
       ELSE Answer(p, "bundle_invalid")
  /\ UNCHANGED <<conf, dir, parts, mirror, bundle, drafts, rot, budget>>

\* target.exists(): decide between re-reading the alias and publishing it.
LookAtTarget(p) ==
  /\ At(p, "target")
  /\ Go(p, IF dir.made THEN "clear" ELSE "publish")
  /\ UNCHANGED <<conf, dir, parts, lock, mirror, bundle, drafts, rot, budget>>

\* prune_marker_temporaries: every marker temporary, whoever is writing it.
ClearMarkers(p) ==
  /\ At(p, "clear")
  /\ parts' = {t \in parts : t.name # Marker}
  /\ Go(p, "installed")
  /\ UNCHANGED <<conf, dir, lock, mirror, bundle, drafts, rot, budget>>

\* verify_installed: nothing undeclared, every declared file identical.
VerifyInstalled(p) ==
  /\ At(p, "installed")
  /\ IF parts = {} /\ dir.runtime /\ dir.file = proc[p].held
       THEN /\ proc' = [proc EXCEPT ![p].pc = "verify", ![p].st = "imported", ![p].i = 1]
            /\ UNCHANGED lock
       ELSE Answer(p, "alias_conflict")
  /\ UNCHANGED <<conf, dir, parts, mirror, bundle, drafts, rot, budget>>

\* rename(staging, target) replaces an empty directory and refuses any other.
PublishAlias(p) ==
  /\ At(p, "publish")
  /\ IF dir.file = Nothing /\ ~dir.runtime /\ ~dir.marker /\ parts = {}
       THEN /\ dir' = [made |-> TRUE, file |-> proc[p].held, runtime |-> TRUE, marker |-> FALSE]
            /\ rot' = {n \in rot : proc[p].held[n] # "good"}
            /\ proc' = [proc EXCEPT ![p].pc = "verify", ![p].st = "imported", ![p].i = 1]
            /\ UNCHANGED lock
       ELSE Answer(p, "io") /\ UNCHANGED <<dir, rot>>
  /\ UNCHANGED <<conf, parts, mirror, bundle, drafts, budget>>

-----------------------------------------------------------------------------
(* Faults. *)

\* The process stops: the kernel drops its lock, its temporaries stay.
Crash(p) ==
  /\ ~(proc[p].pc \in {"idle", "done"})
  /\ budget.crashes > 0
  /\ budget' = [budget EXCEPT !.crashes = @ - 1]
  /\ proc' = [proc EXCEPT ![p] = Idle]
  /\ Release(p)
  /\ UNCHANGED <<conf, dir, parts, mirror, bundle, drafts, rot>>

\* An installed member is damaged on disk, also for those who have it open.
Rot(n) ==
  /\ dir.file[n] = "good" /\ budget.rot > 0
  /\ dir' = [dir EXCEPT !.file[n] = "bad"]
  /\ rot' = rot \cup {n}
  /\ budget' = [budget EXCEPT !.rot = @ - 1]
  /\ proc' = [p \in Procs |-> IF At(p, "mirror_stream") /\ Name(p) = n /\ proc[p].file = "good"
                                THEN [proc[p] EXCEPT !.file = "bad"] ELSE proc[p]]
  /\ UNCHANGED <<conf, parts, lock, mirror, bundle, drafts>>

\* A temporary passes stale_temporary_after, abandoned or merely stalled.
Age(t) ==
  /\ ~t.old
  /\ parts' = (parts \ {t}) \cup {[t EXCEPT !.old = TRUE]}
  /\ UNCHANGED <<conf, dir, lock, mirror, bundle, drafts, proc, rot, budget>>

Step(p) ==
  \/ VerifyMember(p) \/ VerifyFails(p) \/ VerifyDone(p) \/ Read(p)
  \/ ListParts(p) \/ PruneOne(p) \/ LockFamily(p) \/ Gate(p)
  \/ Skip(p) \/ Doubt(p) \/ Quarantine(p) \/ Allocate(p) \/ InstallDone(p)
  \/ Open(p) \/ Stream(p) \/ Rename(p) \/ MarkerTemp(p) \/ MarkerRename(p)
  \/ MirrorHash(p) \/ MirrorOpen(p) \/ MirrorStream(p) \/ MirrorRename(p)
  \/ Collect(p) \/ BundleHash(p) \/ BundleCreate(p) \/ BundleAppend(p)
  \/ BundleInspect(p) \/ BundleRename(p)
  \/ OpenManifest(p) \/ ReadArchive(p) \/ LookAtTarget(p) \/ ClearMarkers(p)
  \/ VerifyInstalled(p) \/ PublishAlias(p)

Next ==
  \/ \E p \in Procs : (\E c \in Calls : Begin(p, c)) \/ Step(p) \/ Crash(p)
  \/ \E n \in Names : Rot(n)
  \/ \E t \in parts : Age(t)

Spec == Init /\ [][Next]_vars /\ \A p \in Procs : WF_vars(Step(p))

-----------------------------------------------------------------------------
(* Properties. *)

\* A call that answered "ok" (ensure, verify, load, import) leaves a directory
\* whose every member matches the manifest row, and a loaded tokenizer the
\* exact pinned bytes; no other process's repair, prune, quarantine or import
\* takes that back.  Only later damage on disk can.
ReturnedVerified ==
  \A p \in Procs : (At(p, "done") /\ proc[p].res = "ok") =>
    /\ \A n \in Names : dir.file[n] = "good" \/ n \in rot
    /\ proc[p].call = "load" => proc[p].held["tok"] = "good"

\* No path a reader opens ever shows a half-written file or an archive this
\* crate wrote that does not authenticate, whatever crashes or rots meanwhile.
VisibleWhole ==
  /\ \A n \in Names : dir.file[n] # "part" /\ mirror[n] # "part"
  /\ bundle.ours => bundle.decl = bundle.data

\* A member that verifies is never moved, replaced or removed by any process.
GoodNeverLost ==
  [][\A n \in Names : dir.file[n] = "good" => dir'.file[n] = "good" \/ n \in rot']_vars

\* Every call returns: lock waits and transport retries are bounded, and a
\* crashed holder never keeps the family lock.
CallReturns ==
  \A p \in Procs : ~(proc[p].pc \in {"idle", "done"}) ~> (proc[p].pc \in {"idle", "done"})
=============================================================================

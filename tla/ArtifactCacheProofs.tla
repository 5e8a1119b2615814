------------------------ MODULE ArtifactCacheProofs ------------------------
(***************************************************************************)
(* Proofs about ArtifactCache, for any processes, members, bounds and      *)
(* faults: no process ever takes a verified member away from another, what *)
(* a reader opens is whole, and an answered "ok" stays true.               *)
(*                                                                         *)
(* The invariant is local to each process (what it knows at the point it   *)
(* has reached); a step keeps the invariant of every other process because *)
(* it keeps verified members, leaves their temporaries as they are and     *)
(* does not take the lock from its holder.                                 *)
(***************************************************************************)
EXTENDS ArtifactCache, WellFoundedInduction, TLAPS

Whole == {"none", "good", "bad"}
Ensuring == {"fetch", "load", "mirror", "export"}
Installing == {"gate", "install", "quarantine", "allocate", "open", "stream", "rename"}
Mirroring == {"mirror_hash", "mirror_open", "mirror_stream", "mirror_rename"}
Exporting == {"collect", "bundle_hash", "bundle_append", "bundle_rename"}

CallType ==
  [call : {"none", "fetch", "verify", "load", "mirror", "export", "import"},
   pc : {"idle", "done", "verify", "read", "prune", "pruning", "gate", "install",
         "quarantine", "allocate", "open", "stream", "rename", "marker", "marked",
         "mirror_hash", "mirror_open", "mirror_stream", "mirror_rename", "collect",
         "bundle_hash", "bundle_append", "bundle_rename", "manifest", "archive", "target",
         "clear", "installed", "publish"},
   st : {"none", "first", "second", "final", "inspect", "imported", "inspect_bundle", "stage"},
   i : 1..Len(Files) + 1, nonce : Nat, try : Nat,
   list : SUBSET (Procs \X (Names \cup {Marker}) \X Nat),
   held : [Names -> Whole], file : Whole,
   res : {"none", "ok", "unverified", "io", "busy", "not_found", "network", "size", "hash",
          "bundle_invalid", "alias_conflict"}]

PartType ==
  [pid : Procs, name : Names \cup {Marker}, nonce : Nat, bytes : {"part", "good"},
   old : BOOLEAN]

DraftType ==
  [pid : Procs, name : Names \cup {Archive}, nonce : Nat,
   data : [Names -> Whole \cup {"part"}]]

\* The variables that are not a process's own.
SharedType ==
  /\ conf \in [source : {"net", "local"}, closed : BOOLEAN]
  /\ dir \in [made : BOOLEAN, file : [Names -> Whole], runtime : BOOLEAN, marker : BOOLEAN]
  /\ parts \in SUBSET PartType
  /\ lock \in Procs \cup {NoProc}
  /\ mirror \in [Names -> Whole]
  /\ bundle \in [there : BOOLEAN, ours : BOOLEAN, decl : [Names -> Whole],
                 data : [Names -> Whole]]
  /\ drafts \in SUBSET DraftType
  /\ rot \in SUBSET Names
  /\ budget \in [calls : Nat, crashes : Nat, rot : Nat]

TypeOK == SharedType /\ proc \in [Procs -> CallType]

-----------------------------------------------------------------------------
(* The inductive invariant. *)

\* A member that verifies, or was damaged and not replaced since.
Kept(n) == dir.file[n] = "good" \/ n \in rot
AllKept == \A n \in Names : Kept(n)

\* Where a call can be, by its kind.
Station(q) ==
  /\ q.pc = "verify" =>
       \/ q.call \in Ensuring /\ q.st \in {"first", "second", "final"}
       \/ q.call \in {"fetch", "verify"} /\ q.st = "inspect"
       \/ q.call = "import" /\ q.st \in {"imported", "inspect"}
  /\ q.pc \in {"prune", "pruning"} \cup Installing => q.call \in Ensuring
  /\ q.pc \in Installing => q.st = "second"
  /\ q.pc \in {"marker", "marked"} =>
       \/ q.call \in Ensuring /\ q.st = "final"
       \/ q.call = "import" /\ q.st = "imported"
  /\ q.pc \in Mirroring => q.call = "mirror"
  /\ q.pc \in Exporting => q.call = "export"
  /\ q.pc \in {"manifest", "archive", "target", "clear", "installed", "publish"} =>
       q.call = "import"
  /\ q.pc \in {"quarantine", "allocate", "open", "stream", "rename", "mirror_open",
               "mirror_stream", "mirror_rename"} => q.i <= Len(Files)

\* What a process knows of the directory.
Knows(q) ==
  /\ q.pc = "verify" => \A k \in 1..(q.i - 1) : Kept(Files[k])
  /\ q.pc \in {"marker", "marked", "read"} \cup Mirroring \cup Exporting => AllKept
  /\ q.pc = "done" /\ q.res = "ok" =>
       AllKept /\ (q.call = "load" => q.held["tok"] = "good")

\* What it is about to rename was hashed as it was written, or read back.
Hashed(p) ==
  /\ At(p, "rename") => \A t \in Mine(p, Name(p), proc[p].nonce) : t.bytes = "good"
  /\ At(p, "mirror_rename") =>
       \A t \in Drafts(p, Name(p), proc[p].nonce) : t.data[Name(p)] = proc[p].held[Name(p)]
  /\ At(p, "bundle_rename") => \A t \in Scratch(p) : t.data = proc[p].held

\* The family lock is held from the second verification to the marker.
Locked(q) ==
  q.pc \in Installing \/ (q.pc \in {"verify", "marker", "marked"} /\ q.st \in {"second", "final"})
HoldsLock(p) == Locked(proc[p]) => lock = p

\* A member found wanting under the lock is still so when it is moved away.
Doomed(p) == At(p, "quarantine") => dir.file[Name(p)] = "bad"

Local(p) ==
  Station(proc[p]) /\ Knows(proc[p]) /\ Hashed(p) /\ HoldsLock(p) /\ Doomed(p)

\* Points at which a process is about to move nothing.
Calm(q) == q.pc \notin {"rename", "mirror_rename", "bundle_rename", "quarantine"}

USE DEF Mirroring, Exporting

IInv ==
  /\ TypeOK
  /\ bundle.ours => bundle.decl = bundle.data
  /\ \A p \in Procs : Local(p)

-----------------------------------------------------------------------------
(* Constants and helpers. *)

\* A set of naturals has a least element.
LEMMA NatLeast ==
    ASSUME NEW S \in SUBSET Nat, S # {}
    PROVE  \E m \in S : \A k \in S : m <= k
<1> DEFINE R == {ss \in Nat \X Nat : ss[1] < ss[2]}
<1>1. R = OpToRel(<, Nat)
  BY DEF OpToRel
<1>2. IsWellFoundedOn(R, Nat)
  BY <1>1, NatLessThanWellFounded
<1> HIDE DEF R
<1>3. PICK x \in S : \A y \in S : ~(<<y, x>> \in R)
  BY <1>2, WFMin, IsWellFoundedOnSubset, ZenonT(30)
<1>4. \A y \in S : ~(y < x)
  <2> TAKE y \in S
  <2>1. <<y, x>> \in Nat \X Nat /\ <<y, x>>[1] = y /\ <<y, x>>[2] = x
    OBVIOUS
  <2>2. y < x => <<y, x>> \in R
    BY <2>1 DEF R
  <2> QED
    BY <2>2, <1>3
<1> QED
  BY <1>4

\* The members are numbered 1..Len(Files).
LEMMA Members ==
    /\ Len(Files) \in Nat
    /\ \A k \in 1..Len(Files) : Files[k] \in Names
    /\ \A n \in Names : \E k \in 1..Len(Files) : n = Files[k]
BY FilesAssumption DEF Names

\* Once every position was looked at, every member was.
LEMMA PrefixIsAll ==
    ASSUME NEW i \in 1..Len(Files) + 1, i > Len(Files),
           \A k \in 1..(i - 1) : Kept(Files[k])
    PROVE  AllKept
<1>1. \A k \in 1..Len(Files) : Kept(Files[k])
  BY Members
<1> QED
  BY <1>1, Members DEF AllKept

LEMMA Tables ==
    /\ AllGood \in [Names -> Whole] /\ TokBad \in [Names -> Whole]
    /\ Nothing \in [Names -> Whole] /\ Idle \in CallType
<1>1. /\ AllGood \in [Names -> Whole] /\ TokBad \in [Names -> Whole]
      /\ Nothing \in [Names -> Whole]
  BY FilesAssumption DEF AllGood, TokBad, Nothing, Whole
<1>2. 1 \in 1..Len(Files) + 1
  BY Members
<1> QED
  BY <1>1, <1>2 DEF Idle, CallType, Whole

\* unique_temporary returns one of the free paths.
LEMMA UniqueIsFree ==
    ASSUME NEW free \in SUBSET Nat, free # {}
    PROVE  UniqueTemporary(free) \in free
<1>1. \E k \in free : \A j \in free : k <= j
  BY NatLeast
<1> QED
  BY <1>1 DEF UniqueTemporary

LEMMA FreeAreNat ==
    ASSUME NEW p, NEW n
    PROVE  FreeNonces(p, n) \in SUBSET Nat /\ FreeDrafts(p, n) \in SUBSET Nat
BY BoundsAssumption DEF FreeNonces, FreeDrafts

-----------------------------------------------------------------------------
(* What a step of one process leaves to the others. *)

KeptStays == \A n \in Names : Kept(n) => Kept(n)'
TempsSpared(q) ==
  /\ \A t \in parts' : t.pid = q =>
       \E s \in parts : s.pid = q /\ s.name = t.name /\ s.nonce = t.nonce /\ s.bytes = t.bytes
  /\ \A t \in drafts' : t.pid = q => t \in drafts
\* The lock's holder keeps it, and what it found wanting stays as it is.
LockSpared(q) ==
  lock = q => lock' = q /\ \A n \in Names : dir.file[n] = "bad" => dir'.file[n] = "bad"

\* The disk may change what an open file holds, and nothing else of a process.
Undisturbed(q) ==
  /\ proc'[q].call = proc[q].call /\ proc'[q].pc = proc[q].pc /\ proc'[q].st = proc[q].st
  /\ proc'[q].i = proc[q].i /\ proc'[q].nonce = proc[q].nonce
  /\ proc'[q].held = proc[q].held /\ proc'[q].res = proc[q].res

\* A process that does nothing keeps what it knows.
LEMMA SparedLocal ==
    ASSUME NEW q \in Procs, TypeOK, Local(q), KeptStays,
           TempsSpared(q), LockSpared(q), Undisturbed(q)
    PROVE  Local(q)'
<1>1. proc[q] \in CallType
  BY DEF TypeOK
<1>2. Station(proc[q])'
  BY DEF Local, Station, Undisturbed
<1>3. Knows(proc[q])'
  <2>1. \A k \in 1..(proc[q].i - 1) : Files[k] \in Names
    BY <1>1, Members DEF CallType
  <2>2. AllKept => AllKept'
    BY DEF KeptStays, AllKept
  <2> QED
    BY <2>1, <2>2 DEF Local, Knows, KeptStays, Undisturbed
<1>4. Hashed(q)'
  <2>1. (At(q, "rename") => \A t \in Mine(q, Name(q), proc[q].nonce) : t.bytes = "good")'
    BY DEF Local, Hashed, At, Mine, Name, TempsSpared, Undisturbed
  <2>2. /\ (At(q, "mirror_rename") => \A t \in Drafts(q, Name(q), proc[q].nonce) :
                                         t.data[Name(q)] = proc[q].held[Name(q)])'
        /\ (At(q, "bundle_rename") => \A t \in Scratch(q) : t.data = proc[q].held)'
    BY DEF Local, Hashed, At, Drafts, Scratch, Name, TempsSpared, Undisturbed
  <2> QED
    BY <2>1, <2>2 DEF Hashed
<1>5. HoldsLock(q)'
  BY DEF Local, HoldsLock, Locked, LockSpared, Undisturbed
<1>6. Doomed(q)'
  <2>1. CASE At(q, "quarantine")
    <3>1. lock = q /\ dir.file[Name(q)] = "bad" /\ proc[q].i <= Len(Files)
      BY <2>1 DEF Local, HoldsLock, Locked, Installing, Doomed, Station, At
    <3>2. Name(q) \in Names
      BY <1>1, <3>1, Members DEF Name, CallType
    <3> QED
      BY <3>1, <3>2 DEF LockSpared, Doomed, Name, Undisturbed
  <2> QED
    BY <2>1 DEF Doomed, At, Undisturbed
<1> QED
  BY <1>2, <1>3, <1>4, <1>5, <1>6 DEF Local

\* A step of p keeps the invariant when it does right by p and spares the rest.
LEMMA StepKeeps ==
    ASSUME NEW p \in Procs, IInv, NEW r \in CallType, proc' = [proc EXCEPT ![p] = r],
           SharedType', (bundle.ours => bundle.decl = bundle.data)', Local(p)', KeptStays,
           \A q \in Procs \ {p} : TempsSpared(q) /\ LockSpared(q)
    PROVE  IInv'
<1>1. \A q \in Procs \ {p} : Local(q)'
  <2>1. \A q \in Procs \ {p} : Undisturbed(q)
    BY DEF IInv, TypeOK, Undisturbed
  <2> QED
    BY <2>1, SparedLocal DEF IInv
<1>2. TypeOK'
  BY DEF IInv, TypeOK
<1> QED
  BY <1>1, <1>2 DEF IInv

\* Most steps touch only the process and, perhaps, give up the lock.
LEMMA QuietStep ==
    ASSUME NEW p \in Procs, IInv, NEW r \in CallType, proc' = [proc EXCEPT ![p] = r],
           UNCHANGED <<conf, dir, parts, mirror, bundle, drafts, rot, budget>>,
           lock' = lock \/ Release(p), Local(p)'
    PROVE  IInv' /\ KeptStays
<1>1. KeptStays
  BY DEF KeptStays, Kept
<1>2. SharedType'
  BY DEF IInv, TypeOK, SharedType, Release
<1>3. \A q \in Procs \ {p} : TempsSpared(q) /\ LockSpared(q)
  BY DEF TempsSpared, LockSpared, Release
<1>4. (bundle.ours => bundle.decl = bundle.data)'
  BY DEF IInv
<1> QED
  BY <1>1, <1>2, <1>3, <1>4, StepKeeps

\* What the record of an answered call is.
Answered(p, res) ==
  [Idle EXCEPT !.call = proc[p].call, !.pc = "done", !.res = res]

\* A call that ends with an error knows nothing.
LEMMA ErrorLocal ==
    ASSUME NEW p \in Procs, TypeOK,
           NEW res \in {"unverified", "io", "busy", "not_found", "network", "size", "hash",
                        "bundle_invalid", "alias_conflict"},
           proc' = [proc EXCEPT ![p] = Answered(p, res)]
    PROVE  Answered(p, res) \in CallType /\ Local(p)'
<1>1. Answered(p, res) \in CallType
  <2>1. proc[p].call \in {"none", "fetch", "verify", "load", "mirror", "export", "import"}
    BY DEF TypeOK, CallType
  <2>2. 1 \in 1..Len(Files) + 1
    BY Members
  <2> QED
    BY <2>1, <2>2, Tables DEF CallType, Answered, Idle
<1>2. /\ proc'[p].pc = "done" /\ proc'[p].res # "ok"
  BY DEF TypeOK, Answered, Idle
<1> QED
  BY <1>1, <1>2 DEF Local, Station, Knows, Hashed, At, HoldsLock, Doomed, Locked, Installing

\* Such an end keeps the invariant, when it leaves everything else alone.
LEMMA ErrorStep ==
    ASSUME NEW p \in Procs, IInv,
           NEW res \in {"unverified", "io", "busy", "not_found", "network", "size", "hash",
                        "bundle_invalid", "alias_conflict"},
           Answer(p, res), UNCHANGED <<conf, dir, parts, mirror, bundle, drafts, rot, budget>>
    PROVE  IInv' /\ KeptStays
<1>1. proc' = [proc EXCEPT ![p] = Answered(p, res)]
  BY DEF Answer, Answered
<1>2. Answered(p, res) \in CallType /\ Local(p)'
  BY <1>1, ErrorLocal DEF IInv
<1> QED
  BY <1>1, <1>2, QuietStep DEF Answer

-----------------------------------------------------------------------------
(* Verification. *)

LEMMA BeginStep ==
    ASSUME NEW p \in Procs, NEW c \in Calls, IInv, Begin(p, c)
    PROVE  IInv' /\ KeptStays
<1> DEFINE r == [Idle EXCEPT !.call = c,
                    !.pc = IF c = "import" THEN "manifest" ELSE "verify",
                    !.st = CASE c = "verify" -> "inspect"
                             [] c = "import" -> "inspect_bundle"
                             [] OTHER -> "first"]
<1>1. c \in {"fetch", "verify", "load", "mirror", "export", "import"}
  BY CallsAssumption
<1>2. /\ r \in CallType /\ r.i = 1 /\ Station(r) /\ ~Locked(r)
      /\ r.pc \in {"manifest", "verify"}
  <2>1. 1 \in 1..Len(Files) + 1
    BY Members
  <2> QED
    BY <1>1, <2>1, Tables, ZenonT(60) DEF Idle, CallType, Station, Ensuring, Installing, Locked
<1>3. proc' = [proc EXCEPT ![p] = r]
  BY DEF Begin
<1> HIDE DEF r
<1>4. Local(p)'
  <2>1. proc'[p] = r
    BY <1>3 DEF IInv, TypeOK
  <2> QED
    BY <1>2, <2>1 DEF Local, Station, Knows, Hashed, At, HoldsLock, Doomed, Locked
<1>5. SharedType' /\ KeptStays /\ (bundle.ours => bundle.decl = bundle.data)'
      /\ \A q \in Procs \ {p} : TempsSpared(q) /\ LockSpared(q)
  BY DEF Begin, IInv, TypeOK, SharedType, KeptStays, Kept, TempsSpared, LockSpared
<1> QED
  BY <1>2, <1>3, <1>4, <1>5, StepKeeps

LEMMA VerifyMemberStep ==
    ASSUME NEW p \in Procs, IInv, VerifyMember(p)
    PROVE  IInv' /\ KeptStays
<1> DEFINE r == [proc[p] EXCEPT !.i = @ + 1]
<1>1. proc[p] \in CallType /\ Local(p) /\ At(p, "verify") /\ proc[p].i <= Len(Files)
  BY DEF IInv, TypeOK, VerifyMember
<1>2. /\ r \in CallType /\ r.i = proc[p].i + 1 /\ r.pc = "verify"
      /\ r.st = proc[p].st /\ r.call = proc[p].call
  <2>1. proc[p].i + 1 \in 1..Len(Files) + 1
    BY <1>1, Members DEF CallType
  <2> QED
    BY <1>1, <2>1 DEF CallType, At
<1>3. proc' = [proc EXCEPT ![p] = r] /\ proc'[p] = r
  BY DEF VerifyMember, IInv, TypeOK
<1> HIDE DEF r
<1>4. Knows(proc[p])'
  <2>1. Kept(Files[proc[p].i])
    BY DEF VerifyMember, VerifyFile, Name, Kept
  <2>2. \A k \in 1..proc[p].i : Kept(Files[k])
    <3>1. \A k \in 1..(proc[p].i - 1) : Kept(Files[k])
      BY <1>1 DEF Local, Knows, At
    <3> QED
      BY <1>1, <2>1, <3>1 DEF CallType
  <2>3. \A k \in 1..(r.i - 1) : Kept(Files[k])'
    BY <1>1, <1>2, <2>2 DEF CallType, VerifyMember, Kept
  <2> QED
    BY <1>2, <1>3, <2>3 DEF Knows
<1>5. Local(p)'
  BY <1>1, <1>2, <1>3, <1>4 DEF Local, Station, Hashed, At, HoldsLock, Doomed, Locked, VerifyMember
<1> QED
  BY <1>2, <1>3, <1>5, QuietStep DEF VerifyMember

LEMMA VerifyFailsStep ==
    ASSUME NEW p \in Procs, IInv, VerifyFails(p)
    PROVE  IInv' /\ KeptStays
<1>1. proc[p] \in CallType /\ Local(p) /\ At(p, "verify")
  BY DEF IInv, TypeOK, VerifyFails
<1>2. CASE Answer(p, "unverified")
  BY <1>2, ErrorStep DEF VerifyFails
<1>3. ASSUME NEW pc \in {"prune", "gate"}, Go(p, pc), lock' = lock,
             proc[p].st = IF pc = "prune" THEN "first" ELSE "second"
      PROVE  IInv' /\ KeptStays
  <2> DEFINE r == [proc[p] EXCEPT !.pc = pc]
  <2>1. /\ r \in CallType /\ r.pc = pc /\ r.st = proc[p].st /\ r.call = proc[p].call
        /\ proc' = [proc EXCEPT ![p] = r] /\ proc'[p] = r
    BY <1>1, <1>3, ZenonT(30) DEF Go, CallType, IInv, TypeOK
  <2> HIDE DEF r
  <2>2. Local(p)'
    BY <1>1, <1>3, <2>1 DEF Local, Station, Knows, Hashed, At, HoldsLock, Doomed, Locked, Installing
  <2> QED
    BY <1>3, <2>1, <2>2, QuietStep DEF VerifyFails
<1> QED
  BY <1>2, <1>3 DEF VerifyFails

\* ensure returns with everything verified.
LEMMA AfterEnsureStep ==
    ASSUME NEW p \in Procs, TypeOK, proc[p].call \in Ensuring, AllKept', AfterEnsure(p)
    PROVE  /\ Local(p)'
           /\ \E r \in CallType : proc' = [proc EXCEPT ![p] = r]
<1> DEFINE next == CASE proc[p].call = "fetch" -> "verify"
                     [] proc[p].call = "load" -> "read"
                     [] proc[p].call = "mirror" -> "mirror_hash"
                     [] OTHER -> "collect"
           r == [proc[p] EXCEPT !.i = 1, !.pc = next, !.st = "inspect"]
<1>1. proc[p] \in CallType /\ 1 \in 1..Len(Files) + 1
  BY Members DEF TypeOK
<1>2. proc' = [proc EXCEPT ![p] = r] /\ proc'[p] = r
  BY DEF AfterEnsure, TypeOK
<1>3. next = IF proc[p].call = "fetch" THEN "verify"
             ELSE IF proc[p].call = "load" THEN "read"
             ELSE IF proc[p].call = "mirror" THEN "mirror_hash" ELSE "collect"
  OBVIOUS
<1>4. next \in {"verify", "read", "mirror_hash", "collect"}
  BY <1>3
<1> HIDE DEF next
<1>5. r \in CallType /\ r.i = 1 /\ r.st = "inspect" /\ r.call = proc[p].call /\ r.pc = next
  <2>1. r.i = 1 /\ r.st = "inspect" /\ r.call = proc[p].call /\ r.pc = next
    BY <1>1 DEF CallType
  <2>2. r \in CallType
    BY <1>1, <1>4, ZenonT(60) DEF CallType
  <2> QED
    BY <2>1, <2>2
<1> HIDE DEF r
<1>6. Local(p)'
  BY <1>5, <1>2, <1>3 DEF Local, Station, Knows, Hashed, At, HoldsLock, Doomed, Locked, Installing, Ensuring
<1> QED
  BY <1>5, <1>2, <1>6

LEMMA VerifyDoneStep ==
    ASSUME NEW p \in Procs, IInv, VerifyDone(p)
    PROVE  IInv' /\ KeptStays
<1>1. proc[p] \in CallType /\ Local(p) /\ At(p, "verify") /\ proc[p].i > Len(Files)
  BY DEF IInv, TypeOK, VerifyDone
<1>2. AllKept /\ AllKept'
  <2>1. AllKept
    BY <1>1, PrefixIsAll DEF CallType, Local, Knows, At
  <2> QED
    BY <2>1 DEF VerifyDone, AllKept, Kept
<1>3. CASE AfterEnsure(p) /\ proc[p].st \in {"first", "second"}
  <2>1. proc[p].call \in Ensuring
    BY <1>1, <1>3 DEF Local, Station, At
  <2>2. /\ Local(p)'
        /\ \E r \in CallType : proc' = [proc EXCEPT ![p] = r]
    BY <1>2, <1>3, <2>1, AfterEnsureStep DEF IInv
  <2> QED
    BY <1>3, <2>2, QuietStep DEF VerifyDone, AfterEnsure
<1>4. CASE Go(p, "marker") /\ lock' = lock /\ proc[p].st \in {"final", "imported"}
  <2> DEFINE r == [proc[p] EXCEPT !.pc = "marker"]
  <2>1. /\ r \in CallType /\ r.pc = "marker" /\ r.st = proc[p].st /\ r.call = proc[p].call
        /\ proc' = [proc EXCEPT ![p] = r] /\ proc'[p] = r
    BY <1>1, <1>4, ZenonT(30) DEF Go, CallType, IInv, TypeOK
  <2> HIDE DEF r
  <2>2. Local(p)'
    BY <1>1, <1>2, <1>4, <2>1
       DEF Local, Station, Knows, Hashed, At, HoldsLock, Doomed, Locked, Installing
  <2> QED
    BY <1>4, <2>1, <2>2, QuietStep DEF VerifyDone
<1>5. CASE Answer(p, "ok") /\ proc[p].st = "inspect"
  <2> DEFINE r == Answered(p, "ok")
  <2>1. proc[p].call \in {"fetch", "verify", "import"}
    BY <1>1, <1>5 DEF Local, Station, At
  <2>2. /\ proc' = [proc EXCEPT ![p] = r] /\ proc'[p] = r
    BY <1>5 DEF Answer, Answered, IInv, TypeOK
  <2>3. r \in CallType /\ r.pc = "done" /\ r.call = proc[p].call
    <3>1. 1 \in 1..Len(Files) + 1
      BY Members
    <3> QED
      BY <2>1, <3>1, Tables DEF CallType, Answered, Idle
  <2> HIDE DEF r
  <2>4. Local(p)'
    BY <1>2, <2>1, <2>2, <2>3 DEF Local, Station, Knows, Hashed, At, HoldsLock, Doomed, Locked, Installing
  <2> QED
    BY <1>5, <2>2, <2>3, <2>4, QuietStep DEF VerifyDone, Answer
<1> QED
  BY <1>1, <1>3, <1>4, <1>5 DEF VerifyDone, Local, Station, At

LEMMA ReadStep ==
    ASSUME NEW p \in Procs, IInv, Read(p)
    PROVE  IInv' /\ KeptStays
<1> DEFINE bytes == dir.file["tok"]
           res == IF VerifyFile(bytes) THEN "ok" ELSE "unverified"
           held == [Nothing EXCEPT !["tok"] = bytes]
           r == [Idle EXCEPT !.call = "load", !.pc = "done", !.res = res, !.held = held]
<1>1. bytes \in Whole /\ AllKept
  BY FilesAssumption DEF IInv, TypeOK, SharedType, Local, Knows, Read, At
<1>2. proc' = [proc EXCEPT ![p] = r] /\ proc'[p] = r
  BY DEF Read, IInv, TypeOK
<1>3. held \in [Names -> Whole] /\ held["tok"] = bytes
  BY <1>1, Tables, FilesAssumption
<1>4. res \in {"ok", "unverified"} /\ (res = "ok" => bytes = "good")
  BY DEF VerifyFile
<1> HIDE DEF bytes, res, held
<1>5. r.pc = "done" /\ r.res = res /\ r.held = held
  BY DEF Idle
<1>6. r \in CallType
  <2>1. 1 \in 1..Len(Files) + 1
    BY Members
  <2> QED
    BY <1>3, <1>4, <2>1, Tables DEF CallType, Idle
<1> HIDE DEF r
<1>7. Local(p)'
  <2>1. AllKept'
    BY <1>1 DEF Read, AllKept, Kept
  <2> QED
    BY <1>2, <1>3, <1>4, <1>5, <2>1 DEF Local, Station, Knows, Hashed, At, HoldsLock, Doomed, Locked, Installing
<1> QED
  BY <1>2, <1>6, <1>7, QuietStep DEF Read

-----------------------------------------------------------------------------
(* ensure: prune, lock, install. *)

\* Removing temporaries spares everybody.
LEMMA PartsRemoved ==
    ASSUME NEW p \in Procs, IInv, NEW gone, parts' = parts \ gone,
           NEW r \in CallType, proc' = [proc EXCEPT ![p] = r],
           UNCHANGED <<conf, dir, mirror, bundle, drafts, rot, budget>>,
           lock' = lock \/ Release(p), Local(p)'
    PROVE  IInv' /\ KeptStays
<1>1. KeptStays
  BY DEF KeptStays, Kept
<1>2. SharedType'
  BY DEF IInv, TypeOK, SharedType, Release
<1>3. \A q \in Procs \ {p} : TempsSpared(q) /\ LockSpared(q)
  BY DEF TempsSpared, LockSpared, Release
<1>4. (bundle.ours => bundle.decl = bundle.data)'
  BY DEF IInv
<1> QED
  BY <1>1, <1>2, <1>3, <1>4, StepKeeps

\* An error that removes the temporary keeps the invariant.
LEMMA CleanedStep ==
    ASSUME NEW p \in Procs, IInv, NEW res \in {"io", "network", "size", "hash", "not_found"},
           AnswerCleaned(p, res), UNCHANGED <<conf, dir, mirror, bundle, drafts, rot, budget>>
    PROVE  IInv' /\ KeptStays
<1>1. proc' = [proc EXCEPT ![p] = Answered(p, res)]
  BY DEF AnswerCleaned, Answer, Answered
<1>2. Answered(p, res) \in CallType /\ Local(p)'
  BY <1>1, ErrorLocal DEF IInv
<1> QED
  BY <1>1, <1>2, PartsRemoved DEF AnswerCleaned, Answer

LEMMA ListPartsStep ==
    ASSUME NEW p \in Procs, IInv, ListParts(p)
    PROVE  IInv' /\ KeptStays
<1> DEFINE list == {<<t.pid, t.name, t.nonce>> : t \in parts}
           r == [proc[p] EXCEPT !.pc = "pruning", !.list = list]
<1>1. proc[p] \in CallType /\ Local(p) /\ At(p, "prune")
  BY DEF IInv, TypeOK, ListParts
<1>2. proc' = [proc EXCEPT ![p] = r] /\ proc'[p] = r
  BY DEF ListParts, IInv, TypeOK
<1>3. list \in SUBSET (Procs \X (Names \cup {Marker}) \X Nat)
  BY DEF IInv, TypeOK, SharedType, PartType
<1> HIDE DEF list
<1>4. r.pc = "pruning" /\ r.call = proc[p].call
  BY <1>1 DEF CallType
<1>5. r \in CallType
  BY <1>1, <1>3 DEF CallType
<1> HIDE DEF r
<1>6. Local(p)'
  BY <1>1, <1>2, <1>4 DEF Local, Station, Knows, Hashed, At, HoldsLock, Doomed, Locked, Installing
<1> QED
  BY <1>2, <1>5, <1>6, QuietStep DEF ListParts

LEMMA PruneOneStep ==
    ASSUME NEW p \in Procs, IInv, PruneOne(p)
    PROVE  IInv' /\ KeptStays
<1>1. proc[p] \in CallType /\ Local(p) /\ At(p, "pruning")
  BY DEF IInv, TypeOK, PruneOne
<1>2. PICK path \in proc[p].list :
        LET found == Mine(path[1], path[2], path[3]) IN
        \/ /\ parts' = parts \ {t \in found : t.old}
           /\ proc' = [proc EXCEPT ![p].list = @ \ {path}]
           /\ lock' = lock
        \/ Answer(p, "io") /\ parts' = parts
  BY DEF PruneOne
<1>3. CASE Answer(p, "io") /\ parts' = parts
  BY <1>3, ErrorStep DEF PruneOne
<1>4. ASSUME NEW gone, parts' = parts \ gone, lock' = lock,
             proc' = [proc EXCEPT ![p].list = @ \ {path}]
      PROVE  IInv' /\ KeptStays
  <2> DEFINE r == [proc[p] EXCEPT !.list = @ \ {path}]
  <2>1. proc' = [proc EXCEPT ![p] = r] /\ proc'[p] = r
    BY <1>4 DEF IInv, TypeOK
  <2>2. r.pc = "pruning" /\ r.call = proc[p].call
    BY <1>1 DEF CallType, At
  <2>3. r \in CallType
    BY <1>1 DEF CallType
  <2> HIDE DEF r
  <2>4. Local(p)'
    BY <1>1, <2>1, <2>2 DEF Local, Station, Knows, Hashed, At, HoldsLock, Doomed, Locked, Installing
  <2> QED
    BY <1>4, <2>1, <2>3, <2>4, PartsRemoved DEF PruneOne
<1> QED
  BY <1>2, <1>3, <1>4

LEMMA LockFamilyStep ==
    ASSUME NEW p \in Procs, IInv, LockFamily(p)
    PROVE  IInv' /\ KeptStays
<1>1. proc[p] \in CallType /\ Local(p) /\ At(p, "pruning")
  BY DEF IInv, TypeOK, LockFamily
<1>2. CASE Answer(p, "busy")
  BY <1>2, ErrorStep DEF LockFamily
<1>3. CASE lock = NoProc /\ lock' = p
           /\ proc' = [proc EXCEPT ![p].pc = "verify", ![p].st = "second", ![p].i = 1]
  <2> DEFINE r == [proc[p] EXCEPT !.pc = "verify", !.st = "second", !.i = 1]
  <2>1. proc' = [proc EXCEPT ![p] = r] /\ proc'[p] = r
    BY <1>3 DEF IInv, TypeOK
  <2>2. r.pc = "verify" /\ r.st = "second" /\ r.i = 1 /\ r.call = proc[p].call
    BY <1>1 DEF CallType
  <2>3. r \in CallType
    <3>1. 1 \in 1..Len(Files) + 1
      BY Members
    <3> QED
      BY <1>1, <3>1, ZenonT(30) DEF CallType
  <2> HIDE DEF r
  <2>4. Local(p)'
    <3>1. Knows(proc[p])'
      BY <2>1, <2>2 DEF Knows
    <3>2. Station(proc[p])' /\ HoldsLock(p)'
      BY <1>1, <1>3, <2>1, <2>2 DEF Local, Station, At, HoldsLock, Installing
    <3> QED
      BY <2>1, <2>2, <3>1, <3>2 DEF Local, Hashed, Doomed, At
  <2>5. SharedType' /\ KeptStays /\ (bundle.ours => bundle.decl = bundle.data)'
        /\ \A q \in Procs \ {p} : TempsSpared(q)
    BY <1>3 DEF LockFamily, IInv, TypeOK, SharedType, KeptStays, Kept, TempsSpared
  <2>6. \A q \in Procs \ {p} : LockSpared(q)
    BY <1>3, FilesAssumption DEF LockSpared
  <2> QED
    BY <2>1, <2>3, <2>4, <2>5, <2>6, StepKeeps
<1> QED
  BY <1>2, <1>3 DEF LockFamily, LockFree

\* A step of the lock's holder that only moves it.
LEMMA MovedStep ==
    ASSUME NEW p \in Procs, IInv, NEW r \in CallType, proc' = [proc EXCEPT ![p] = r],
           UNCHANGED <<conf, dir, parts, lock, mirror, bundle, drafts, rot, budget>>,
           Station(r), Knows(r), Locked(r) => Locked(proc[p]), Calm(r)
    PROVE  IInv' /\ KeptStays
<1>1. proc'[p] = r
  BY DEF IInv, TypeOK
<1>2. Knows(proc[p])'
  BY <1>1 DEF Knows, AllKept, Kept
<1>3. Local(p)'
  BY <1>1, <1>2 DEF IInv, Local, Station, Hashed, At, HoldsLock, Doomed, Calm, Locked, Installing
<1> QED
  BY <1>3, QuietStep

LEMMA GateStep ==
    ASSUME NEW p \in Procs, IInv, Gate(p)
    PROVE  IInv' /\ KeptStays
<1>1. proc[p] \in CallType /\ Local(p) /\ At(p, "gate")
  BY DEF IInv, TypeOK, Gate
<1>2. CASE Answer(p, "not_found") /\ dir' = dir
  BY <1>2, ErrorStep DEF Gate
<1>3. CASE /\ dir' = [dir EXCEPT !.made = TRUE]
           /\ proc' = [proc EXCEPT ![p].pc = "install", ![p].i = 1]
           /\ lock' = lock
  <2> DEFINE r == [proc[p] EXCEPT !.pc = "install", !.i = 1]
  <2>1. proc' = [proc EXCEPT ![p] = r] /\ proc'[p] = r
    BY <1>3 DEF IInv, TypeOK
  <2>2. r.pc = "install" /\ r.st = proc[p].st /\ r.call = proc[p].call
    BY <1>1 DEF CallType
  <2>3. r \in CallType
    <3>1. 1 \in 1..Len(Files) + 1
      BY Members
    <3> QED
      BY <1>1, <3>1 DEF CallType
  <2> HIDE DEF r
  <2>4. Local(p)'
    BY <1>1, <1>3, <2>1, <2>2 DEF Local, Station, Knows, Hashed, At, HoldsLock, Doomed, Locked, Installing
  <2>5. SharedType' /\ dir'.file = dir.file
    BY <1>3 DEF Gate, IInv, TypeOK, SharedType
  <2>6. KeptStays /\ (bundle.ours => bundle.decl = bundle.data)'
        /\ \A q \in Procs \ {p} : TempsSpared(q) /\ LockSpared(q)
    BY <1>3, <2>5 DEF Gate, IInv, KeptStays, Kept, TempsSpared, LockSpared
  <2> QED
    BY <2>1, <2>3, <2>4, <2>5, <2>6, StepKeeps
<1> QED
  BY <1>2, <1>3 DEF Gate

LEMMA SkipStep ==
    ASSUME NEW p \in Procs, IInv, Skip(p)
    PROVE  IInv' /\ KeptStays
<1> DEFINE r == [proc[p] EXCEPT !.i = @ + 1]
<1>1. proc[p] \in CallType /\ Local(p) /\ At(p, "install") /\ proc[p].i <= Len(Files)
  BY DEF IInv, TypeOK, Skip
<1>2. proc' = [proc EXCEPT ![p] = r]
  BY DEF Skip, IInv, TypeOK
<1>3. r.pc = "install" /\ r.st = proc[p].st /\ r.call = proc[p].call
  BY <1>1 DEF CallType, At
<1>4. r \in CallType
  <2>1. proc[p].i + 1 \in 1..Len(Files) + 1
    BY <1>1, Members DEF CallType
  <2> QED
    BY <1>1, <2>1 DEF CallType
<1> HIDE DEF r
<1>5. Station(r) /\ Knows(r) /\ Locked(proc[p]) /\ Calm(r)
  BY <1>1, <1>3 DEF Local, Station, Knows, At, Locked, Installing, Calm
<1> QED
  BY <1>2, <1>3, <1>4, <1>5, MovedStep DEF Skip

\* What is found wanting under the lock is remembered as such.
LEMMA DoubtStep ==
    ASSUME NEW p \in Procs, IInv, Doubt(p)
    PROVE  IInv' /\ KeptStays
<1> DEFINE r == [proc[p] EXCEPT !.pc = "quarantine"]
<1>1. proc[p] \in CallType /\ Local(p) /\ At(p, "install") /\ proc[p].i <= Len(Files)
  BY DEF IInv, TypeOK, Doubt
<1>2. proc' = [proc EXCEPT ![p] = r] /\ proc'[p] = r
  BY DEF Doubt, Go, IInv, TypeOK
<1>3. /\ r.pc = "quarantine" /\ r.st = proc[p].st /\ r.call = proc[p].call /\ r.i = proc[p].i
      /\ r \in CallType
  BY <1>1 DEF CallType
<1> HIDE DEF r
<1>4. Doomed(p)'
  <2>1. Name(p) \in Names
    BY <1>1, Members DEF Name, CallType
  <2>2. dir.file[Name(p)] = "bad"
    BY <2>1 DEF Doubt, Present, VerifyFile, IInv, TypeOK, SharedType, Whole
  <2>3. Name(p)' = Name(p)
    BY <1>2, <1>3 DEF Name
  <2> QED
    BY <2>2, <2>3 DEF Doomed, Doubt
<1>5. Local(p)'
  BY <1>1, <1>2, <1>3, <1>4
     DEF Local, Station, Knows, Hashed, At, HoldsLock, Locked, Installing, Doubt
<1> QED
  BY <1>2, <1>3, <1>5, QuietStep DEF Doubt

\* What is moved out of the way did not verify, and nobody repaired it since:
\* that takes the lock, which is the mover's.
LEMMA QuarantineStep ==
    ASSUME NEW p \in Procs, IInv, Quarantine(p)
    PROVE  IInv' /\ KeptStays
<1>1. /\ proc[p] \in CallType /\ Local(p) /\ At(p, "quarantine") /\ proc[p].i <= Len(Files)
      /\ lock = p /\ dir.file[Name(p)] = "bad"
  BY DEF IInv, TypeOK, Quarantine, Local, Station, At, HoldsLock, Locked, Installing, Doomed
<1>2. Name(p) \in Names
  BY <1>1, Members DEF Name, CallType
<1>3. dir' = [dir EXCEPT !.file[Name(p)] = "none"] /\ Go(p, "allocate") /\ lock' = lock
  BY <1>1 DEF Quarantine, Present
<1> DEFINE r == [proc[p] EXCEPT !.pc = "allocate"]
<1>4. proc' = [proc EXCEPT ![p] = r] /\ proc'[p] = r
  BY <1>3 DEF Go, IInv, TypeOK
<1>5. /\ r.pc = "allocate" /\ r.st = proc[p].st /\ r.call = proc[p].call /\ r.i = proc[p].i
      /\ r \in CallType
  BY <1>1 DEF CallType
<1> HIDE DEF r
<1>6. SharedType' /\ dir'.file = [dir.file EXCEPT ![Name(p)] = "none"]
  BY <1>2, <1>3 DEF Quarantine, IInv, TypeOK, SharedType, Whole
<1>7. KeptStays
  BY <1>1, <1>6 DEF Quarantine, KeptStays, Kept, IInv, TypeOK, SharedType
<1>8. \A q \in Procs \ {p} : TempsSpared(q) /\ LockSpared(q)
  BY <1>1 DEF Quarantine, TempsSpared, LockSpared
<1>9. Local(p)'
  BY <1>1, <1>3, <1>4, <1>5
     DEF Local, Station, Knows, Hashed, At, HoldsLock, Doomed, Locked, Installing
<1> QED
  BY <1>4, <1>5, <1>6, <1>7, <1>8, <1>9, StepKeeps DEF Quarantine, IInv

LEMMA AllocateStep ==
    ASSUME NEW p \in Procs, IInv, Allocate(p)
    PROVE  IInv' /\ KeptStays
<1>1. /\ proc[p] \in CallType /\ Local(p) /\ proc[p].pc \in {"install", "allocate"}
      /\ proc[p].i <= Len(Files)
  BY DEF IInv, TypeOK, Allocate, At, Local, Station
<1>2. CASE Answer(p, "io")
  BY <1>2, ErrorStep DEF Allocate
<1>3. CASE Answer(p, "busy")
  BY <1>3, ErrorStep DEF Allocate
<1>4. CASE /\ FreeNonces(p, Name(p)) # {}
           /\ proc' = [proc EXCEPT ![p].pc = "open", ![p].try = 0,
                                   ![p].nonce = UniqueTemporary(FreeNonces(p, Name(p)))]
           /\ lock' = lock
  <2> DEFINE k == UniqueTemporary(FreeNonces(p, Name(p)))
             r == [proc[p] EXCEPT !.pc = "open", !.try = 0, !.nonce = k]
  <2>1. proc' = [proc EXCEPT ![p] = r]
    BY <1>4 DEF IInv, TypeOK
  <2>2. k \in Nat
    BY <1>4, UniqueIsFree, FreeAreNat
  <2> HIDE DEF k
  <2>3. r.pc = "open" /\ r.st = proc[p].st /\ r.call = proc[p].call /\ r.i = proc[p].i
    BY <1>1 DEF CallType
  <2>4. r \in CallType
    BY <1>1, <2>2 DEF CallType
  <2> HIDE DEF r
  <2>5. Station(r) /\ Knows(r) /\ Locked(proc[p]) /\ Calm(r)
    BY <1>1, <2>3 DEF Local, Station, Knows, At, Locked, Installing, Calm
  <2> QED
    BY <1>4, <2>1, <2>3, <2>4, <2>5, MovedStep DEF Allocate
<1> QED
  BY <1>2, <1>3, <1>4 DEF Allocate

LEMMA InstallDoneStep ==
    ASSUME NEW p \in Procs, IInv, InstallDone(p)
    PROVE  IInv' /\ KeptStays
<1> DEFINE r == [proc[p] EXCEPT !.pc = "verify", !.st = "final", !.i = 1]
<1>1. proc[p] \in CallType /\ Local(p) /\ At(p, "install")
  BY DEF IInv, TypeOK, InstallDone
<1>2. proc' = [proc EXCEPT ![p] = r]
  BY DEF InstallDone, IInv, TypeOK
<1>3. r.pc = "verify" /\ r.st = "final" /\ r.call = proc[p].call /\ r.i = 1
  BY <1>1 DEF CallType
<1>4. r \in CallType
  <2>1. 1 \in 1..Len(Files) + 1
    BY Members
  <2> QED
    BY <1>1, <2>1, ZenonT(30) DEF CallType
<1> HIDE DEF r
<1>5. Station(r) /\ Locked(proc[p])
  BY <1>1, <1>3 DEF Local, Station, At, Locked, Installing
<1>6. Knows(r) /\ Calm(r)
  BY <1>3 DEF Knows, Calm
<1> QED
  BY <1>2, <1>3, <1>4, <1>5, <1>6, MovedStep DEF InstallDone

\* A transport error: another attempt, or the end.
LEMMA RetryStep ==
    ASSUME NEW p \in Procs, IInv, At(p, "open") \/ At(p, "stream"), RetryOrFail(p),
           UNCHANGED <<conf, dir, mirror, bundle, drafts, rot, budget>>
    PROVE  IInv' /\ KeptStays
<1>1. proc[p] \in CallType /\ Local(p)
  BY DEF IInv, TypeOK
<1>2. CASE AnswerCleaned(p, "network")
  BY <1>2, CleanedStep
<1>3. CASE /\ proc' = [proc EXCEPT ![p].pc = "open", ![p].try = @ + 1]
           /\ UNCHANGED <<parts, lock>>
  <2> DEFINE r == [proc[p] EXCEPT !.pc = "open", !.try = @ + 1]
  <2>1. proc' = [proc EXCEPT ![p] = r]
    BY <1>3 DEF IInv, TypeOK
  <2>2. r.pc = "open" /\ r.st = proc[p].st /\ r.call = proc[p].call /\ r.i = proc[p].i
    BY <1>1 DEF CallType
  <2>3. r \in CallType
    <3>1. proc[p].try + 1 \in Nat
      BY <1>1 DEF CallType
    <3> QED
      BY <1>1, <3>1 DEF CallType
  <2> HIDE DEF r
  <2>4. Station(r) /\ Knows(r) /\ Locked(proc[p]) /\ Calm(r)
    BY <1>1, <2>2 DEF Local, Station, Knows, At, Locked, Installing, Calm
  <2> QED
    BY <1>3, <2>1, <2>2, <2>3, <2>4, MovedStep
<1> QED
  BY <1>2, <1>3 DEF RetryOrFail

\* A step that writes only the process's own temporaries.
LEMMA OwnTempStep ==
    ASSUME NEW p \in Procs, IInv, NEW r \in CallType, proc' = [proc EXCEPT ![p] = r],
           UNCHANGED <<conf, dir, lock, mirror, bundle, drafts, rot, budget>>,
           parts' \in SUBSET PartType, \A t \in parts' : t.pid # p => t \in parts,
           Station(r), Knows(r), Locked(r) => Locked(proc[p]),
           r.pc \notin {"mirror_rename", "bundle_rename", "quarantine"},
           r.pc = "rename" =>
             \A t \in parts' : t.pid = p /\ t.name = Files[r.i] /\ t.nonce = r.nonce => t.bytes = "good"
    PROVE  IInv' /\ KeptStays
<1>1. proc'[p] = r
  BY DEF IInv, TypeOK
<1>2. KeptStays
  BY DEF KeptStays, Kept
<1>3. SharedType' /\ (bundle.ours => bundle.decl = bundle.data)'
      /\ \A q \in Procs \ {p} : TempsSpared(q) /\ LockSpared(q)
  BY DEF IInv, TypeOK, SharedType, TempsSpared, LockSpared
<1>4. Knows(proc[p])'
  BY <1>1 DEF Knows, AllKept, Kept
<1>5. Hashed(p)'
  BY <1>1 DEF Hashed, At, Mine, Name
<1>6. Local(p)'
  BY <1>1, <1>4, <1>5 DEF IInv, Local, Station, At, HoldsLock, Doomed, Locked, Installing
<1> QED
  BY <1>2, <1>3, <1>6, StepKeeps

LEMMA OpenStep ==
    ASSUME NEW p \in Procs, IInv, Open(p)
    PROVE  IInv' /\ KeptStays
<1>1. proc[p] \in CallType /\ Local(p) /\ At(p, "open")
  BY DEF IInv, TypeOK, Open
<1>2. CASE RetryOrFail(p)
  BY <1>1, <1>2, RetryStep DEF Open
<1>3. CASE AnswerCleaned(p, "size") \/ AnswerCleaned(p, "not_found")
  BY <1>3, CleanedStep DEF Open
<1>4. CASE /\ parts' = (parts \ Mine(p, Name(p), proc[p].nonce))
                         \cup {Part(p, Name(p), proc[p].nonce, "part")}
           /\ proc' = [proc EXCEPT ![p].pc = "stream", ![p].file = mirror[Name(p)]]
           /\ lock' = lock
  <2> DEFINE file == mirror[Name(p)]
             r == [proc[p] EXCEPT !.pc = "stream", !.file = file]
  <2>1. proc' = [proc EXCEPT ![p] = r]
    BY <1>4 DEF IInv, TypeOK
  <2>9. Name(p) \in Names
    BY <1>1, Members DEF Local, Station, At, Name, CallType
  <2>8. file \in Whole
    BY <2>9 DEF IInv, TypeOK, SharedType
  <2> HIDE DEF file
  <2>2. r.pc = "stream" /\ r.st = proc[p].st /\ r.call = proc[p].call /\ r.i = proc[p].i
    BY <1>1 DEF CallType
  <2>3. r \in CallType
    BY <1>1, <2>8 DEF CallType
  <2> HIDE DEF r
  <2>4. Station(r) /\ Knows(r) /\ Locked(proc[p])
    BY <1>1, <2>2 DEF Local, Station, Knows, At, Locked, Installing
  <2>5. Name(p) \in Names
    BY <2>9
  <2>6. /\ Part(p, Name(p), proc[p].nonce, "part") \in PartType
        /\ Part(p, Name(p), proc[p].nonce, "part").pid = p
    BY <1>1, <2>5 DEF Part, PartType, CallType
  <2>7. parts' \in SUBSET PartType /\ \A t \in parts' : t.pid # p => t \in parts
    BY <1>4, <2>6 DEF IInv, TypeOK, SharedType
  <2> QED
    BY <1>4, <2>1, <2>2, <2>3, <2>4, <2>7, OwnTempStep DEF Open
<1> QED
  BY <1>2, <1>3, <1>4 DEF Open

\* What arrived was hashed as it was written.
LEMMA StreamStep ==
    ASSUME NEW p \in Procs, IInv, Stream(p)
    PROVE  IInv' /\ KeptStays
<1>1. proc[p] \in CallType /\ Local(p) /\ At(p, "stream")
  BY DEF IInv, TypeOK, Stream
<1>2. CASE RetryOrFail(p)
  BY <1>1, <1>2, RetryStep DEF Stream
<1>3. CASE AnswerCleaned(p, "hash")
  BY <1>3, CleanedStep DEF Stream
<1>4. CASE /\ parts' = {IF t \in Mine(p, Name(p), proc[p].nonce)
                          THEN [t EXCEPT !.bytes = "good", !.old = FALSE] ELSE t : t \in parts}
           /\ Go(p, "rename") /\ lock' = lock
  <2> DEFINE r == [proc[p] EXCEPT !.pc = "rename"]
  <2>1. proc' = [proc EXCEPT ![p] = r]
    BY <1>4 DEF Go, IInv, TypeOK
  <2>2. /\ r.pc = "rename" /\ r.st = proc[p].st /\ r.call = proc[p].call /\ r.i = proc[p].i
        /\ r.nonce = proc[p].nonce
    BY <1>1 DEF CallType
  <2>3. r \in CallType
    BY <1>1 DEF CallType
  <2> HIDE DEF r
  <2>4. Station(r) /\ Knows(r) /\ Locked(proc[p])
    BY <1>1, <2>2 DEF Local, Station, Knows, At, Locked, Installing
  <2>5. ASSUME NEW t \in parts
        PROVE  LET t2 == [t EXCEPT !.bytes = "good", !.old = FALSE] IN
               /\ t2 \in PartType /\ t2.bytes = "good"
               /\ t2.pid = t.pid /\ t2.name = t.name /\ t2.nonce = t.nonce
    <3>1. t \in PartType
      BY DEF IInv, TypeOK, SharedType
    <3> QED
      BY <3>1 DEF PartType
  <2>6. parts' \in SUBSET PartType
    <3>1. parts \subseteq PartType
      BY DEF IInv, TypeOK, SharedType
    <3> QED
      BY <1>4, <2>5, <3>1
  <2>7. \A t \in parts' : t.pid # p => t \in parts
    BY <1>4, <2>5 DEF Mine
  <2>8. \A t \in parts' : t.pid = p /\ t.name = Files[r.i] /\ t.nonce = r.nonce => t.bytes = "good"
    BY <1>4, <2>2, <2>5, ZenonT(30) DEF Mine, Name
  <2> QED
    BY <1>4, <2>1, <2>2, <2>3, <2>4, <2>6, <2>7, <2>8, OwnTempStep DEF Stream
<1> QED
  BY <1>2, <1>3, <1>4 DEF Stream

\* What is renamed into place is what was hashed, whoever pruned meanwhile.
LEMMA RenameStep ==
    ASSUME NEW p \in Procs, IInv, Rename(p)
    PROVE  IInv' /\ KeptStays
<1> DEFINE n == Name(p)
           mine == Mine(p, n, proc[p].nonce)
<1>1. /\ proc[p] \in CallType /\ Local(p) /\ At(p, "rename") /\ proc[p].i <= Len(Files)
  BY DEF IInv, TypeOK, Rename, Local, Station, At
<1>2. n \in Names
  BY <1>1, Members DEF Name, CallType
<1>3. CASE AnswerCleaned(p, "io") /\ UNCHANGED <<dir, rot>>
  BY <1>3, CleanedStep DEF Rename
<1>4. ASSUME NEW t \in mine, dir' = [dir EXCEPT !.file[n] = t.bytes],
             rot' = rot \ {n}, parts' = parts \ mine, lock' = lock,
             proc' = [proc EXCEPT ![p].pc = "install", ![p].i = @ + 1]
      PROVE  IInv' /\ KeptStays
  <2> DEFINE r == [proc[p] EXCEPT !.pc = "install", !.i = @ + 1]
  <2>1. proc' = [proc EXCEPT ![p] = r] /\ proc'[p] = r
    BY <1>4 DEF IInv, TypeOK
  <2>2. r.pc = "install" /\ r.st = proc[p].st /\ r.call = proc[p].call
    BY <1>1 DEF CallType
  <2>3. r \in CallType
    <3>1. proc[p].i + 1 \in 1..Len(Files) + 1
      BY <1>1, Members DEF CallType
    <3> QED
      BY <1>1, <3>1 DEF CallType
  <2> HIDE DEF r
  <2>4. t.bytes = "good"
    BY <1>1 DEF Local, Hashed
  <2> HIDE DEF mine, n
  <2>5. /\ dir' \in [made : BOOLEAN, file : [Names -> Whole], runtime : BOOLEAN, marker : BOOLEAN]
        /\ dir'.file = [dir.file EXCEPT ![n] = "good"]
    BY <1>2, <1>4, <2>4 DEF IInv, TypeOK, SharedType, Whole
  <2>6. KeptStays
    BY <1>2, <1>4, <2>5 DEF KeptStays, Kept, IInv, TypeOK, SharedType
  <2>7. SharedType' /\ (bundle.ours => bundle.decl = bundle.data)'
        /\ \A q \in Procs \ {p} : TempsSpared(q) /\ LockSpared(q)
    <3>1. lock = p
      BY <1>1 DEF Local, HoldsLock, Locked, Installing, At
    <3>2. \A q \in Procs \ {p} : TempsSpared(q) /\ LockSpared(q)
      BY <1>4, <3>1 DEF Rename, TempsSpared, LockSpared
    <3> QED
      BY <1>4, <2>5, <3>2 DEF Rename, IInv, TypeOK, SharedType
  <2>8. Local(p)'
    BY <1>1, <1>4, <2>1, <2>2 DEF Local, Station, Knows, Hashed, At, HoldsLock, Doomed, Locked, Installing
  <2> QED
    BY <2>1, <2>3, <2>6, <2>7, <2>8, StepKeeps
<1> QED
  BY <1>3, <1>4 DEF Rename

LEMMA MarkerTempStep ==
    ASSUME NEW p \in Procs, IInv, MarkerTemp(p)
    PROVE  IInv' /\ KeptStays
<1>1. proc[p] \in CallType /\ Local(p) /\ At(p, "marker")
  BY DEF IInv, TypeOK, MarkerTemp
<1>2. CASE Answer(p, "busy") /\ parts' = parts
  BY <1>2, ErrorStep DEF MarkerTemp
<1>3. CASE FreeNonces(p, Marker) # {}
  <2> DEFINE k == UniqueTemporary(FreeNonces(p, Marker))
             r == [proc[p] EXCEPT !.pc = "marked", !.nonce = k]
  <2>1. parts' = parts \cup {Part(p, Marker, k, "good")} /\ lock' = lock
    BY <1>3 DEF MarkerTemp
  <2>2. proc' = [proc EXCEPT ![p] = r]
    BY <1>3 DEF MarkerTemp, IInv, TypeOK
  <2>3. k \in Nat
    BY <1>3, UniqueIsFree, FreeAreNat
  <2> HIDE DEF k
  <2>4. r.pc = "marked" /\ r.st = proc[p].st /\ r.call = proc[p].call
    BY <1>1 DEF CallType
  <2>5. r \in CallType
    BY <1>1, <2>3 DEF CallType
  <2> HIDE DEF r
  <2>6. Station(r) /\ Knows(r) /\ (Locked(r) => Locked(proc[p]))
    BY <1>1, <2>4 DEF Local, Station, Knows, At, Locked, Installing
  <2>7. Part(p, Marker, k, "good") \in PartType /\ Part(p, Marker, k, "good").pid = p
    BY <2>3 DEF Part, PartType
  <2>8. parts' \in SUBSET PartType /\ \A t \in parts' : t.pid # p => t \in parts
    BY <2>1, <2>7 DEF IInv, TypeOK, SharedType
  <2> QED
    BY <2>1, <2>2, <2>4, <2>5, <2>6, <2>8, OwnTempStep DEF MarkerTemp
<1> QED
  BY <1>2, <1>3 DEF MarkerTemp

LEMMA MarkerRenameStep ==
    ASSUME NEW p \in Procs, IInv, MarkerRename(p)
    PROVE  IInv' /\ KeptStays
<1>1. proc[p] \in CallType /\ Local(p) /\ At(p, "marked")
  BY DEF IInv, TypeOK, MarkerRename
<1>2. CASE Answer(p, "io") /\ UNCHANGED <<dir, parts>>
  BY <1>2, ErrorStep DEF MarkerRename
<1>3. ASSUME NEW gone, parts' = parts \ gone, dir' = [dir EXCEPT !.marker = TRUE],
             NEW r \in CallType, proc' = [proc EXCEPT ![p] = r],
             lock' = lock \/ Release(p), AllKept' => Local(p)'
      PROVE  IInv' /\ KeptStays
  <2>1. /\ dir' \in [made : BOOLEAN, file : [Names -> Whole], runtime : BOOLEAN, marker : BOOLEAN]
        /\ dir'.file = dir.file /\ rot' = rot
    BY <1>3 DEF MarkerRename, IInv, TypeOK, SharedType
  <2>2. KeptStays
    BY <2>1 DEF KeptStays, Kept
  <2>3. AllKept'
    BY <1>1, <2>2 DEF Local, Knows, At, KeptStays, AllKept
  <2>4. SharedType' /\ (bundle.ours => bundle.decl = bundle.data)'
        /\ \A q \in Procs \ {p} : TempsSpared(q) /\ LockSpared(q)
    BY <1>3, <2>1 DEF MarkerRename, IInv, TypeOK, SharedType, TempsSpared, LockSpared, Release
  <2> QED
    BY <1>3, <2>2, <2>3, <2>4, StepKeeps
<1>4. CASE /\ parts' = parts \ Mine(p, Marker, proc[p].nonce)
           /\ dir' = [dir EXCEPT !.marker = TRUE]
           /\ IF proc[p].st = "imported"
                THEN /\ proc' = [proc EXCEPT ![p].pc = "verify", ![p].st = "inspect",
                                             ![p].i = 1]
                     /\ lock' = lock
                ELSE AfterEnsure(p)
  <2>1. CASE proc[p].st = "imported"
    <3> DEFINE r == [proc[p] EXCEPT !.pc = "verify", !.st = "inspect", !.i = 1]
    <3>1. proc' = [proc EXCEPT ![p] = r] /\ proc'[p] = r /\ lock' = lock
      BY <1>4, <2>1 DEF IInv, TypeOK
    <3>2. r.pc = "verify" /\ r.st = "inspect" /\ r.i = 1 /\ r.call = proc[p].call
      BY <1>1 DEF CallType
    <3>3. r \in CallType
      <4>1. 1 \in 1..Len(Files) + 1
        BY Members
      <4> QED
        BY <1>1, <4>1, ZenonT(30) DEF CallType
    <3> HIDE DEF r
    <3>4. Local(p)'
      <4>1. Knows(proc[p])'
        BY <3>1, <3>2 DEF Knows
      <4>2. Station(proc[p])' /\ HoldsLock(p)'
        BY <1>1, <2>1, <3>1, <3>2 DEF Local, Station, At, HoldsLock, Doomed, Locked, Installing, Ensuring
      <4> QED
        BY <3>1, <3>2, <4>1, <4>2 DEF Local, Hashed, Doomed, At
    <3> QED
      BY <1>3, <1>4, <3>1, <3>3, <3>4
  <2>2. CASE AfterEnsure(p) /\ proc[p].st # "imported"
    <3>1. proc[p].call \in Ensuring
      BY <1>1, <2>2 DEF Local, Station, At
    <3>2. AllKept'
      <4>1. AllKept
        BY <1>1 DEF Local, Knows, At
      <4>2. dir'.file = dir.file /\ rot' = rot
        BY <1>4 DEF MarkerRename, IInv, TypeOK, SharedType
      <4> QED
        BY <4>1, <4>2 DEF AllKept, Kept
    <3>3. /\ Local(p)'
          /\ \E r \in CallType : proc' = [proc EXCEPT ![p] = r]
      BY <2>2, <3>1, <3>2, AfterEnsureStep DEF IInv
    <3> QED
      BY <1>3, <1>4, <2>2, <3>3 DEF AfterEnsure
  <2> QED
    BY <1>4, <2>1, <2>2
<1> QED
  BY <1>2, <1>4 DEF MarkerRename

-----------------------------------------------------------------------------
(* mirror, export and import. *)

\* A call that answers ok after its directory was verified.
LEMMA OkStep ==
    ASSUME NEW p \in Procs, IInv, Answer(p, "ok"), proc[p].call # "load", AllKept,
           conf' = conf, dir' = dir, parts' = parts, drafts' \subseteq drafts,
           mirror' = mirror, rot' = rot, budget' = budget, SharedType', (bundle.ours => bundle.decl = bundle.data)'
    PROVE  IInv' /\ KeptStays
<1> DEFINE r == Answered(p, "ok")
<1>1. proc[p] \in CallType
  BY DEF IInv, TypeOK
<1>2. proc' = [proc EXCEPT ![p] = r] /\ proc'[p] = r
  BY DEF Answer, Answered, IInv, TypeOK
<1>3. r \in CallType /\ r.pc = "done" /\ r.call = proc[p].call
  <2>1. 1 \in 1..Len(Files) + 1
    BY Members
  <2>2. proc[p].call \in {"none", "fetch", "verify", "load", "mirror", "export", "import"}
    BY <1>1 DEF CallType
  <2> QED
    BY <2>1, <2>2, Tables DEF CallType, Answered, Idle
<1> HIDE DEF r
<1>4. AllKept' /\ KeptStays
  BY DEF AllKept, KeptStays, Kept
<1>5. Local(p)'
  BY <1>2, <1>3, <1>4 DEF Local, Station, Knows, Hashed, At, HoldsLock, Doomed, Locked, Installing
<1>6. \A q \in Procs \ {p} : TempsSpared(q) /\ LockSpared(q)
  BY DEF TempsSpared, LockSpared, Answer, Release
<1> QED
  BY <1>2, <1>3, <1>4, <1>5, <1>6, StepKeeps

\* A move of a call that does not install, knows no more than before and writes
\* only its own drafts.
LEMMA OwnDraftStep ==
    ASSUME NEW p \in Procs, IInv, NEW r \in CallType, proc' = [proc EXCEPT ![p] = r],
           UNCHANGED <<conf, dir, parts, lock, bundle, rot, budget>>,
           mirror' \in [Names -> Whole], drafts' \in SUBSET DraftType,
           \A t \in drafts' : t.pid # p => t \in drafts,
           Station(r), Knows(r), ~Locked(r), r.pc # "rename", r.pc # "quarantine",
           r.pc = "mirror_rename" =>
             \A t \in drafts' : t.pid = p /\ t.name = Files[r.i] /\ t.nonce = r.nonce =>
                                  t.data[Files[r.i]] = r.held[Files[r.i]],
           r.pc = "bundle_rename" =>
             \A t \in drafts' : t.pid = p /\ t.name = Archive /\ t.nonce = r.nonce =>
                                  t.data = r.held
    PROVE  IInv' /\ KeptStays
<1>1. proc'[p] = r
  BY DEF IInv, TypeOK
<1>2. KeptStays
  BY DEF KeptStays, Kept
<1>3. SharedType' /\ (bundle.ours => bundle.decl = bundle.data)'
      /\ \A q \in Procs \ {p} : TempsSpared(q) /\ LockSpared(q)
  BY DEF IInv, TypeOK, SharedType, TempsSpared, LockSpared
<1>4. Knows(proc[p])'
  BY <1>1 DEF Knows, AllKept, Kept
<1>5. Hashed(p)'
  BY <1>1 DEF Hashed, At, Drafts, Scratch, Name
<1>6. Local(p)'
  BY <1>1, <1>4, <1>5 DEF Local, Station, At, HoldsLock, Doomed, Locked, Installing
<1> QED
  BY <1>2, <1>3, <1>6, StepKeeps

\* The same without drafts.
LEMMA ReaderMoves ==
    ASSUME NEW p \in Procs, IInv, NEW r \in CallType, proc' = [proc EXCEPT ![p] = r],
           UNCHANGED <<conf, dir, parts, lock, mirror, bundle, drafts, rot, budget>>,
           Station(r), Knows(r), ~Locked(r), Calm(r)
    PROVE  IInv' /\ KeptStays
BY OwnDraftStep DEF Calm, IInv, TypeOK, SharedType

\* A call that fails and removes its own draft, or leaves it.
LEMMA ErrorDraftStep ==
    ASSUME NEW p \in Procs, IInv, NEW res \in {"io", "hash"}, Answer(p, res),
           UNCHANGED <<conf, dir, parts, mirror, bundle, rot, budget>>,
           drafts' \in SUBSET DraftType, \A t \in drafts' : t.pid # p => t \in drafts
    PROVE  IInv' /\ KeptStays
<1>1. proc' = [proc EXCEPT ![p] = Answered(p, res)]
  BY DEF Answer, Answered
<1>2. Answered(p, res) \in CallType /\ Local(p)'
  BY <1>1, ErrorLocal DEF IInv
<1>3. KeptStays
  BY DEF KeptStays, Kept
<1>4. SharedType' /\ (bundle.ours => bundle.decl = bundle.data)'
      /\ \A q \in Procs \ {p} : TempsSpared(q) /\ LockSpared(q)
  BY DEF Answer, Release, IInv, TypeOK, SharedType, TempsSpared, LockSpared
<1> QED
  BY <1>1, <1>2, <1>3, <1>4, StepKeeps

\* Writing to a draft changes that draft only.
LEMMA WrittenDraft ==
    ASSUME NEW p \in Procs, IInv, Name(p) \in Names, NEW n, NEW k, NEW bytes \in Whole
    PROVE  /\ Written(p, n, k, bytes) \in SUBSET DraftType
           /\ \A t \in Written(p, n, k, bytes) :
                /\ t.pid # p => t \in drafts
                /\ t.pid = p /\ t.name = n /\ t.nonce = k => t.data[Name(p)] = bytes
<1>1. drafts \subseteq DraftType
  BY DEF IInv, TypeOK, SharedType
<1>2. ASSUME NEW t \in drafts
      PROVE  LET t2 == [t EXCEPT !.data[Name(p)] = bytes] IN
             /\ t2 \in DraftType /\ t2.data[Name(p)] = bytes /\ t2.pid = t.pid
  <2> DEFINE data == [t.data EXCEPT ![Name(p)] = bytes]
  <2>1. t \in DraftType
    BY <1>1
  <2>2. data \in [Names -> Whole \cup {"part"}] /\ data[Name(p)] = bytes
    BY <2>1 DEF DraftType
  <2>3. [t EXCEPT !.data[Name(p)] = bytes] = [t EXCEPT !.data = data]
    BY <2>1 DEF DraftType
  <2> HIDE DEF data
  <2> QED
    BY <2>1, <2>2, <2>3 DEF DraftType
<1>3. ASSUME NEW t \in Written(p, n, k, bytes)
      PROVE  \/ t \in drafts /\ t \notin Drafts(p, n, k)
             \/ /\ t \in DraftType /\ t.data[Name(p)] = bytes /\ t.pid = p
  BY <1>2 DEF Written, Drafts
<1> QED
  BY <1>1, <1>3 DEF Drafts

\* What is read from the directory is a whole file.
LEMMA FilesWhole ==
    ASSUME IInv
    PROVE  /\ dir.file \in [Names -> Whole] /\ mirror \in [Names -> Whole]
           /\ bundle.decl \in [Names -> Whole] /\ bundle.data \in [Names -> Whole]
BY DEF IInv, TypeOK, SharedType

LEMMA MirrorHashStep ==
    ASSUME NEW p \in Procs, IInv, MirrorHash(p)
    PROVE  IInv' /\ KeptStays
<1>1. proc[p] \in CallType /\ Local(p) /\ At(p, "mirror_hash")
  BY DEF IInv, TypeOK, MirrorHash
<1>2. CASE Answer(p, "ok")
  <2>1. AllKept /\ proc[p].call # "load"
    BY <1>1 DEF Local, Knows, Station, At
  <2>2. SharedType' /\ (bundle.ours => bundle.decl = bundle.data)'
    BY <1>2 DEF MirrorHash, Answer, Release, IInv, TypeOK, SharedType
  <2> QED
    BY <1>2, <2>1, <2>2, OkStep DEF MirrorHash
<1>3. CASE Answer(p, "not_found")
  BY <1>3, ErrorStep DEF MirrorHash
<1>4. CASE Answer(p, "busy")
  BY <1>4, ErrorStep DEF MirrorHash
<1>5. CASE /\ proc[p].i <= Len(Files)
           /\ FreeDrafts(p, Name(p)) # {}
           /\ proc' = [proc EXCEPT ![p].pc = "mirror_open",
                                   ![p].nonce = UniqueTemporary(FreeDrafts(p, Name(p))),
                                   ![p].held[Name(p)] = dir.file[Name(p)]]
           /\ lock' = lock
  <2> DEFINE held == [proc[p].held EXCEPT ![Name(p)] = dir.file[Name(p)]]
             k == UniqueTemporary(FreeDrafts(p, Name(p)))
             r == [proc[p] EXCEPT !.pc = "mirror_open", !.nonce = k, !.held = held]
  <2>1. proc' = [proc EXCEPT ![p] = r]
    BY <1>5 DEF IInv, TypeOK
  <2>2. Name(p) \in Names
    BY <1>1, <1>5, Members DEF Name, CallType
  <2>3. held \in [Names -> Whole] /\ k \in Nat
    BY <1>1, <1>5, <2>2, FilesWhole, UniqueIsFree, FreeAreNat DEF CallType
  <2> HIDE DEF held, k
  <2>4. r.pc = "mirror_open" /\ r.call = proc[p].call /\ r.i = proc[p].i
    BY <1>1 DEF CallType
  <2>5. r \in CallType
    BY <1>1, <2>3 DEF CallType
  <2> HIDE DEF r
  <2>6. Station(r) /\ Knows(r) /\ ~Locked(r) /\ Calm(r)
    BY <1>1, <1>5, <2>4 DEF Local, Station, Knows, At, Locked, Installing, Calm
  <2> QED
    BY <1>5, <2>1, <2>5, <2>6, ReaderMoves DEF MirrorHash
<1>6. proc[p].i <= Len(Files) \/ proc[p].i > Len(Files)
  BY <1>1, Members DEF CallType
<1> QED
  BY <1>2, <1>3, <1>4, <1>5, <1>6 DEF MirrorHash

LEMMA MirrorOpenStep ==
    ASSUME NEW p \in Procs, IInv, MirrorOpen(p)
    PROVE  IInv' /\ KeptStays
<1>1. /\ proc[p] \in CallType /\ Local(p) /\ At(p, "mirror_open") /\ proc[p].i <= Len(Files)
  BY DEF IInv, TypeOK, MirrorOpen, Local, Station, At
<1>2. Name(p) \in Names
  BY <1>1, Members DEF Name, CallType
<1>3. CASE Answer(p, "not_found") /\ drafts' = drafts
  BY <1>3, ErrorStep DEF MirrorOpen
<1>4. CASE /\ drafts' = drafts \cup {Draft(p, Name(p), proc[p].nonce,
                                           [Nothing EXCEPT ![Name(p)] = "part"])}
           /\ proc' = [proc EXCEPT ![p].pc = "mirror_stream",
                                   ![p].file = dir.file[Name(p)]]
           /\ lock' = lock
  <2> DEFINE file == dir.file[Name(p)]
             data == [Nothing EXCEPT ![Name(p)] = "part"]
             r == [proc[p] EXCEPT !.pc = "mirror_stream", !.file = file]
  <2>1. proc' = [proc EXCEPT ![p] = r]
    BY <1>4 DEF IInv, TypeOK
  <2>2. file \in Whole /\ data \in [Names -> Whole \cup {"part"}]
    BY <1>2, FilesWhole DEF Nothing, Whole
  <2>3. /\ Draft(p, Name(p), proc[p].nonce, data) \in DraftType
        /\ Draft(p, Name(p), proc[p].nonce, data).pid = p
    BY <1>1, <1>2, <2>2 DEF Draft, DraftType, CallType
  <2>4. drafts' \in SUBSET DraftType /\ \A t \in drafts' : t.pid # p => t \in drafts
    BY <1>4, <2>3 DEF IInv, TypeOK, SharedType
  <2> HIDE DEF file, data
  <2>5. r.pc = "mirror_stream" /\ r.call = proc[p].call /\ r.i = proc[p].i
    BY <1>1 DEF CallType
  <2>6. r \in CallType
    BY <1>1, <2>2 DEF CallType
  <2> HIDE DEF r
  <2>7. Station(r) /\ Knows(r) /\ ~Locked(r)
    BY <1>1, <2>5 DEF Local, Station, Knows, At, Locked, Installing
  <2> QED
    BY <1>4, <2>1, <2>4, <2>5, <2>6, <2>7, FilesWhole, OwnDraftStep DEF MirrorOpen
<1> QED
  BY <1>3, <1>4 DEF MirrorOpen

\* A copy goes on to its rename only when it has the bytes that were hashed.
LEMMA MirrorStreamStep ==
    ASSUME NEW p \in Procs, IInv, MirrorStream(p)
    PROVE  IInv' /\ KeptStays
<1> DEFINE written == Written(p, Name(p), proc[p].nonce, proc[p].file)
<1>1. /\ proc[p] \in CallType /\ Local(p) /\ At(p, "mirror_stream") /\ proc[p].i <= Len(Files)
  BY DEF IInv, TypeOK, MirrorStream, Local, Station, At
<1>2. Name(p) \in Names /\ proc[p].file \in Whole
  BY <1>1, Members DEF Name, CallType
<1>3. /\ written \in SUBSET DraftType
      /\ \A t \in written :
           /\ t.pid # p => t \in drafts
           /\ t.pid = p /\ t.name = Name(p) /\ t.nonce = proc[p].nonce =>
                t.data[Name(p)] = proc[p].file
  BY <1>2, WrittenDraft
<1>4. drafts' = written
  BY DEF MirrorStream
<1> HIDE DEF written
<1>5. CASE Answer(p, "hash")
  BY <1>3, <1>4, <1>5, ErrorDraftStep DEF MirrorStream
<1>6. CASE Go(p, "mirror_rename") /\ lock' = lock /\ proc[p].file = proc[p].held[Name(p)]
  <2> DEFINE r == [proc[p] EXCEPT !.pc = "mirror_rename"]
  <2>1. proc' = [proc EXCEPT ![p] = r]
    BY <1>6 DEF Go, IInv, TypeOK
  <2>2. /\ r.pc = "mirror_rename" /\ r.call = proc[p].call /\ r.i = proc[p].i
        /\ r.nonce = proc[p].nonce /\ r.held = proc[p].held /\ r \in CallType
    BY <1>1 DEF CallType
  <2> HIDE DEF r
  <2>3. Station(r) /\ Knows(r) /\ ~Locked(r)
    BY <1>1, <2>2 DEF Local, Station, Knows, At, Locked, Installing
  <2>4. \A t \in drafts' : t.pid = p /\ t.name = Files[r.i] /\ t.nonce = r.nonce =>
                             t.data[Files[r.i]] = r.held[Files[r.i]]
    BY <1>3, <1>4, <1>6, <2>2 DEF Name
  <2> QED
    BY <1>3, <1>4, <1>6, <2>1, <2>2, <2>3, <2>4, FilesWhole, OwnDraftStep DEF MirrorStream
<1> QED
  BY <1>5, <1>6 DEF MirrorStream

\* What replaces a mirrored member is whole: it has the bytes that were hashed.
LEMMA MirrorRenameStep ==
    ASSUME NEW p \in Procs, IInv, MirrorRename(p)
    PROVE  IInv' /\ KeptStays
<1> DEFINE r == [proc[p] EXCEPT !.pc = "mirror_hash", !.i = @ + 1]
<1>1. /\ proc[p] \in CallType /\ Local(p) /\ At(p, "mirror_rename") /\ proc[p].i <= Len(Files)
  BY DEF IInv, TypeOK, MirrorRename, Local, Station, At
<1>2. Name(p) \in Names
  BY <1>1, Members DEF Name, CallType
<1>3. PICK t \in Drafts(p, Name(p), proc[p].nonce) :
        mirror' = [mirror EXCEPT ![Name(p)] = t.data[Name(p)]]
  BY DEF MirrorRename
<1>4. t.data[Name(p)] \in Whole
  BY <1>1, <1>2 DEF Local, Hashed, CallType
<1>5. mirror' \in [Names -> Whole]
  BY <1>2, <1>3, <1>4, FilesWhole
<1>6. drafts' \in SUBSET DraftType /\ \A s \in drafts' : s.pid # p => s \in drafts
  BY DEF MirrorRename, IInv, TypeOK, SharedType
<1>7. proc' = [proc EXCEPT ![p] = r]
  BY DEF MirrorRename, IInv, TypeOK
<1>8. r.pc = "mirror_hash" /\ r.call = proc[p].call /\ r \in CallType
  <2>1. proc[p].i + 1 \in 1..Len(Files) + 1
    BY <1>1, Members DEF CallType
  <2> QED
    BY <1>1, <2>1 DEF CallType
<1> HIDE DEF r
<1>9. Station(r) /\ Knows(r) /\ ~Locked(r)
  BY <1>1, <1>8 DEF Local, Station, Knows, At, Locked, Installing
<1> QED
  BY <1>5, <1>6, <1>7, <1>8, <1>9, OwnDraftStep DEF MirrorRename

LEMMA CollectStep ==
    ASSUME NEW p \in Procs, IInv, Collect(p)
    PROVE  IInv' /\ KeptStays
<1>1. proc[p] \in CallType /\ Local(p) /\ At(p, "collect")
  BY DEF IInv, TypeOK, Collect
<1>2. CASE Answer(p, "not_found")
  BY <1>2, ErrorStep DEF Collect
<1>3. CASE Go(p, "bundle_hash") /\ lock' = lock
  <2> DEFINE r == [proc[p] EXCEPT !.pc = "bundle_hash"]
  <2>1. proc' = [proc EXCEPT ![p] = r]
    BY <1>3 DEF Go, IInv, TypeOK
  <2>2. r.pc = "bundle_hash" /\ r.call = proc[p].call /\ r \in CallType
    BY <1>1 DEF CallType
  <2> HIDE DEF r
  <2>3. Station(r) /\ Knows(r) /\ ~Locked(r) /\ Calm(r)
    BY <1>1, <2>2 DEF Local, Station, Knows, At, Locked, Installing, Calm
  <2> QED
    BY <1>3, <2>1, <2>2, <2>3, ReaderMoves DEF Collect
<1> QED
  BY <1>2, <1>3 DEF Collect

LEMMA BundleHashStep ==
    ASSUME NEW p \in Procs, IInv, BundleHash(p)
    PROVE  IInv' /\ KeptStays
<1>1. /\ proc[p] \in CallType /\ Local(p) /\ At(p, "bundle_hash") /\ proc[p].i <= Len(Files)
  BY DEF IInv, TypeOK, BundleHash
<1>2. CASE Answer(p, "not_found")
  BY <1>2, ErrorStep DEF BundleHash
<1>3. CASE /\ proc' = [proc EXCEPT ![p].held[Name(p)] = dir.file[Name(p)], ![p].i = @ + 1]
           /\ lock' = lock
  <2> DEFINE held == [proc[p].held EXCEPT ![Name(p)] = dir.file[Name(p)]]
             r == [proc[p] EXCEPT !.held = held, !.i = @ + 1]
  <2>1. proc' = [proc EXCEPT ![p] = r]
    BY <1>3 DEF IInv, TypeOK
  <2>2. Name(p) \in Names
    BY <1>1, Members DEF Name, CallType
  <2>3. held \in [Names -> Whole] /\ proc[p].i + 1 \in 1..Len(Files) + 1
    BY <1>1, <2>2, FilesWhole, Members DEF CallType
  <2> HIDE DEF held
  <2>4. r.pc = "bundle_hash" /\ r.call = proc[p].call
    BY <1>1 DEF CallType, At
  <2>5. r \in CallType
    BY <1>1, <2>3 DEF CallType
  <2> HIDE DEF r
  <2>6. Station(r) /\ Knows(r) /\ ~Locked(r) /\ Calm(r)
    BY <1>1, <2>4 DEF Local, Station, Knows, At, Locked, Installing, Calm
  <2> QED
    BY <1>3, <2>1, <2>5, <2>6, ReaderMoves DEF BundleHash
<1> QED
  BY <1>2, <1>3 DEF BundleHash

LEMMA BundleCreateStep ==
    ASSUME NEW p \in Procs, IInv, BundleCreate(p)
    PROVE  IInv' /\ KeptStays
<1>1. proc[p] \in CallType /\ Local(p) /\ At(p, "bundle_hash")
  BY DEF IInv, TypeOK, BundleCreate
<1>2. CASE Answer(p, "busy") /\ drafts' = drafts
  BY <1>2, ErrorStep DEF BundleCreate
<1>3. CASE FreeDrafts(p, Archive) # {}
  <2> DEFINE k == UniqueTemporary(FreeDrafts(p, Archive))
             data == [n \in Names |-> "part"]
             r == [proc[p] EXCEPT !.pc = "bundle_append", !.nonce = k, !.i = 1]
  <2>1. drafts' = drafts \cup {Draft(p, Archive, k, data)} /\ lock' = lock
    BY <1>3 DEF BundleCreate
  <2>2. proc' = [proc EXCEPT ![p] = r]
    BY <1>3 DEF BundleCreate, IInv, TypeOK
  <2>3. k \in Nat /\ data \in [Names -> Whole \cup {"part"}] /\ 1 \in 1..Len(Files) + 1
    BY <1>3, UniqueIsFree, FreeAreNat, Members
  <2> HIDE DEF k, data
  <2>4. Draft(p, Archive, k, data) \in DraftType /\ Draft(p, Archive, k, data).pid = p
    BY <2>3 DEF Draft, DraftType
  <2>5. drafts' \in SUBSET DraftType /\ \A t \in drafts' : t.pid # p => t \in drafts
    BY <2>1, <2>4 DEF IInv, TypeOK, SharedType
  <2>6. r.pc = "bundle_append" /\ r.call = proc[p].call
    BY <1>1 DEF CallType
  <2>7. r \in CallType
    BY <1>1, <2>3 DEF CallType
  <2> HIDE DEF r
  <2>8. Station(r) /\ Knows(r) /\ ~Locked(r)
    BY <1>1, <2>6 DEF Local, Station, Knows, At, Locked, Installing
  <2> QED
    BY <2>1, <2>2, <2>5, <2>6, <2>7, <2>8, FilesWhole, OwnDraftStep DEF BundleCreate
<1> QED
  BY <1>2, <1>3 DEF BundleCreate

LEMMA BundleAppendStep ==
    ASSUME NEW p \in Procs, IInv, BundleAppend(p)
    PROVE  IInv' /\ KeptStays
<1>1. /\ proc[p] \in CallType /\ Local(p) /\ At(p, "bundle_append") /\ proc[p].i <= Len(Files)
  BY DEF IInv, TypeOK, BundleAppend
<1>2. Name(p) \in Names
  BY <1>1, Members DEF Name, CallType
<1>3. CASE Answer(p, "io") /\ drafts' = drafts \ Scratch(p)
  <2>1. drafts' \in SUBSET DraftType /\ \A t \in drafts' : t.pid # p => t \in drafts
    BY <1>3 DEF IInv, TypeOK, SharedType
  <2> QED
    BY <1>3, <2>1, ErrorDraftStep DEF BundleAppend
<1>4. CASE /\ drafts' = Written(p, Archive, proc[p].nonce, dir.file[Name(p)])
           /\ proc' = [proc EXCEPT ![p].i = @ + 1] /\ lock' = lock
  <2> DEFINE r == [proc[p] EXCEPT !.i = @ + 1]
  <2>1. proc' = [proc EXCEPT ![p] = r]
    BY <1>4 DEF IInv, TypeOK
  <2>2. drafts' \in SUBSET DraftType /\ \A t \in drafts' : t.pid # p => t \in drafts
    BY <1>2, <1>4, FilesWhole, WrittenDraft
  <2>3. r.pc = "bundle_append" /\ r.call = proc[p].call /\ r \in CallType
    <3>1. proc[p].i + 1 \in 1..Len(Files) + 1
      BY <1>1, Members DEF CallType
    <3> QED
      BY <1>1, <3>1 DEF CallType, At
  <2> HIDE DEF r
  <2>4. Station(r) /\ Knows(r) /\ ~Locked(r)
    BY <1>1, <2>3 DEF Local, Station, Knows, At, Locked, Installing
  <2> QED
    BY <1>4, <2>1, <2>2, <2>3, <2>4, FilesWhole, OwnDraftStep DEF BundleAppend
<1> QED
  BY <1>3, <1>4 DEF BundleAppend

\* An archive goes on to its rename only when it was read back and authenticates.
LEMMA BundleInspectStep ==
    ASSUME NEW p \in Procs, IInv, BundleInspect(p)
    PROVE  IInv' /\ KeptStays
<1>1. proc[p] \in CallType /\ Local(p) /\ At(p, "bundle_append")
  BY DEF IInv, TypeOK, BundleInspect
<1>2. CASE Answer(p, "hash") /\ drafts' = drafts \ Scratch(p)
  <2>1. drafts' \in SUBSET DraftType /\ \A t \in drafts' : t.pid # p => t \in drafts
    BY <1>2 DEF IInv, TypeOK, SharedType
  <2> QED
    BY <1>2, <2>1, ErrorDraftStep DEF BundleInspect
<1>3. CASE /\ Go(p, "bundle_rename") /\ UNCHANGED <<lock, drafts>>
           /\ \A t \in Scratch(p) : proc[p].held = t.data
  <2> DEFINE r == [proc[p] EXCEPT !.pc = "bundle_rename"]
  <2>1. proc' = [proc EXCEPT ![p] = r]
    BY <1>3 DEF Go, IInv, TypeOK
  <2>2. /\ r.pc = "bundle_rename" /\ r.call = proc[p].call
        /\ r.nonce = proc[p].nonce /\ r.held = proc[p].held /\ r \in CallType
    BY <1>1 DEF CallType
  <2> HIDE DEF r
  <2>3. Station(r) /\ Knows(r) /\ ~Locked(r)
    BY <1>1, <2>2 DEF Local, Station, Knows, At, Locked, Installing
  <2>4. \A t \in drafts' : t.pid = p /\ t.name = Archive /\ t.nonce = r.nonce =>
                             t.data = r.held
    BY <1>3, <2>2 DEF Scratch, Drafts
  <2>5. drafts' \in SUBSET DraftType
    BY <1>3 DEF IInv, TypeOK, SharedType
  <2> QED
    BY <1>3, <2>1, <2>2, <2>3, <2>4, <2>5, FilesWhole, OwnDraftStep DEF BundleInspect
<1> QED
  BY <1>2, <1>3 DEF BundleInspect, Authentic

\* The archive that is published is the one that was read back.
LEMMA BundleRenameStep ==
    ASSUME NEW p \in Procs, IInv, BundleRename(p)
    PROVE  IInv' /\ KeptStays
<1>1. proc[p] \in CallType /\ Local(p) /\ At(p, "bundle_rename")
  BY DEF IInv, TypeOK, BundleRename
<1>2. PICK t \in Scratch(p) :
        bundle' = [there |-> TRUE, ours |-> TRUE, decl |-> proc[p].held, data |-> t.data]
  BY DEF BundleRename
<1>3. t.data = proc[p].held /\ proc[p].held \in [Names -> Whole]
  BY <1>1 DEF Local, Hashed, CallType
<1>4. AllKept /\ proc[p].call # "load" /\ Answer(p, "ok")
  BY <1>1 DEF Local, Knows, Station, At, BundleRename
<1>5. SharedType' /\ (bundle.ours => bundle.decl = bundle.data)'
  BY <1>2, <1>3 DEF BundleRename, Answer, Release, IInv, TypeOK, SharedType
<1> QED
  BY <1>4, <1>5, OkStep DEF BundleRename

LEMMA OpenManifestStep ==
    ASSUME NEW p \in Procs, IInv, OpenManifest(p)
    PROVE  IInv' /\ KeptStays
<1>1. proc[p] \in CallType /\ Local(p) /\ At(p, "manifest")
  BY DEF IInv, TypeOK, OpenManifest
<1>2. CASE Answer(p, "not_found")
  BY <1>2, ErrorStep DEF OpenManifest
<1>3. CASE /\ proc' = [proc EXCEPT ![p].pc = "archive", ![p].held = bundle.decl]
           /\ lock' = lock
  <2> DEFINE r == [proc[p] EXCEPT !.pc = "archive", !.held = bundle.decl]
  <2>1. proc' = [proc EXCEPT ![p] = r]
    BY <1>3 DEF IInv, TypeOK
  <2>2. r.pc = "archive" /\ r.call = proc[p].call
    BY <1>1 DEF CallType
  <2>3. r \in CallType
    BY <1>1, FilesWhole DEF CallType
  <2> HIDE DEF r
  <2>4. Station(r) /\ Knows(r) /\ ~Locked(r) /\ Calm(r)
    BY <1>1, <2>2 DEF Local, Station, At, Knows, Locked, Installing, Calm
  <2> QED
    BY <1>3, <2>1, <2>2, <2>3, <2>4, FilesWhole, ReaderMoves DEF OpenManifest
<1> QED
  BY <1>2, <1>3 DEF OpenManifest

\* A step that only moves an import between points where it knows nothing.
LEMMA ImportMoves ==
    ASSUME NEW p \in Procs, IInv,
           NEW pc \in {"manifest", "target", "clear", "publish", "installed"},
           NEW st \in {"none", "first", "second", "final", "inspect", "imported",
                       "inspect_bundle", "stage"},
           proc' = [proc EXCEPT ![p] = [proc[p] EXCEPT !.pc = pc, !.st = st]],
           UNCHANGED <<conf, dir, parts, lock, mirror, bundle, drafts, rot, budget>>,
           proc[p].pc \in {"archive", "target"}
    PROVE  IInv' /\ KeptStays
<1> DEFINE r == [proc[p] EXCEPT !.pc = pc, !.st = st]
<1>1. proc[p] \in CallType /\ proc[p].call = "import"
  BY DEF IInv, TypeOK, Local, Station
<1>2. r.pc = pc /\ r.call = "import"
  BY <1>1 DEF CallType
<1>3. r \in CallType
  BY <1>1, ZenonT(30) DEF CallType
<1> HIDE DEF r
<1>4. Station(r) /\ Knows(r) /\ ~Locked(r) /\ Calm(r)
  BY <1>2 DEF Station, Knows, Locked, Installing, Calm
<1>5. proc' = [proc EXCEPT ![p] = r]
  BY DEF r
<1> QED
  BY <1>2, <1>3, <1>4, <1>5, FilesWhole, ReaderMoves

LEMMA ReadArchiveStep ==
    ASSUME NEW p \in Procs, IInv, ReadArchive(p)
    PROVE  IInv' /\ KeptStays
<1>1. proc \in [Procs -> CallType] /\ proc[p] \in CallType
  BY DEF IInv, TypeOK
<1>2. CASE Answer(p, "bundle_invalid")
  BY <1>2, ErrorStep DEF ReadArchive
<1>3. CASE /\ proc' = [proc EXCEPT ![p].pc = "manifest", ![p].st = "stage"]
           /\ lock' = lock
  <2>1. proc' = [proc EXCEPT ![p] = [proc[p] EXCEPT !.pc = "manifest", !.st = "stage"]]
    BY <1>1, <1>3
  <2> QED
    BY <1>3, <2>1, ImportMoves DEF ReadArchive, At
<1>4. CASE Go(p, "target") /\ lock' = lock
  <2>1. proc[p].st \in {"none", "first", "second", "final", "inspect", "imported",
                        "inspect_bundle", "stage"}
    BY <1>1 DEF CallType
  <2>2. [proc[p] EXCEPT !.pc = "target"] = [proc[p] EXCEPT !.pc = "target", !.st = proc[p].st]
    BY <1>1 DEF CallType
  <2>3. proc' = [proc EXCEPT ![p] = [proc[p] EXCEPT !.pc = "target", !.st = proc[p].st]]
    BY <1>1, <1>4, <2>2 DEF Go
  <2> QED
    BY <1>4, <2>1, <2>3, ImportMoves DEF ReadArchive, At
<1> QED
  BY <1>2, <1>3, <1>4 DEF ReadArchive

LEMMA LookAtTargetStep ==
    ASSUME NEW p \in Procs, IInv, LookAtTarget(p)
    PROVE  IInv' /\ KeptStays
<1> DEFINE pc == IF dir.made THEN "clear" ELSE "publish"
<1>1. proc \in [Procs -> CallType] /\ proc[p] \in CallType /\ pc \in {"clear", "publish"}
  BY DEF IInv, TypeOK
<1>2. proc' = [proc EXCEPT ![p].pc = pc]
  BY DEF LookAtTarget, Go
<1> HIDE DEF pc
<1>3. proc[p].st \in {"none", "first", "second", "final", "inspect", "imported",
                      "inspect_bundle", "stage"}
  BY <1>1 DEF CallType
<1>4. [proc[p] EXCEPT !.pc = pc] = [proc[p] EXCEPT !.pc = pc, !.st = proc[p].st]
  BY <1>1 DEF CallType
<1>5. proc' = [proc EXCEPT ![p] = [proc[p] EXCEPT !.pc = pc, !.st = proc[p].st]]
  BY <1>1, <1>2, <1>4
<1> QED
  BY <1>1, <1>3, <1>5, ImportMoves DEF LookAtTarget, At

\* prune_marker_temporaries removes temporaries, whoever is writing them.
LEMMA ClearMarkersStep ==
    ASSUME NEW p \in Procs, IInv, ClearMarkers(p)
    PROVE  IInv' /\ KeptStays
<1> DEFINE r == [proc[p] EXCEPT !.pc = "installed"]
<1>1. proc[p] \in CallType /\ proc[p].call = "import"
  BY DEF IInv, TypeOK, Local, Station, ClearMarkers, At
<1>2. proc' = [proc EXCEPT ![p] = r] /\ proc'[p] = r
  BY DEF ClearMarkers, Go, IInv, TypeOK
<1>3. r.pc = "installed" /\ r.call = "import" /\ r \in CallType
  BY <1>1 DEF CallType
<1> HIDE DEF r
<1>4. parts' = parts \ {t \in parts : t.name = Marker}
  BY DEF ClearMarkers
<1>5. Local(p)'
  BY <1>2, <1>3 DEF Local, Station, Knows, Hashed, At, HoldsLock, Doomed, Locked, Installing
<1> QED
  BY <1>2, <1>3, <1>4, <1>5, PartsRemoved DEF ClearMarkers

\* What an import does next when the alias holds what the archive held.
Imported(p) == [proc[p] EXCEPT !.pc = "verify", !.st = "imported", !.i = 1]

LEMMA ImportedLocal ==
    ASSUME NEW p \in Procs, TypeOK, proc[p].call = "import",
           proc' = [proc EXCEPT ![p] = Imported(p)]
    PROVE  Imported(p) \in CallType /\ Local(p)'
<1>1. proc[p] \in CallType /\ 1 \in 1..Len(Files) + 1
  BY Members DEF TypeOK
<1>2. /\ Imported(p).pc = "verify" /\ Imported(p).st = "imported" /\ Imported(p).i = 1
      /\ Imported(p).call = "import"
  BY <1>1 DEF CallType, Imported
<1>3. Imported(p) \in CallType
  BY <1>1, ZenonT(30) DEF CallType, Imported
<1>4. proc'[p] = Imported(p)
  BY DEF TypeOK
<1>5. Knows(proc[p])'
  BY <1>2, <1>4 DEF Knows
<1>6. Station(proc[p])' /\ HoldsLock(p)' /\ Hashed(p)' /\ Doomed(p)'
  BY <1>2, <1>4 DEF Station, HoldsLock, Doomed, Locked, Installing, Hashed, At
<1> QED
  BY <1>3, <1>5, <1>6 DEF Local

LEMMA VerifyInstalledStep ==
    ASSUME NEW p \in Procs, IInv, VerifyInstalled(p)
    PROVE  IInv' /\ KeptStays
<1>1. CASE Answer(p, "alias_conflict")
  BY <1>1, ErrorStep DEF VerifyInstalled
<1>2. CASE /\ proc' = [proc EXCEPT ![p].pc = "verify", ![p].st = "imported", ![p].i = 1]
           /\ lock' = lock
  <2>1. proc' = [proc EXCEPT ![p] = Imported(p)]
    BY <1>2 DEF Imported, IInv, TypeOK
  <2>2. proc[p].call = "import"
    BY DEF VerifyInstalled, IInv, Local, Station, At
  <2> QED
    BY <1>2, <2>1, <2>2, ImportedLocal, QuietStep DEF VerifyInstalled, IInv
<1> QED
  BY <1>1, <1>2 DEF VerifyInstalled

\* An import replaces nothing but an empty directory, so it takes no verified
\* member away; a member that was damaged stays so unless its copy is good.
LEMMA PublishAliasStep ==
    ASSUME NEW p \in Procs, IInv, PublishAlias(p)
    PROVE  IInv' /\ KeptStays
<1>1. CASE Answer(p, "io") /\ UNCHANGED <<dir, rot>>
  BY <1>1, ErrorStep DEF PublishAlias
<1>2. CASE /\ dir.file = Nothing
           /\ dir' = [made |-> TRUE, file |-> proc[p].held, runtime |-> TRUE, marker |-> FALSE]
           /\ rot' = {n \in rot : proc[p].held[n] # "good"}
           /\ proc' = [proc EXCEPT ![p].pc = "verify", ![p].st = "imported", ![p].i = 1]
           /\ lock' = lock
  <2>1. proc' = [proc EXCEPT ![p] = Imported(p)]
    BY <1>2 DEF Imported, IInv, TypeOK
  <2>2. proc[p].call = "import"
    BY DEF PublishAlias, IInv, Local, Station, At
  <2>3. proc[p].held \in [Names -> Whole]
    BY DEF IInv, TypeOK, CallType
  <2>4. KeptStays
    BY <1>2 DEF KeptStays, Kept, Nothing
  <2>5. SharedType' /\ (bundle.ours => bundle.decl = bundle.data)'
        /\ \A q \in Procs \ {p} : TempsSpared(q) /\ LockSpared(q)
    <3>1. \A n \in Names : dir.file[n] # "bad"
      BY <1>2 DEF Nothing
    <3> QED
      BY <1>2, <2>3, <3>1 DEF PublishAlias, IInv, TypeOK, SharedType, TempsSpared, LockSpared
  <2> QED
    BY <2>1, <2>2, <2>4, <2>5, ImportedLocal, StepKeeps DEF IInv
<1> QED
  BY <1>1, <1>2 DEF PublishAlias

-----------------------------------------------------------------------------
(* Faults. *)

LEMMA CrashStep ==
    ASSUME NEW p \in Procs, IInv, Crash(p)
    PROVE  IInv' /\ KeptStays
<1>1. Idle \in CallType /\ proc' = [proc EXCEPT ![p] = Idle] /\ proc'[p] = Idle
  BY Tables DEF Crash, IInv, TypeOK
<1>2. Local(p)'
  BY <1>1 DEF Idle, Local, Station, Knows, Hashed, At, HoldsLock, Doomed, Locked, Installing
<1>3. budget' \in [calls : Nat, crashes : Nat, rot : Nat]
  BY DEF Crash, IInv, TypeOK, SharedType
<1>4. SharedType' /\ (bundle.ours => bundle.decl = bundle.data)'
  BY <1>3 DEF Crash, IInv, TypeOK, SharedType, Release
<1>5. KeptStays /\ \A q \in Procs \ {p} : TempsSpared(q) /\ LockSpared(q)
  BY DEF Crash, KeptStays, Kept, TempsSpared, LockSpared, Release
<1> QED
  BY <1>1, <1>2, <1>4, <1>5, StepKeeps

\* A fault of the disk or the clock keeps what every process knows.
LEMMA FaultKeeps ==
    ASSUME IInv, SharedType', KeptStays, UNCHANGED <<lock, bundle>>,
           proc' \in [Procs -> CallType],
           \A q \in Procs : Undisturbed(q) /\ TempsSpared(q) /\ LockSpared(q)
    PROVE  IInv'
<1>1. \A q \in Procs : Local(q)'
  BY SparedLocal DEF IInv
<1> QED
  BY <1>1 DEF IInv, TypeOK

LEMMA RotStep ==
    ASSUME NEW n \in Names, IInv, Rot(n)
    PROVE  IInv' /\ KeptStays
<1>1. /\ dir' \in [made : BOOLEAN, file : [Names -> Whole], runtime : BOOLEAN, marker : BOOLEAN]
      /\ dir'.file = [dir.file EXCEPT ![n] = "bad"]
  BY DEF Rot, IInv, TypeOK, SharedType, Whole
<1>2. budget' \in [calls : Nat, crashes : Nat, rot : Nat]
  BY DEF Rot, IInv, TypeOK, SharedType
<1>3. SharedType'
  BY <1>1, <1>2 DEF Rot, IInv, TypeOK, SharedType
<1>4. KeptStays
  BY <1>1 DEF Rot, KeptStays, Kept, IInv, TypeOK, SharedType
<1>5. \A q \in Procs : TempsSpared(q) /\ LockSpared(q)
  BY <1>1 DEF Rot, TempsSpared, LockSpared, IInv, TypeOK, SharedType
<1>6. ASSUME NEW q \in Procs
      PROVE  proc'[q] \in CallType /\ Undisturbed(q)
  <2> DEFINE r == [proc[q] EXCEPT !.file = "bad"]
  <2>1. proc[q] \in CallType
    BY DEF IInv, TypeOK
  <2>2. proc'[q] = r \/ proc'[q] = proc[q]
    BY DEF Rot
  <2>3. /\ r.call = proc[q].call /\ r.pc = proc[q].pc /\ r.st = proc[q].st /\ r.i = proc[q].i
        /\ r.nonce = proc[q].nonce /\ r.held = proc[q].held /\ r.res = proc[q].res
        /\ r \in CallType
    BY <2>1 DEF CallType, Whole
  <2> QED
    BY <2>1, <2>2, <2>3 DEF Undisturbed
<1>7. proc' \in [Procs -> CallType]
  BY <1>6 DEF Rot
<1> QED
  BY <1>3, <1>4, <1>5, <1>6, <1>7, FaultKeeps DEF Rot

LEMMA AgeStep ==
    ASSUME NEW t \in parts, IInv, Age(t)
    PROVE  IInv' /\ KeptStays
<1> DEFINE t2 == [t EXCEPT !.old = TRUE]
<1>1. t \in PartType
  BY DEF IInv, TypeOK, SharedType
<1>2. /\ t2 \in PartType /\ t2.pid = t.pid /\ t2.name = t.name /\ t2.nonce = t.nonce
      /\ t2.bytes = t.bytes
  BY <1>1 DEF PartType
<1>3. parts' = (parts \ {t}) \cup {t2}
  BY DEF Age
<1> HIDE DEF t2
<1>4. SharedType'
  BY <1>2, <1>3 DEF Age, IInv, TypeOK, SharedType
<1>5. \A q \in Procs : Undisturbed(q) /\ TempsSpared(q) /\ LockSpared(q)
  BY <1>2, <1>3 DEF Age, Undisturbed, TempsSpared, LockSpared
<1>6. KeptStays
  BY DEF Age, KeptStays, Kept
<1> QED
  BY <1>4, <1>5, <1>6, FaultKeeps DEF Age, IInv, TypeOK

-----------------------------------------------------------------------------
(* The theorems. *)

LEMMA InitHolds == Init => IInv
<1> SUFFICES ASSUME Init PROVE IInv
  OBVIOUS
<1>1. PICK start \in Starts :
        /\ conf = start.conf
        /\ dir = [made |-> start.file # Nothing \/ start.marker, file |-> start.file,
                  runtime |-> FALSE, marker |-> start.marker]
        /\ mirror = start.mirror
        /\ bundle = [there |-> start.archive # "absent", ours |-> FALSE,
                     decl |-> IF start.archive = "foreign" THEN TokBad ELSE AllGood,
                     data |-> IF start.archive = "whole" THEN AllGood ELSE TokBad]
  BY DEF Init
<1>2. start \in [conf : [source : {"net", "local"}, closed : BOOLEAN],
                 file : [Names -> Whole], marker : BOOLEAN, mirror : [Names -> Whole],
                 archive : {"absent", "whole", "foreign", "torn"}]
  BY StartsAssumption DEF Whole
<1>3. SharedType /\ ~bundle.ours
  BY <1>1, <1>2, Tables, BoundsAssumption DEF Init, SharedType
<1>4. proc \in [Procs -> CallType]
  BY Tables DEF Init
<1>5. \A p \in Procs : Local(p)
  BY DEF Init, Idle, Local, Station, Knows, Hashed, At, HoldsLock, Doomed, Locked, Installing
<1> QED
  BY <1>3, <1>4, <1>5 DEF IInv, TypeOK

\* Every step keeps the invariant and every member that verifies.
LEMMA NextKeeps == IInv /\ [Next]_vars => IInv' /\ KeptStays
<1> SUFFICES ASSUME IInv, [Next]_vars PROVE IInv' /\ KeptStays
  OBVIOUS
<1>1. ASSUME NEW p \in Procs, NEW c \in Calls, Begin(p, c) PROVE IInv' /\ KeptStays
  BY <1>1, BeginStep
<1>2. ASSUME NEW p \in Procs, Step(p) PROVE IInv' /\ KeptStays
  <2>1. CASE VerifyMember(p) \/ VerifyFails(p) \/ VerifyDone(p) \/ Read(p)
    BY <2>1, VerifyMemberStep, VerifyFailsStep, VerifyDoneStep, ReadStep
  <2>2. CASE ListParts(p) \/ PruneOne(p) \/ LockFamily(p) \/ Gate(p)
    BY <2>2, ListPartsStep, PruneOneStep, LockFamilyStep, GateStep
  <2>3. CASE Skip(p) \/ Doubt(p) \/ Quarantine(p) \/ Allocate(p) \/ InstallDone(p)
    BY <2>3, SkipStep, DoubtStep, QuarantineStep, AllocateStep, InstallDoneStep
  <2>4. CASE Open(p) \/ Stream(p) \/ Rename(p) \/ MarkerTemp(p) \/ MarkerRename(p)
    BY <2>4, OpenStep, StreamStep, RenameStep, MarkerTempStep, MarkerRenameStep
  <2>5. CASE MirrorHash(p) \/ MirrorOpen(p) \/ MirrorStream(p) \/ MirrorRename(p)
    BY <2>5, MirrorHashStep, MirrorOpenStep, MirrorStreamStep, MirrorRenameStep
  <2>8. CASE \/ Collect(p) \/ BundleHash(p) \/ BundleCreate(p) \/ BundleAppend(p)
             \/ BundleInspect(p) \/ BundleRename(p)
    BY <2>8, CollectStep, BundleHashStep, BundleCreateStep, BundleAppendStep,
       BundleInspectStep, BundleRenameStep
  <2>6. CASE OpenManifest(p) \/ ReadArchive(p) \/ LookAtTarget(p) \/ ClearMarkers(p)
    BY <2>6, OpenManifestStep, ReadArchiveStep, LookAtTargetStep, ClearMarkersStep
  <2>7. CASE VerifyInstalled(p) \/ PublishAlias(p)
    BY <2>7, VerifyInstalledStep, PublishAliasStep
  <2> QED
    BY <1>2, <2>1, <2>2, <2>3, <2>4, <2>5, <2>6, <2>7, <2>8 DEF Step
<1>3. ASSUME NEW p \in Procs, Crash(p) PROVE IInv' /\ KeptStays
  BY <1>3, CrashStep
<1>4. ASSUME NEW n \in Names, Rot(n) PROVE IInv' /\ KeptStays
  BY <1>4, RotStep
<1>5. ASSUME NEW t \in parts, Age(t) PROVE IInv' /\ KeptStays
  BY <1>5, AgeStep
<1>6. CASE UNCHANGED vars
  <2>1. KeptStays /\ SharedType' /\ proc' \in [Procs -> CallType]
    BY <1>6 DEF vars, KeptStays, Kept, IInv, TypeOK, SharedType
  <2>2. \A q \in Procs : Undisturbed(q) /\ TempsSpared(q) /\ LockSpared(q)
    BY <1>6 DEF vars, Undisturbed, TempsSpared, LockSpared
  <2> QED
    BY <1>6, <2>1, <2>2, FaultKeeps DEF vars
<1> QED
  BY <1>1, <1>2, <1>3, <1>4, <1>5, <1>6 DEF Next

\* The invariant of the cache: types, and what each process knows, holds and
\* has hashed at the point of its call it has reached.
THEOREM CacheInvariance == Spec => []IInv
<1> QED
  BY InitHolds, NextKeeps, PTL DEF Spec

\* An answered "ok" (ensure, verify, load, import, mirror, export) stays true:
\* every member still verifies unless it was damaged on disk since.
THEOREM AnsweredVerified == Spec => []ReturnedVerified
<1>1. IInv => ReturnedVerified
  BY DEF IInv, Local, Knows, ReturnedVerified, At, AllKept, Kept
<1> QED
  BY <1>1, CacheInvariance, PTL

\* No reader opens a half-written member or mirrored member, and an archive this
\* crate published authenticates: copies and archives grow under hidden names,
\* from sources that may change between hashing and copying, and what is renamed
\* is what was compared (copy_atomic, export_bundle).
THEOREM WholeFiles == Spec => []VisibleWhole
<1>1. IInv => VisibleWhole
  BY FilesWhole DEF IInv, VisibleWhole, Whole
<1> QED
  BY <1>1, CacheInvariance, PTL

\* No step of any process moves, replaces or removes a member that verifies:
\* install_file quarantines by path what it found wrong before, and the family
\* lock keeps every other process from repairing it in between.
THEOREM VerifiedStays == Spec => GoodNeverLost
<1>1. KeptStays => \A n \in Names : dir.file[n] = "good" => dir'.file[n] = "good" \/ n \in rot'
  BY DEF KeptStays, Kept
<1>2. IInv /\ [Next]_vars =>
        [\A n \in Names : dir.file[n] = "good" => dir'.file[n] = "good" \/ n \in rot']_vars
  BY <1>1, NextKeeps
<1> QED
  BY <1>2, CacheInvariance, PTL DEF Spec, GoodNeverLost

\* At most one process is between its second verification and its marker:
\* quarantine and rename of one family never interleave.
OneInstaller == \A p, q \in Procs : Locked(proc[p]) /\ Locked(proc[q]) => p = q

THEOREM InstallsExcluded == Spec => []OneInstaller
<1>1. IInv => OneInstaller
  BY DEF IInv, Local, HoldsLock, OneInstaller
<1> QED
  BY <1>1, CacheInvariance, PTL
=============================================================================

------------------------ MODULE RouteAdmissionProofs ------------------------
(***************************************************************************)
(* Proofs about RouteAdmission, for any processes, builds, machines and    *)
(* requests: a plan's label is backed by what it names, and a route runs   *)
(* only where the policy admits it.                                        *)
(*                                                                         *)
(* The argument follows a JIT product.  It was made by the compiler in its *)
(* binding unless the compiler was replaced under the very build that made *)
(* it, in the cache and after any number of hits, and the label the        *)
(* manifest recorded never says more than the binding.                     *)
(***************************************************************************)
EXTENDS RouteAdmission, TLAPS

Arches == {"judged", "experimental", "other", None}
Compilers == {"judged", "other", None}
ImageType == [compiler : Compilers \cup {"release"}, arch : Arches \cup {"release"}]
BindingType ==
  [compiler : Compilers, arch : Arches, driver : Nat, evidence : BOOLEAN, certified : BOOLEAN]
JitLabels == {"certified", "supported_untested", "experimental"}
RouteLabels == {"judged", "unjudged", "experimental"}
EntryType ==
  [binding : BindingType, image : ImageType, whole : BOOLEAN, label : JitLabels,
   tainted : BOOLEAN, swapped : BOOLEAN]
RouteType ==
  [delivery : {None, "prebuilt", "jit"}, image : ImageType, arch : Arches, driver : Nat,
   toolchain : Compilers, label : {None} \cup JitLabels \cup RouteLabels, tainted : BOOLEAN,
   swapped : BOOLEAN]
KeyType ==
  [engine : {"cpu", "gpu"}, arch : Arches, delivery : {None, "prebuilt", "jit"},
   image : ImageType, toolchain : Compilers, driver : Nat]
FileType ==
  [key : KeyType, by : Procs \cup {None}, status : {"passed", "failed"}, whole : BOOLEAN]

CpuLabels == {"certified_source", "locally_verified", "supported"}
ProcType ==
  [req : Requests \cup {NoRequest},
   pc : {"idle", "done", "cpu", "prebuilt", "device", "compiler", "lock", "cached", "run",
         "publish", "reread", "built", "label", "plan", "verify", "forget", "clear",
         "create", "write", "rename"},
   cpu : {None} \cup CpuLabels, arch : Arches, driver : Nat, compiler : Compilers,
   ww : BOOLEAN, gpu : RouteType,
   cert : {None, "reference", "experimental", "certified"} \cup CpuLabels,
   backends : SUBSET {"hf", "gpu", "fast_cpu"},
   status : {None, "passed", "failed"},
   res : {None, "refused", "ok", "unrecorded", "recorded", "io", "forgotten"}]

SharedType ==
  /\ build \in BuildType /\ machine \in MachineType
  /\ cache \in SUBSET EntryType
  /\ locks \in SUBSET (BindingType \X Procs)
  /\ temps \in SUBSET FileType /\ records \in SUBSET FileType
  /\ compared \in SUBSET KeyType
  /\ budget \in [calls : Nat, faults : Nat]

TypeOK == SharedType /\ proc \in [Procs -> ProcType]

-----------------------------------------------------------------------------
(* The inductive invariant. *)

\* A binding may be called certified.
BindingSound(b) ==
  b.certified => build.jitCore /\ b.arch = "judged" /\ b.compiler = "judged"

\* A cached product says no more than its binding, and was made by the
\* compiler of its binding unless that was replaced under the build.
EntrySound(e) ==
  /\ BindingSound(e.binding)
  /\ e.label = "certified" => e.binding.certified
  /\ e.label # "experimental" => ~e.tainted /\ build.jitCore
  /\ e.swapped \/ e.image.compiler = e.binding.compiler

\* What a process holds after the JIT stage.
ProductSound(g) ==
  /\ g.delivery = "jit" /\ g.label \in JitLabels
  /\ g.label = "certified" =>
       g.arch = "judged" /\ (g.image.compiler = "judged" \/ g.swapped)
  /\ g.label # "experimental" => ~g.tainted /\ build.jitCore

\* What it holds when the plan is made.
RouteSound(g, policy) ==
  /\ g.label \in RouteLabels
  /\ g.label = "judged" =>
       /\ g.arch = "judged"
       /\ g.delivery = "jit" => g.image.compiler = "judged" \/ g.swapped
  /\ g.label = "unjudged" => AdmitsUnjudgedDevice(policy)
  /\ g.label # "experimental" => ~g.tainted /\ (g.delivery = "jit" => build.jitCore)
  /\ g.label = "experimental" => policy = "experimental"

CpuSound(q) ==
  /\ q.cpu # None => FastCpuRoute(q.req.policy)
  /\ q.cpu = "certified_source" => RustApiBuildCertified
  /\ q.cpu = "locally_verified" => CpuKey \in compared

JitSteps == {"device", "compiler", "lock", "cached", "run", "publish", "reread", "built"}

\* The build was admitted for every process on its way to a GPU plan.
Admitted(q) ==
  /\ q.pc \in {"cpu", "prebuilt", "label", "plan"} => q.req.call # "compile"
  /\ q.pc \in {"prebuilt", "label"} \cup JitSteps /\ q.req.call # "compile" =>
       WantsGpu(q.req) /\ AcceleratedBuildAllowed(q.req.policy)

\* The compiler that ran is the one the process probed, or it was replaced.
CompilerKept(q) ==
  q.pc = "publish" => q.gpu.swapped \/ q.gpu.image.compiler = q.compiler

RecordKey(q) == IF q.req.device = "cpu" THEN CpuKey ELSE GpuKey(q.gpu)
Writing(q) == q.pc \in {"clear", "create", "write", "rename"}

Engaged(q) == IF "gpu" \in q.backends THEN "gpu" ELSE "cpu"

LabelSound(q) ==
  /\ q.cert = "certified" =>
       /\ q.gpu.arch = "judged" /\ RustApiBuildCertified
       /\ q.gpu.delivery = "jit" =>
            build.jitCore /\ (q.gpu.image.compiler = "judged" \/ q.gpu.swapped)
  /\ q.cert = "certified_source" => build.sources /\ build.recipe /\ build.fastSource
  /\ q.cert = "locally_verified" => Combination(Engaged(q), q.gpu) \in compared
  /\ q.cert \in {"supported", "locally_verified"} => ~("gpu" \in q.backends /\ q.gpu.tainted)

PolicySound(q) ==
  /\ q.req.policy = "reference" => q.backends = {"hf"}
  /\ q.req.policy = "required" => q.backends # {"hf"}
  /\ q.req.policy = "certified" /\ "gpu" \in q.backends => q.gpu.arch = "judged"
  /\ "gpu" \in q.backends /\ q.gpu.delivery = "jit" /\ (q.gpu.tainted \/ ~build.jitCore)
       => q.req.policy = "experimental"
  /\ "fast_cpu" \in q.backends /\ ~build.sources => q.req.policy = "experimental"

PlanSound(q) ==
  q.pc = "done" /\ q.res = "ok" /\ q.req.call # "compile" => LabelSound(q) /\ PolicySound(q)

\* The comparison in hand is what the writer is about to record.
Recorded(q) ==
  Writing(q) => /\ q.status \in {"passed", "failed"}
                /\ q.status = "passed" => RecordKey(q) \in compared

Settled(q) ==
  /\ CpuSound(q)
  /\ Admitted(q)
  /\ CompilerKept(q)
  /\ q.pc = "built" => ProductSound(q.gpu)
  /\ q.pc = "label" => RouteSound(q.gpu, q.req.policy)
  /\ PlanSound(q)

Good(q) == Settled(q) /\ Recorded(q)

\* A record of agreement stands for a comparison that agreed.
FileSound(f) == f.status = "passed" => f.key \in compared

IInv ==
  /\ TypeOK
  /\ \A e \in cache : EntrySound(e)
  /\ \A f \in temps \cup records : FileSound(f)
  /\ \A p \in Procs : Good(proc[p])

-----------------------------------------------------------------------------
(* What a step leaves to the others. *)

\* What is known of a process outlives every step that leaves it alone:
\* comparisons are never unlearned, and the build does not change.
LEMMA SettledStable ==
    ASSUME NEW p \in Procs, NEW r, Settled(r), Recorded(r)', proc'[p] = r,
           UNCHANGED build, compared \subseteq compared'
    PROVE  Good(proc[p])'
<1>1. CpuSound(proc[p])'
  <2>1. r.cpu # None => FastCpuRoute(r.req.policy)'
    BY DEF Settled, CpuSound, FastCpuRoute, FastCpuBuildAllowed, AcceleratedBuildAllowed,
           RustApiBuildCertified, RustApiSourcesJudged, CoreClosureVerified,
           UncertifiedReference, ProbeDivergence, SourcesClosureAdmits, FastCpuBound
  <2>2. r.cpu = "certified_source" => RustApiBuildCertified'
    BY DEF Settled, CpuSound, RustApiBuildCertified, CoreClosureVerified,
           UncertifiedReference, ProbeDivergence
  <2>3. CpuKey' = CpuKey
    BY DEF CpuKey
  <2> QED
    BY <2>1, <2>2, <2>3 DEF Settled, CpuSound
<1>2. Admitted(proc[p])'
  BY DEF Settled, Admitted, AcceleratedBuildAllowed, RustApiBuildCertified,
         CoreClosureVerified, UncertifiedReference, ProbeDivergence, WantsGpu
<1>3. CompilerKept(proc[p])'
  BY DEF Settled, CompilerKept
<1>4. proc'[p].pc = "built" => ProductSound(proc[p].gpu)'
  BY DEF Settled, ProductSound
<1>5. proc'[p].pc = "label" => RouteSound(proc[p].gpu, proc[p].req.policy)'
  BY DEF Settled, RouteSound
<1>6. Recorded(proc[p])'
  BY DEF Recorded, Writing, RecordKey, CpuKey, GpuKey
<1>7. PlanSound(proc[p])'
  <2>1. LabelSound(r) => LabelSound(proc[p])'
    BY DEF LabelSound, RustApiBuildCertified, CoreClosureVerified, UncertifiedReference,
           ProbeDivergence, Combination, CpuKey, Engaged
  <2>2. PolicySound(r) => PolicySound(proc[p])'
    BY DEF PolicySound
  <2> QED
    BY <2>1, <2>2 DEF Settled, PlanSound
<1> QED
  BY <1>1, <1>2, <1>3, <1>4, <1>5, <1>6, <1>7 DEF Good, Settled

LEMMA GoodStable ==
    ASSUME NEW p \in Procs, NEW r, Good(r), proc'[p] = r,
           UNCHANGED build, compared \subseteq compared'
    PROVE  Good(proc[p])'
<1>1. Recorded(r)'
  BY DEF Good, Recorded, Writing, RecordKey, CpuKey, GpuKey
<1> QED
  BY <1>1, SettledStable DEF Good

\* A step of one process keeps the invariant when it does right by that
\* process and by the files and entries it writes.
LEMMA StepKeeps ==
    ASSUME NEW p \in Procs, IInv, NEW r \in ProcType, proc' = [proc EXCEPT ![p] = r],
           UNCHANGED <<build, machine>>, compared \subseteq compared', SharedType',
           Good(proc[p])', \A e \in cache' : EntrySound(e),
           \A f \in temps' \cup records' : FileSound(f)'
    PROVE  IInv'
<1>1. ASSUME NEW q \in Procs \ {p} PROVE Good(proc[q])'
  <2>1. Good(proc[q]) /\ proc'[q] = proc[q]
    BY DEF IInv, TypeOK
  <2>2. ASSUME NEW r2, r2 = proc[q] PROVE Good(r2) /\ proc'[q] = r2
    BY <2>1, <2>2
  <2> QED
    BY <2>2, GoodStable
<1>2. \A q \in Procs : Good(proc[q])'
  BY <1>1
<1>3. TypeOK'
  BY DEF IInv, TypeOK
<1>4. \A e \in cache' : EntrySound(e)'
  BY DEF EntrySound, BindingSound
<1> QED
  BY <1>2, <1>3, <1>4 DEF IInv

\* Most steps touch only the process and its lock.
LEMMA QuietStep ==
    ASSUME NEW p \in Procs, IInv, NEW r \in ProcType, proc' = [proc EXCEPT ![p] = r], Good(r),
           UNCHANGED <<build, machine, cache, temps, records, compared>>,
           locks' \in SUBSET (BindingType \X Procs),
           budget' \in [calls : Nat, faults : Nat]
    PROVE  IInv'
<1>1. proc'[p] = r
  BY DEF IInv, TypeOK
<1>2. Good(proc[p])'
  BY <1>1, GoodStable
<1>3. SharedType'
  BY DEF IInv, TypeOK, SharedType
<1>4. \A f \in temps' \cup records' : FileSound(f)'
  BY DEF IInv, FileSound
<1>5. \A e \in cache' : EntrySound(e)
  BY DEF IInv
<1> QED
  BY <1>2, <1>3, <1>4, <1>5, StepKeeps

\* The fields of a process and of its request.
LEMMA Fields ==
    ASSUME NEW p \in Procs, IInv
    PROVE  /\ proc[p] \in ProcType /\ proc \in [Procs -> ProcType] /\ Good(proc[p])
           /\ build \in BuildType /\ machine \in MachineType
           /\ locks \in SUBSET (BindingType \X Procs)
           /\ budget \in [calls : Nat, faults : Nat]
BY DEF IInv, TypeOK, SharedType

LEMMA IdleTyped == NoRoute \in RouteType /\ Idle \in ProcType
<1>1. NoRoute \in RouteType
  BY DEF NoRoute, RouteType, NoImage, Image, ImageType, None, Arches, Compilers
<1> QED
  BY <1>1 DEF Idle, ProcType, None, Arches, Compilers

LEMMA BeginStep ==
    ASSUME NEW p \in Procs, NEW req \in Requests, IInv, Begin(p, req)
    PROVE  IInv'
<1> DEFINE pc == IF req.call = "compile" THEN "device" ELSE "cpu"
           r == [Idle EXCEPT !.req = req, !.pc = pc]
<1>1. proc' = [proc EXCEPT ![p] = r]
  BY DEF Begin
<1>2. pc \in {"device", "cpu"} /\ (pc = "device" <=> req.call = "compile")
  OBVIOUS
<1> HIDE DEF pc
<1>3. /\ r.pc = pc /\ r.req = req /\ r.cpu = None
  BY DEF Idle
<1>4. r \in ProcType
  BY <1>2, IdleTyped DEF ProcType
<1> HIDE DEF r
<1>5. Good(r)
  BY <1>2, <1>3
     DEF Good, Settled, CpuSound, Admitted, JitSteps, CompilerKept, Recorded, Writing, PlanSound, None
<1>6. budget' \in [calls : Nat, faults : Nat]
  BY Fields DEF Begin
<1> QED
  BY <1>1, <1>4, <1>5, <1>6, Fields, QuietStep DEF Begin

\* A process that gives up the GPU route ends, or plans without it.
LEMMA RefusedStep ==
    ASSUME NEW p \in Procs, IInv, GpuRefused(p), proc[p].pc \in {"prebuilt"} \cup JitSteps,
           UNCHANGED <<build, machine, cache, temps, records, compared, budget>>,
           locks' \in SUBSET (BindingType \X Procs)
    PROVE  IInv'
<1>1. proc[p] \in ProcType /\ proc \in [Procs -> ProcType] /\ Good(proc[p])
  BY Fields
<1>2. CASE proc' = [proc EXCEPT ![p].pc = "done", ![p].res = "refused"]
  <2> DEFINE r == [proc[p] EXCEPT !.pc = "done", !.res = "refused"]
  <2>1. proc' = [proc EXCEPT ![p] = r]
    BY <1>1, <1>2
  <2>2. r.pc = "done" /\ r.res = "refused" /\ r.cpu = proc[p].cpu /\ r.req = proc[p].req
    BY <1>1 DEF ProcType
  <2>3. r \in ProcType
    BY <1>1 DEF ProcType
  <2> HIDE DEF r
  <2>4. Good(r)
    BY <1>1, <2>2
       DEF Good, Settled, CpuSound, Admitted, JitSteps, CompilerKept, Recorded, Writing, PlanSound
  <2> QED
    BY <2>1, <2>3, <2>4, Fields, QuietStep
<1>3. CASE proc' = [proc EXCEPT ![p].pc = "plan"] /\ proc[p].req.call # "compile"
  <2> DEFINE r == [proc[p] EXCEPT !.pc = "plan"]
  <2>1. proc' = [proc EXCEPT ![p] = r]
    BY <1>1, <1>3
  <2>2. r.pc = "plan" /\ r.cpu = proc[p].cpu /\ r.req = proc[p].req
    BY <1>1 DEF ProcType
  <2>3. r \in ProcType
    BY <1>1 DEF ProcType
  <2> HIDE DEF r
  <2>4. Good(r)
    BY <1>1, <1>3, <2>2
       DEF Good, Settled, CpuSound, Admitted, JitSteps, CompilerKept, Recorded, Writing, PlanSound
  <2> QED
    BY <2>1, <2>3, <2>4, Fields, QuietStep
<1> QED
  BY <1>2, <1>3 DEF GpuRefused, Answer, Go

-----------------------------------------------------------------------------
(* Planning. *)

LEMMA BuildFastCpuStep ==
    ASSUME NEW p \in Procs, IInv, BuildFastCpu(p)
    PROVE  IInv'
<1> DEFINE req == proc[p].req
           label == IF ~FastCpuRoute(req.policy) THEN None
                    ELSE IF RustApiBuildCertified /\ ToolchainJudged THEN "certified_source"
                    ELSE IF IsLocallyVerified(CpuKey) THEN "locally_verified"
                    ELSE "supported"
           refused == WantsGpu(req) /\ ~AcceleratedBuildAllowed(req.policy)
           pc == CASE ~WantsGpu(req) -> "plan"
                   [] refused -> IF req.device = "cuda" THEN "done" ELSE "plan"
                   [] OTHER -> IF req.delivery = "jit" THEN "device" ELSE "prebuilt"
           res == IF refused /\ req.device = "cuda" THEN "refused" ELSE None
           r == [proc[p] EXCEPT !.cpu = label, !.pc = pc, !.res = res]
<1>1. /\ proc[p] \in ProcType /\ proc \in [Procs -> ProcType] /\ Good(proc[p])
      /\ proc[p].pc = "cpu"
  BY Fields DEF BuildFastCpu, At
<1>2. proc' = [proc EXCEPT ![p] = r]
  BY <1>1 DEF BuildFastCpu
<1>3. /\ label \in {None} \cup CpuLabels
      /\ label # None => FastCpuRoute(req.policy)
      /\ label = "certified_source" => RustApiBuildCertified
      /\ label = "locally_verified" => IsLocallyVerified(CpuKey)
  BY DEF CpuLabels, None
<1>4. IsLocallyVerified(CpuKey) => CpuKey \in compared
  BY DEF IsLocallyVerified, IInv, FileSound
<1>5. /\ pc \in {"plan", "done", "device", "prebuilt"}
      /\ pc \in {"device", "prebuilt"} =>
           WantsGpu(req) /\ AcceleratedBuildAllowed(req.policy)
  OBVIOUS
<1>6. res \in {"refused", None}
  OBVIOUS
<1>7. req.call # "compile"
  BY <1>1 DEF Good, Settled, Admitted
<1> HIDE DEF label, pc, res
<1>8. r.pc = pc /\ r.res = res /\ r.cpu = label /\ r.req = req
  BY <1>1 DEF ProcType
<1>9. r \in ProcType
  BY <1>1, <1>3, <1>5, <1>6 DEF ProcType
<1> HIDE DEF r
<1>10. Good(r)
  <2>1. CpuSound(r)
    BY <1>3, <1>4, <1>8 DEF CpuSound
  <2>2. Admitted(r)
    BY <1>5, <1>7, <1>8 DEF Admitted, JitSteps
  <2>3. PlanSound(r)
    BY <1>6, <1>8 DEF PlanSound, None
  <2> QED
    BY <1>5, <1>8, <2>1, <2>2, <2>3 DEF Good, Settled, CompilerKept, Recorded, Writing
<1> QED
  BY <1>2, <1>9, <1>10, Fields, QuietStep DEF BuildFastCpu

LEMMA BuildPrebuiltStep ==
    ASSUME NEW p \in Procs, IInv, BuildPrebuilt(p)
    PROVE  IInv'
<1> DEFINE policy == proc[p].req.policy
           assurance == PrebuiltAssurance(policy)
           g == [delivery |-> "prebuilt", image |-> Fatbin, arch |-> machine.arch,
                 driver |-> machine.driver, toolchain |-> None, label |-> assurance,
                 tainted |-> FALSE, swapped |-> FALSE]
           r == [proc[p] EXCEPT !.pc = "label", !.gpu = g]
<1>1. /\ proc[p] \in ProcType /\ proc \in [Procs -> ProcType] /\ Good(proc[p])
      /\ proc[p].pc = "prebuilt" /\ machine \in MachineType
  BY Fields DEF BuildPrebuilt, At
<1>2. CASE GpuRefused(p)
  BY <1>1, <1>2, Fields, RefusedStep DEF BuildPrebuilt
<1>3. CASE assurance # None /\ proc' = [proc EXCEPT ![p].pc = "label", ![p].gpu = g]
  <2>1. /\ assurance \in RouteLabels
        /\ assurance = "judged" => machine.arch = "judged"
        /\ assurance = "unjudged" => AdmitsUnjudgedDevice(policy)
        /\ assurance = "experimental" => policy = "experimental"
    BY <1>3 DEF PrebuiltAssurance, RouteLabels, None
  <2> HIDE DEF assurance
  <2>2. g \in RouteType
    BY <1>1, <2>1 DEF MachineType, RouteType, Fatbin, Image, ImageType, Arches, Compilers, None
  <2>3. RouteSound(g, policy)
    BY <2>1 DEF RouteSound
  <2> HIDE DEF g
  <2>4. proc' = [proc EXCEPT ![p] = r]
    BY <1>1, <1>3
  <2>5. r.pc = "label" /\ r.gpu = g /\ r.req = proc[p].req /\ r.cpu = proc[p].cpu
    BY <1>1 DEF ProcType
  <2>6. r \in ProcType
    BY <1>1, <2>2 DEF ProcType
  <2> HIDE DEF r
  <2>7. Good(r)
    BY <1>1, <2>3, <2>5
       DEF Good, Settled, CpuSound, Admitted, JitSteps, CompilerKept, Recorded, Writing, PlanSound
  <2> QED
    BY <2>4, <2>6, <2>7, Fields, QuietStep DEF BuildPrebuilt
<1> QED
  BY <1>2, <1>3 DEF BuildPrebuilt

-----------------------------------------------------------------------------
(* The JIT product. *)

LEMMA ProbeDeviceStep ==
    ASSUME NEW p \in Procs, IInv, ProbeDevice(p)
    PROVE  IInv'
<1> DEFINE r == [proc[p] EXCEPT !.pc = "compiler", !.arch = machine.arch,
                                !.driver = machine.driver]
<1>1. /\ proc[p] \in ProcType /\ proc \in [Procs -> ProcType] /\ Good(proc[p])
      /\ proc[p].pc = "device" /\ machine \in MachineType
  BY Fields DEF ProbeDevice, At
<1>2. CASE GpuRefused(p)
  BY <1>1, <1>2, Fields, RefusedStep DEF ProbeDevice, JitSteps
<1>3. CASE ~GpuRefused(p)
  <2>1. proc' = [proc EXCEPT ![p] = r]
    BY <1>1, <1>3 DEF ProbeDevice
  <2>2. r.pc = "compiler" /\ r.req = proc[p].req /\ r.cpu = proc[p].cpu
    BY <1>1 DEF ProcType
  <2>3. r \in ProcType
    BY <1>1 DEF ProcType, MachineType, Arches
  <2> HIDE DEF r
  <2>4. Good(r)
    BY <1>1, <2>2
       DEF Good, Settled, CpuSound, Admitted, JitSteps, CompilerKept, Recorded, Writing, PlanSound
  <2> QED
    BY <2>1, <2>3, <2>4, Fields, QuietStep DEF ProbeDevice
<1> QED
  BY <1>2, <1>3

LEMMA ProbeCompilerStep ==
    ASSUME NEW p \in Procs, IInv, ProbeCompiler(p)
    PROVE  IInv'
<1> DEFINE r == [proc[p] EXCEPT !.pc = "lock", !.compiler = machine.compiler, !.ww = machine.ww]
<1>1. /\ proc[p] \in ProcType /\ proc \in [Procs -> ProcType] /\ Good(proc[p])
      /\ proc[p].pc = "compiler" /\ machine \in MachineType
  BY Fields DEF ProbeCompiler, At
<1>2. CASE GpuRefused(p)
  BY <1>1, <1>2, Fields, RefusedStep DEF ProbeCompiler, JitSteps
<1>3. CASE ~GpuRefused(p)
  <2>1. proc' = [proc EXCEPT ![p] = r]
    BY <1>1, <1>3 DEF ProbeCompiler
  <2>2. /\ r.pc = "lock" /\ r.req = proc[p].req /\ r.cpu = proc[p].cpu
        /\ r.compiler = machine.compiler /\ r.ww = machine.ww
    BY <1>1 DEF ProcType
  <2>3. r \in ProcType
    BY <1>1 DEF ProcType, MachineType, Compilers
  <2> HIDE DEF r
  <2>4. Good(r)
    BY <1>1, <2>2
       DEF Good, Settled, CpuSound, Admitted, JitSteps, CompilerKept, Recorded, Writing, PlanSound
  <2> QED
    BY <2>1, <2>3, <2>4, Fields, QuietStep DEF ProbeCompiler
<1> QED
  BY <1>2, <1>3

\* The digest of a binding, and what a certified one says.
LEMMA Digest ==
    ASSUME NEW q \in ProcType, build \in BuildType
    PROVE  /\ BindingDigest(q) \in BindingType /\ BindingSound(BindingDigest(q))
           /\ BindingDigest(q).arch = q.arch /\ BindingDigest(q).compiler = q.compiler
           /\ BindingDigest(q).certified =
                CertifiedBinding(AdmittedEvidence(q.arch, q.compiler), q.ww)
<1>1. /\ AdmittedEvidence(q.arch, q.compiler) \in BOOLEAN
      /\ CertifiedBinding(AdmittedEvidence(q.arch, q.compiler), q.ww) \in BOOLEAN
  BY DEF AdmittedEvidence, CertifiedBinding
<1>2. CertifiedBinding(AdmittedEvidence(q.arch, q.compiler), q.ww) =>
        build.jitCore /\ q.arch = "judged" /\ q.compiler = "judged"
  BY DEF AdmittedEvidence, CertifiedBinding
<1>3. q.arch \in Arches /\ q.compiler \in Compilers /\ q.driver \in Nat
  BY DEF ProcType
<1> QED
  BY <1>1, <1>2, <1>3 DEF BindingDigest, BindingType, BindingSound

LEMMA LockBindingStep ==
    ASSUME NEW p \in Procs, IInv, LockBinding(p)
    PROVE  IInv'
<1> DEFINE r == [proc[p] EXCEPT !.pc = "cached"]
<1>1. /\ proc[p] \in ProcType /\ proc \in [Procs -> ProcType] /\ Good(proc[p])
      /\ proc[p].pc = "lock" /\ build \in BuildType
  BY Fields DEF LockBinding, At
<1>2. CASE GpuRefused(p) /\ locks' = locks
  BY <1>1, <1>2, Fields, RefusedStep DEF LockBinding, JitSteps
<1>3. CASE Go(p, "cached") /\ locks' = locks \cup {<<BindingDigest(proc[p]), p>>}
  <2>1. proc' = [proc EXCEPT ![p] = r]
    BY <1>1, <1>3 DEF Go
  <2>2. /\ r.pc = "cached" /\ r.req = proc[p].req /\ r.cpu = proc[p].cpu
        /\ r.compiler = proc[p].compiler /\ r.ww = proc[p].ww
    BY <1>1 DEF ProcType
  <2>3. r \in ProcType
    BY <1>1 DEF ProcType
  <2> HIDE DEF r
  <2>4. Good(r)
    BY <1>1, <2>2
       DEF Good, Settled, CpuSound, Admitted, JitSteps, CompilerKept, Recorded, Writing, PlanSound
  <2>5. locks' \in SUBSET (BindingType \X Procs)
    BY <1>1, <1>3, Digest, Fields
  <2> QED
    BY <2>1, <2>3, <2>4, <2>5, Fields, QuietStep DEF LockBinding
<1> QED
  BY <1>2, <1>3 DEF LockBinding

LEMMA Released ==
    ASSUME NEW p \in Procs, IInv, Release(p)
    PROVE  locks' \in SUBSET (BindingType \X Procs)
BY Fields DEF Release

\* A product that verifies against the binding of this request is what its
\* label says, whoever compiled it and under whatever waiver.
LEMMA HitSound ==
    ASSUME NEW p \in Procs, IInv, NEW entry \in cache, Verifies(p, entry)
    PROVE  Product(p, entry) \in RouteType /\ ProductSound(Product(p, entry))
<1>1. proc[p] \in ProcType /\ build \in BuildType /\ entry \in EntryType /\ EntrySound(entry)
  BY Fields DEF IInv, TypeOK, SharedType
<1>2. /\ entry.binding = BindingDigest(proc[p])
      /\ entry.binding.arch = proc[p].arch /\ entry.binding.compiler = proc[p].compiler
  BY <1>1, Digest DEF Verifies
<1>3. /\ entry.label \in JitLabels
      /\ entry.label = "certified" =>
           proc[p].arch = "judged" /\ (entry.image.compiler = "judged" \/ entry.swapped)
      /\ entry.label # "experimental" => ~entry.tainted /\ build.jitCore
  BY <1>1, <1>2 DEF EntrySound, BindingSound, EntryType, JitLabels
<1>4. entry.image \in ImageType /\ entry.tainted \in BOOLEAN /\ entry.swapped \in BOOLEAN
  BY <1>1 DEF EntryType
<1>5. proc[p].arch \in Arches /\ proc[p].driver \in Nat /\ proc[p].compiler \in Compilers
  BY <1>1 DEF ProcType
<1> QED
  BY <1>3, <1>4, <1>5 DEF Product, LabelOfProduct, RouteType, ProductSound

\* A process that holds such a product.
LEMMA HitGood ==
    ASSUME NEW p \in Procs, IInv, proc[p].pc \in {"cached", "reread"},
           NEW entry \in cache, Verifies(p, entry)
    PROVE  LET r == [proc[p] EXCEPT !.pc = "built", !.gpu = Product(p, entry)] IN
           r \in ProcType /\ Good(r)
<1> DEFINE g == Product(p, entry)
           r == [proc[p] EXCEPT !.pc = "built", !.gpu = g]
<1>1. proc[p] \in ProcType /\ Good(proc[p])
  BY Fields
<1>2. g \in RouteType /\ ProductSound(g)
  BY HitSound
<1> HIDE DEF g
<1>3. r.pc = "built" /\ r.gpu = g /\ r.req = proc[p].req /\ r.cpu = proc[p].cpu
  BY <1>1 DEF ProcType
<1>4. r \in ProcType
  BY <1>1, <1>2 DEF ProcType
<1> HIDE DEF r
<1>5. Good(r)
  BY <1>1, <1>2, <1>3
     DEF Good, Settled, CpuSound, Admitted, JitSteps, CompilerKept, Recorded, Writing, PlanSound
<1> QED
  BY <1>4, <1>5 DEF r, g

\* A step that also rewrites the cache.
LEMMA CacheStep ==
    ASSUME NEW p \in Procs, IInv, NEW r \in ProcType, proc' = [proc EXCEPT ![p] = r], Good(r),
           UNCHANGED <<build, machine, temps, records, compared, budget>>,
           locks' \in SUBSET (BindingType \X Procs),
           cache' \in SUBSET EntryType, \A e \in cache' : EntrySound(e)
    PROVE  IInv'
<1>1. proc'[p] = r
  BY DEF IInv, TypeOK
<1>2. Good(proc[p])'
  BY <1>1, GoodStable
<1>3. SharedType'
  BY DEF IInv, TypeOK, SharedType
<1>4. \A f \in temps' \cup records' : FileSound(f)'
  BY DEF IInv, FileSound
<1> QED
  BY <1>2, <1>3, <1>4, StepKeeps

LEMMA ReadCachedStep ==
    ASSUME NEW p \in Procs, IInv, ReadCached(p)
    PROVE  IInv'
<1>1. /\ proc[p] \in ProcType /\ proc \in [Procs -> ProcType] /\ Good(proc[p])
      /\ proc[p].pc = "cached"
  BY Fields DEF ReadCached, At
<1>2. ASSUME NEW entry \in cache, Verifies(p, entry), Release(p), cache' = cache,
             proc' = [proc EXCEPT ![p].pc = "built", ![p].gpu = Product(p, entry)]
      PROVE  IInv'
  <2> DEFINE r == [proc[p] EXCEPT !.pc = "built", !.gpu = Product(p, entry)]
  <2>1. proc' = [proc EXCEPT ![p] = r]
    BY <1>1, <1>2
  <2>2. r \in ProcType /\ Good(r)
    BY <1>1, <1>2, HitGood
  <2> HIDE DEF r
  <2> QED
    BY <1>2, <2>1, <2>2, Released, Fields, QuietStep DEF ReadCached
<1>3. CASE /\ cache' = {entry \in cache : entry.binding # BindingDigest(proc[p])}
           /\ Go(p, "run") /\ locks' = locks
  <2> DEFINE r == [proc[p] EXCEPT !.pc = "run"]
  <2>1. proc' = [proc EXCEPT ![p] = r]
    BY <1>1, <1>3 DEF Go
  <2>2. /\ r.pc = "run" /\ r.req = proc[p].req /\ r.cpu = proc[p].cpu
        /\ r.compiler = proc[p].compiler /\ r.ww = proc[p].ww
    BY <1>1 DEF ProcType
  <2>3. r \in ProcType
    BY <1>1 DEF ProcType
  <2> HIDE DEF r
  <2>4. Good(r)
    BY <1>1, <2>2
       DEF Good, Settled, CpuSound, Admitted, JitSteps, CompilerKept, Recorded, Writing, PlanSound
  <2>5. cache' \in SUBSET EntryType /\ \A e \in cache' : EntrySound(e)
    BY <1>3 DEF IInv, TypeOK, SharedType
  <2> QED
    BY <1>3, <2>1, <2>3, <2>4, <2>5, Fields, CacheStep DEF ReadCached
<1> QED
  BY <1>2, <1>3 DEF ReadCached

\* NVCC ran from the path the process probed, whatever was there by then.
LEMMA CompilerEndsStep ==
    ASSUME NEW p \in Procs, IInv, CompilerEnds(p)
    PROVE  IInv'
<1>1. /\ proc[p] \in ProcType /\ proc \in [Procs -> ProcType] /\ Good(proc[p])
      /\ proc[p].pc = "run" /\ machine \in MachineType
  BY Fields DEF CompilerEnds, At
<1>2. CASE GpuRefused(p) /\ Release(p)
  BY <1>1, <1>2, Released, RefusedStep DEF CompilerEnds, JitSteps
<1>3. CASE /\ proc' = [proc EXCEPT ![p].pc = "publish",
                 ![p].gpu.image = Image(machine.compiler, proc[p].arch),
                 ![p].gpu.swapped = machine.compiler # proc[p].compiler]
           /\ locks' = locks
  <2> DEFINE b == machine.compiler # proc[p].compiler
             g == [proc[p].gpu EXCEPT !.image = Image(machine.compiler, proc[p].arch),
                                      !.swapped = b]
             r == [proc[p] EXCEPT !.pc = "publish", !.gpu = g]
  <2>1. proc' = [proc EXCEPT ![p] = r]
    BY <1>1, <1>3
  <2>2. g \in RouteType /\ (g.swapped \/ g.image.compiler = proc[p].compiler)
    <3>1. Image(machine.compiler, proc[p].arch) \in ImageType
      BY <1>1 DEF Image, ImageType, ProcType, MachineType, Compilers
    <3>2. proc[p].gpu \in RouteType
      BY <1>1 DEF ProcType
    <3>3. b \in BOOLEAN
      OBVIOUS
    <3> HIDE DEF b
    <3>4. /\ g \in RouteType /\ g.image = Image(machine.compiler, proc[p].arch)
          /\ g.swapped = b
      BY <3>1, <3>2, <3>3 DEF RouteType
    <3>5. ~b => g.image.compiler = proc[p].compiler
      BY <3>4 DEF Image, b
    <3> QED
      BY <3>3, <3>4, <3>5
  <2> HIDE DEF g
  <2>3. /\ r.pc = "publish" /\ r.req = proc[p].req /\ r.cpu = proc[p].cpu /\ r.gpu = g
        /\ r.compiler = proc[p].compiler /\ r.ww = proc[p].ww
    BY <1>1 DEF ProcType
  <2>4. r \in ProcType
    BY <1>1, <2>2 DEF ProcType
  <2> HIDE DEF r
  <2>5. Good(r)
    BY <1>1, <2>2, <2>3
       DEF Good, Settled, CpuSound, Admitted, JitSteps, CompilerKept, Recorded, Writing, PlanSound
  <2> QED
    BY <1>3, <2>1, <2>4, <2>5, Fields, QuietStep DEF CompilerEnds
<1> QED
  BY <1>2, <1>3 DEF CompilerEnds

LEMMA DeadlineStep ==
    ASSUME NEW p \in Procs, IInv, Deadline(p)
    PROVE  IInv'
BY Released, RefusedStep DEF Deadline, At, JitSteps

\* What is published carries its own binding, and was made by its compiler
\* unless that was replaced under the build.
LEMMA PublishStep ==
    ASSUME NEW p \in Procs, IInv, Publish(p)
    PROVE  IInv'
<1> DEFINE q == proc[p]
           evidence == AdmittedEvidence(q.arch, q.compiler)
           e == [binding |-> BindingDigest(q), image |-> q.gpu.image, whole |-> TRUE,
                 label |-> JitAssurance(evidence, q.ww), tainted |-> q.ww,
                 swapped |-> q.gpu.swapped]
           r == [proc[p] EXCEPT !.pc = "reread"]
<1>1. /\ q \in ProcType /\ proc \in [Procs -> ProcType] /\ Good(q)
      /\ q.pc = "publish" /\ build \in BuildType
  BY Fields DEF Publish, At
<1>2. /\ JitAssurance(evidence, q.ww) \in JitLabels
      /\ JitAssurance(evidence, q.ww) = "certified" => CertifiedBinding(evidence, q.ww)
      /\ JitAssurance(evidence, q.ww) # "experimental" => ~q.ww /\ build.jitCore
  BY <1>1 DEF JitAssurance, JitLabels, CertifiedBinding, AdmittedEvidence
<1>3. /\ BindingDigest(q) \in BindingType /\ BindingSound(BindingDigest(q))
      /\ BindingDigest(q).compiler = q.compiler
      /\ BindingDigest(q).certified = CertifiedBinding(evidence, q.ww)
  BY <1>1, Digest
<1>4. q.gpu.image \in ImageType /\ q.ww \in BOOLEAN /\ q.gpu.swapped \in BOOLEAN
  BY <1>1 DEF ProcType, RouteType
<1>5. q.gpu.swapped \/ q.gpu.image.compiler = q.compiler
  BY <1>1 DEF Good, Settled, CompilerKept
<1>6. e \in EntryType
  BY <1>2, <1>3, <1>4 DEF EntryType
<1>7. EntrySound(e)
  BY <1>2, <1>3, <1>5 DEF EntrySound
<1>8. cache' = cache \cup {e} /\ proc' = [proc EXCEPT ![p] = r]
  BY <1>1 DEF Publish, Go
<1> HIDE DEF e
<1>9. r.pc = "reread" /\ r.req = proc[p].req /\ r.cpu = proc[p].cpu
  BY <1>1 DEF ProcType
<1>10. r \in ProcType
  BY <1>1 DEF ProcType
<1> HIDE DEF r
<1>11. Good(r)
  BY <1>1, <1>9
     DEF Good, Settled, CpuSound, Admitted, JitSteps, CompilerKept, Recorded, Writing, PlanSound
<1>12. cache' \in SUBSET EntryType /\ \A x \in cache' : EntrySound(x)
  BY <1>6, <1>7, <1>8 DEF IInv, TypeOK, SharedType
<1> QED
  BY <1>8, <1>10, <1>11, <1>12, Fields, CacheStep DEF Publish

LEMMA RereadStep ==
    ASSUME NEW p \in Procs, IInv, Reread(p)
    PROVE  IInv'
<1>1. /\ proc[p] \in ProcType /\ proc \in [Procs -> ProcType] /\ proc[p].pc = "reread"
  BY Fields DEF Reread, At
<1>2. ASSUME NEW entry \in cache, Verifies(p, entry),
             proc' = [proc EXCEPT ![p].pc = "built", ![p].gpu = Product(p, entry)]
      PROVE  IInv'
  <2> DEFINE r == [proc[p] EXCEPT !.pc = "built", !.gpu = Product(p, entry)]
  <2>1. proc' = [proc EXCEPT ![p] = r]
    BY <1>1, <1>2
  <2>2. r \in ProcType /\ Good(r)
    BY <1>1, <1>2, HitGood
  <2> HIDE DEF r
  <2> QED
    BY <1>2, <2>1, <2>2, Released, Fields, QuietStep DEF Reread
<1>3. CASE GpuRefused(p)
  BY <1>1, <1>3, Released, RefusedStep DEF Reread, JitSteps
<1> QED
  BY <1>2, <1>3 DEF Reread

\* The policy decides about a product again, whoever's waiver let it in.
LEMMA BuildJitStep ==
    ASSUME NEW p \in Procs, IInv, BuildJit(p)
    PROVE  IInv'
<1> DEFINE g == proc[p].gpu
           policy == proc[p].req.policy
           route == JitRoute(g.label, policy)
<1>1. /\ proc[p] \in ProcType /\ proc \in [Procs -> ProcType] /\ Good(proc[p])
      /\ proc[p].pc = "built" /\ g \in RouteType
  BY Fields DEF BuildJit, At, ProcType
<1>2. CASE GpuRefused(p)
  BY <1>1, <1>2, Fields, RefusedStep DEF BuildJit, JitSteps
<1>3. CASE Answer(p, "ok") /\ proc[p].req.call = "compile"
  <2> DEFINE r == [proc[p] EXCEPT !.pc = "done", !.res = "ok"]
  <2>1. proc' = [proc EXCEPT ![p] = r]
    BY <1>1, <1>3 DEF Answer
  <2>2. r.pc = "done" /\ r.req = proc[p].req /\ r.cpu = proc[p].cpu
    BY <1>1 DEF ProcType
  <2>3. r \in ProcType
    BY <1>1 DEF ProcType
  <2> HIDE DEF r
  <2>4. Good(r)
    BY <1>1, <1>3, <2>2
       DEF Good, Settled, CpuSound, Admitted, JitSteps, CompilerKept, Recorded, Writing, PlanSound
  <2> QED
    BY <2>1, <2>3, <2>4, Fields, QuietStep DEF BuildJit
<1>4. CASE /\ proc[p].req.call # "compile" /\ route # None
           /\ proc' = [proc EXCEPT ![p].pc = "label", ![p].gpu.label = route]
  <2> DEFINE g2 == [g EXCEPT !.label = route]
             r == [proc[p] EXCEPT !.pc = "label", !.gpu = g2]
  <2>1. proc' = [proc EXCEPT ![p] = r]
    BY <1>1, <1>4
  <2>2. /\ route \in RouteLabels
        /\ route = "judged" => g.label = "certified"
        /\ route = "unjudged" => g.label = "supported_untested" /\ AdmitsUnjudgedDevice(policy)
        /\ route = "experimental" => policy = "experimental"
    BY <1>4 DEF JitRoute, RouteLabels, None
  <2> HIDE DEF route
  <2>3. /\ g2 \in RouteType /\ g2.label = route /\ g2.arch = g.arch /\ g2.image = g.image
        /\ g2.tainted = g.tainted /\ g2.swapped = g.swapped /\ g2.delivery = g.delivery
    BY <1>1, <2>2 DEF RouteType
  <2>4. ProductSound(g)
    BY <1>1 DEF Good, Settled
  <2> HIDE DEF g2
  <2>5. RouteSound(g2, policy)
    BY <2>2, <2>3, <2>4 DEF RouteSound, ProductSound, RouteLabels
  <2>6. r.pc = "label" /\ r.req = proc[p].req /\ r.cpu = proc[p].cpu /\ r.gpu = g2
    BY <1>1 DEF ProcType
  <2>7. r \in ProcType
    BY <1>1, <2>3 DEF ProcType
  <2> HIDE DEF r
  <2>8. Good(r)
    BY <1>1, <1>4, <2>5, <2>6
      
          DEF Good, Settled, CpuSound, Admitted, JitSteps, CompilerKept, Recorded, Writing, PlanSound
  <2> QED
    BY <2>1, <2>7, <2>8, Fields, QuietStep DEF BuildJit
<1> QED
  BY <1>2, <1>3, <1>4 DEF BuildJit

-----------------------------------------------------------------------------
(* The plan. *)

\* The label of the GPU route that was opened.
LEMMA GpuLabel ==
    ASSUME NEW p \in Procs, IInv, At(p, "label") \/ At(p, "plan")
    PROVE  LET gpu == LabelGpu(p)
               g == proc[p].gpu
           IN  /\ gpu \in {None, "certified", "experimental", "locally_verified", "supported"}
               /\ gpu # None <=> At(p, "label")
               /\ gpu = "certified" => At(p, "label") /\ g.label = "judged"
               /\ gpu = "experimental" => At(p, "label") /\ g.label = "experimental"
               /\ gpu \in {"locally_verified", "supported"} => g.label = "unjudged"
               /\ gpu = "locally_verified" => Combination("gpu", g) \in compared
<1>1. At(p, "label") => proc[p].gpu.label \in RouteLabels
  BY Fields DEF Good, Settled, RouteSound, At
<1>2. IsLocallyVerified(GpuKey(proc[p].gpu)) => GpuKey(proc[p].gpu) \in compared
  BY DEF IsLocallyVerified, IInv, FileSound
<1>3. GpuKey(proc[p].gpu) = Combination("gpu", proc[p].gpu)
  BY DEF GpuKey, Combination
<1>4. CASE At(p, "plan")
  BY <1>4 DEF LabelGpu, At, None
<1>5. CASE At(p, "label")
  <2> DEFINE g == proc[p].gpu
             gpu == LabelGpu(p)
  <2>1. g.label \in {"judged", "unjudged", "experimental"}
    BY <1>1, <1>5 DEF RouteLabels
  <2>2. gpu = IF g.label = "judged" THEN "certified"
              ELSE IF g.label = "experimental" THEN "experimental"
              ELSE IF IsLocallyVerified(GpuKey(g)) THEN "locally_verified" ELSE "supported"
    BY <1>5 DEF LabelGpu, At
  <2> HIDE DEF gpu
  <2>3. /\ gpu \in {"certified", "experimental", "locally_verified", "supported"}
        /\ gpu = "certified" => g.label = "judged"
        /\ gpu = "experimental" => g.label = "experimental"
        /\ gpu \in {"locally_verified", "supported"} => g.label = "unjudged"
        /\ gpu = "locally_verified" => Combination("gpu", g) \in compared
    BY <1>2, <1>3, <2>1, <2>2
  <2> QED
    BY <1>5, <2>3 DEF gpu, None
<1> QED
  BY <1>4, <1>5

LEMMA MakePlanStep ==
    ASSUME NEW p \in Procs, IInv, MakePlan(p)
    PROVE  IInv'
<1> DEFINE q == proc[p]
           gpu == LabelGpu(p)
           chain == {"hf"} \cup (IF gpu # None THEN {"gpu"} ELSE {})
                           \cup (IF q.cpu # None THEN {"fast_cpu"} ELSE {})
           cert == IF q.req.policy \in {"experimental", "reference"} THEN q.req.policy
                   ELSE IF gpu # None THEN gpu
                   ELSE IF q.cpu # None THEN q.cpu
                   ELSE "reference"
           pc == IF q.req.call \in {"verify", "forget"} THEN q.req.call ELSE "done"
<1>1. /\ q \in ProcType /\ proc \in [Procs -> ProcType] /\ Good(q)
      /\ At(p, "label") \/ At(p, "plan")
  BY Fields DEF MakePlan
<1>2. CASE Answer(p, "refused")
  <2> DEFINE r == [q EXCEPT !.pc = "done", !.res = "refused"]
  <2>1. proc' = [proc EXCEPT ![p] = r]
    BY <1>1, <1>2 DEF Answer
  <2>2. r.pc = "done" /\ r.req = q.req /\ r.cpu = q.cpu /\ r.res = "refused"
    BY <1>1 DEF ProcType
  <2>3. r \in ProcType
    BY <1>1 DEF ProcType
  <2> HIDE DEF r
  <2>4. Good(r)
    BY <1>1, <2>2
       DEF Good, Settled, CpuSound, Admitted, JitSteps, CompilerKept, Recorded, Writing, PlanSound
  <2> QED
    BY <2>1, <2>3, <2>4, Fields, QuietStep DEF MakePlan
<1>3. CASE /\ ~(q.req.policy = "required" /\ chain = {"hf"})
           /\ proc' = [proc EXCEPT ![p].backends = chain, ![p].cert = cert, ![p].pc = pc,
                                   ![p].res = "ok"]
  <2> DEFINE r == [q EXCEPT !.backends = chain, !.cert = cert, !.pc = pc, !.res = "ok"]
  <2>1. proc' = [proc EXCEPT ![p] = r]
    BY <1>1, <1>3, ZenonT(30)
  <2>2. /\ gpu \in {None, "certified", "experimental", "locally_verified", "supported"}
        /\ gpu # None <=> At(p, "label")
        /\ gpu = "certified" => q.gpu.label = "judged"
        /\ gpu = "experimental" => q.gpu.label = "experimental"
        /\ gpu \in {"locally_verified", "supported"} => q.gpu.label = "unjudged"
        /\ gpu = "locally_verified" => Combination("gpu", q.gpu) \in compared
    BY <1>1, GpuLabel
  <2> HIDE DEF gpu
  <2>3. /\ chain \in SUBSET {"hf", "gpu", "fast_cpu"}
        /\ "gpu" \in chain <=> gpu # None
        /\ "fast_cpu" \in chain <=> q.cpu # None
        /\ gpu = None /\ q.cpu = None => chain = {"hf"}
    BY DEF None
  <2>4. /\ q.req.policy = "experimental" => cert = "experimental"
        /\ q.req.policy = "reference" => cert = "reference"
        /\ q.req.policy \notin {"experimental", "reference"} =>
             cert = IF gpu # None THEN gpu ELSE IF q.cpu # None THEN q.cpu ELSE "reference"
    OBVIOUS
  <2>5. q.cpu \in {None} \cup CpuLabels
    BY <1>1 DEF ProcType
  <2>6. cert \in {None, "reference", "experimental", "certified"} \cup CpuLabels
    BY <2>2, <2>4, <2>5 DEF CpuLabels
  <2>7. pc \in {"verify", "forget", "done"}
    OBVIOUS
  <2>8. ~(q.req.policy = "required" /\ chain = {"hf"})
    BY <1>3
  <2> HIDE DEF chain, cert, pc
  <2>9. /\ r.pc = pc /\ r.req = q.req /\ r.cpu = q.cpu /\ r.gpu = q.gpu
        /\ r.backends = chain /\ r.cert = cert
    BY <1>1 DEF ProcType
  <2>10. r \in ProcType
    BY <1>1, <2>3, <2>6, <2>7 DEF ProcType
  <2> HIDE DEF r
  <2>11. /\ gpu # None => RouteSound(q.gpu, q.req.policy) /\ WantsGpu(q.req)
                          /\ AcceleratedBuildAllowed(q.req.policy)
         /\ CpuSound(q)
    BY <1>1, <2>2 DEF Good, Settled, Admitted, At
  <2>12. LabelSound(r)
    <3>1. cert = "certified" =>
            /\ q.gpu.arch = "judged" /\ RustApiBuildCertified
            /\ q.gpu.delivery = "jit" =>
                 build.jitCore /\ (q.gpu.image.compiler = "judged" \/ q.gpu.swapped)
      BY <2>2, <2>4, <2>5, <2>11 DEF RouteSound, AcceleratedBuildAllowed, CpuLabels
    <3>2. cert = "certified_source" => build.sources /\ build.recipe /\ build.fastSource
      BY <2>2, <2>4, <2>5, <2>11
         DEF CpuSound, RustApiBuildCertified, FastCpuRoute, FastCpuBound, CpuLabels, None
    <3>3. cert = "locally_verified" => Combination(Engaged(r), r.gpu) \in compared
      <4>1. CpuKey = Combination("cpu", r.gpu)
        BY DEF Combination
      <4> QED
        BY <2>2, <2>3, <2>4, <2>5, <2>9, <2>11, <4>1 DEF CpuSound, Engaged, CpuLabels, None
    <3>4. cert \in {"supported", "locally_verified"} => ~("gpu" \in chain /\ q.gpu.tainted)
      BY <2>2, <2>3, <2>4, <2>11 DEF RouteSound, None
    <3> QED
      BY <2>9, <3>1, <3>2, <3>3, <3>4 DEF LabelSound
  <2>13. PolicySound(r)
    <3>1. q.req.policy = "reference" => chain = {"hf"}
      BY <2>3, <2>11 DEF WantsGpu, CpuSound, FastCpuRoute
    <3>2. q.req.policy = "certified" /\ "gpu" \in chain => q.gpu.arch = "judged"
      BY <2>3, <2>11 DEF RouteSound, AdmitsUnjudgedDevice, RouteLabels
    <3>3. "gpu" \in chain /\ q.gpu.delivery = "jit" /\ (q.gpu.tainted \/ ~build.jitCore)
            => q.req.policy = "experimental"
      BY <2>3, <2>11 DEF RouteSound
    <3>4. "fast_cpu" \in chain /\ ~build.sources => q.req.policy = "experimental"
      BY <2>3, <2>11 DEF CpuSound, FastCpuRoute, FastCpuBuildAllowed, AcceleratedBuildAllowed,
                         RustApiBuildCertified, RustApiSourcesJudged
    <3> QED
      BY <2>8, <2>9, <3>1, <3>2, <3>3, <3>4 DEF PolicySound
  <2>14. Good(r)
    BY <1>1, <2>7, <2>9, <2>12, <2>13
      
          DEF Good, Settled, CpuSound, Admitted, JitSteps, CompilerKept, Recorded, Writing, PlanSound
  <2> QED
    BY <2>1, <2>10, <2>14, Fields, QuietStep DEF MakePlan
<1> QED
  BY <1>2, <1>3 DEF MakePlan

-----------------------------------------------------------------------------
(* Local verification. *)

\* A call that ends without a plan.
LEMMA Ended ==
    ASSUME NEW p \in Procs, IInv, NEW res \in {"unrecorded", "recorded", "io", "forgotten"}
    PROVE  LET r == [proc[p] EXCEPT !.pc = "done", !.res = res] IN r \in ProcType /\ Good(r)
<1> DEFINE r == [proc[p] EXCEPT !.pc = "done", !.res = res]
<1>1. proc[p] \in ProcType /\ Good(proc[p])
  BY Fields
<1>2. r.pc = "done" /\ r.res = res /\ r.req = proc[p].req /\ r.cpu = proc[p].cpu
  BY <1>1 DEF ProcType
<1>3. r \in ProcType
  BY <1>1 DEF ProcType
<1> HIDE DEF r
<1>4. Good(r)
  BY <1>1, <1>2
     DEF Good, Settled, CpuSound, Admitted, JitSteps, CompilerKept, Recorded, Writing, PlanSound
<1> QED
  BY <1>3, <1>4 DEF r

\* A writer that goes on with the record it has in hand.
LEMMA Continued ==
    ASSUME NEW p \in Procs, IInv, Writing(proc[p]), NEW pc \in {"create", "write", "rename"}
    PROVE  LET r == [proc[p] EXCEPT !.pc = pc] IN r \in ProcType /\ Good(r)
<1> DEFINE r == [proc[p] EXCEPT !.pc = pc]
<1>1. proc[p] \in ProcType /\ Good(proc[p])
  BY Fields
<1>2. /\ r.pc = pc /\ r.req = proc[p].req /\ r.cpu = proc[p].cpu
      /\ r.gpu = proc[p].gpu /\ r.status = proc[p].status
  BY <1>1 DEF ProcType
<1>3. r \in ProcType
  BY <1>1 DEF ProcType
<1> HIDE DEF r
<1>4. Writing(r) => /\ r.status \in {"passed", "failed"}
                    /\ r.status = "passed" => RecordKey(r) \in compared
  BY <1>1, <1>2 DEF Good, Recorded, RecordKey
<1>5. Good(r)
  BY <1>1, <1>2, <1>4
     DEF Good, Settled, CpuSound, Admitted, JitSteps, CompilerKept, Recorded, PlanSound
<1> QED
  BY <1>3, <1>5 DEF r

\* A step that rewrites the record directory.
LEMMA FileStep ==
    ASSUME NEW p \in Procs, IInv, NEW r \in ProcType, proc' = [proc EXCEPT ![p] = r], Good(r),
           UNCHANGED <<build, machine, cache, compared>>,
           locks' \in SUBSET (BindingType \X Procs), budget' \in [calls : Nat, faults : Nat],
           temps' \in SUBSET FileType, records' \in SUBSET FileType,
           \A f \in temps' \cup records' : FileSound(f)
    PROVE  IInv'
<1>1. proc'[p] = r
  BY DEF IInv, TypeOK
<1>2. Good(proc[p])'
  BY <1>1, GoodStable
<1>3. SharedType'
  BY DEF IInv, TypeOK, SharedType
<1>4. \A f \in temps' \cup records' : FileSound(f)'
  BY DEF FileSound
<1>5. \A e \in cache' : EntrySound(e)
  BY DEF IInv
<1> QED
  BY <1>2, <1>3, <1>4, <1>5, StepKeeps

LEMMA Files ==
    ASSUME IInv
    PROVE  /\ temps \in SUBSET FileType /\ records \in SUBSET FileType
           /\ \A f \in temps \cup records : FileSound(f)
BY DEF IInv, TypeOK, SharedType

\* The key a comparison is filed under is what it compared.
LEMMA KeySound ==
    ASSUME NEW p \in Procs, IInv
    PROVE  /\ KeyOf(p) = RecordKey(proc[p]) /\ KeyOf(p) = Combination(Engine(p), proc[p].gpu)
           /\ KeyOf(p) \in KeyType
<1>1. proc[p].gpu \in RouteType
  BY Fields DEF ProcType
<1>2. CpuKey \in KeyType
  BY DEF CpuKey, KeyType, NoImage, Image, ImageType, Arches, Compilers, None
<1>3. GpuKey(proc[p].gpu) \in KeyType
  BY <1>1 DEF GpuKey, KeyType, RouteType
<1> QED
  BY <1>2, <1>3 DEF KeyOf, RecordKey, Engine, Combination, GpuKey

\* A step that may add a comparison and carries its outcome on.
LEMMA ComparisonStep ==
    ASSUME NEW p \in Procs, IInv, NEW r \in ProcType, proc' = [proc EXCEPT ![p] = r],
           UNCHANGED <<build, machine, cache, locks, temps, records, budget>>,
           compared \subseteq compared', compared' \in SUBSET KeyType,
           Settled(r), r.status \in {"passed", "failed"},
           r.status = "passed" => RecordKey(r) \in compared'
    PROVE  IInv'
<1>1. proc'[p] = r
  BY DEF IInv, TypeOK
<1>2. Recorded(r)'
  BY DEF Recorded, RecordKey, CpuKey, GpuKey
<1>3. Good(proc[p])'
  BY <1>1, <1>2, SettledStable
<1>4. SharedType'
  BY DEF IInv, TypeOK, SharedType
<1>5. \A f \in temps' \cup records' : FileSound(f)'
  BY DEF IInv, FileSound
<1>6. \A e \in cache' : EntrySound(e)
  BY DEF IInv
<1> QED
  BY <1>3, <1>4, <1>5, <1>6, StepKeeps

LEMMA CompareStep ==
    ASSUME NEW p \in Procs, IInv, Compare(p)
    PROVE  IInv'
<1>1. /\ proc[p] \in ProcType /\ proc \in [Procs -> ProcType] /\ Good(proc[p])
      /\ proc[p].pc = "verify"
  BY Fields DEF Compare, At
<1>2. CASE Answer(p, "unrecorded") /\ UNCHANGED compared
  <2> DEFINE r == [proc[p] EXCEPT !.pc = "done", !.res = "unrecorded"]
  <2>1. proc' = [proc EXCEPT ![p] = r]
    BY <1>1, <1>2 DEF Answer
  <2>2. r \in ProcType /\ Good(r)
    BY Ended
  <2> HIDE DEF r
  <2> QED
    BY <1>2, <2>1, <2>2, Fields, QuietStep DEF Compare
<1>3. ASSUME NEW status \in {"passed", "failed"},
             proc' = [proc EXCEPT ![p].pc = "clear", ![p].status = status],
             compared' = IF status = "passed"
                           THEN compared \cup {Combination(Engine(p), proc[p].gpu)}
                           ELSE compared
      PROVE  IInv'
  <2> DEFINE r == [proc[p] EXCEPT !.pc = "clear", !.status = status]
  <2>1. proc' = [proc EXCEPT ![p] = r]
    BY <1>1, <1>3
  <2>2. /\ r.pc = "clear" /\ r.req = proc[p].req /\ r.cpu = proc[p].cpu
        /\ r.gpu = proc[p].gpu /\ r.status = status
    BY <1>1 DEF ProcType
  <2>3. r \in ProcType
    BY <1>1 DEF ProcType
  <2> HIDE DEF r
  <2>4. RecordKey(r) = Combination(Engine(p), proc[p].gpu)
    BY <2>2, KeySound DEF RecordKey
  <2>5. /\ compared \subseteq compared' /\ compared' \in SUBSET KeyType
        /\ r.status = "passed" => RecordKey(r) \in compared'
    <3>1. compared \in SUBSET KeyType /\ Combination(Engine(p), proc[p].gpu) \in KeyType
      BY KeySound DEF IInv, TypeOK, SharedType
    <3> QED
      BY <1>3, <2>2, <2>4, <3>1
  <2>6. UNCHANGED <<build, machine, cache, locks, temps, records, budget>>
    BY DEF Compare
  <2> HIDE DEF r
  <2>7. Settled(r)
    BY <1>1, <2>2 DEF Good, Settled, CpuSound, Admitted, JitSteps, CompilerKept, PlanSound
  <2>8. r.status \in {"passed", "failed"}
    BY <2>2
  <2> QED
    BY <2>1, <2>3, <2>5, <2>6, <2>7, <2>8, ComparisonStep
<1> QED
  BY <1>2, <1>3 DEF Compare

LEMMA ClearTempStep ==
    ASSUME NEW p \in Procs, IInv, ClearTemp(p)
    PROVE  IInv'
<1> DEFINE r == [proc[p] EXCEPT !.pc = "create"]
<1>1. proc' = [proc EXCEPT ![p] = r]
  BY Fields DEF ClearTemp, Go
<1>2. r \in ProcType /\ Good(r)
  BY Continued DEF ClearTemp, At, Writing
<1> HIDE DEF r
<1>3. /\ temps' \in SUBSET FileType /\ records' \in SUBSET FileType
      /\ \A f \in temps' \cup records' : FileSound(f)
  BY Files DEF ClearTemp
<1> QED
  BY <1>1, <1>2, <1>3, Fields, FileStep DEF ClearTemp

\* The file that is created carries the outcome its writer has in hand.
LEMMA CreateTempStep ==
    ASSUME NEW p \in Procs, IInv, CreateTemp(p)
    PROVE  IInv'
<1>1. proc[p] \in ProcType /\ proc \in [Procs -> ProcType] /\ Good(proc[p])
  BY Fields
<1>2. Writing(proc[p])
  BY DEF CreateTemp, At, Writing
<1>3. CASE Answer(p, "io") /\ UNCHANGED temps
  <2> DEFINE r == [proc[p] EXCEPT !.pc = "done", !.res = "io"]
  <2>1. proc' = [proc EXCEPT ![p] = r]
    BY <1>1, <1>3 DEF Answer
  <2>2. r \in ProcType /\ Good(r)
    BY Ended
  <2> HIDE DEF r
  <2> QED
    BY <1>3, <2>1, <2>2, Fields, QuietStep DEF CreateTemp
<1>4. CASE /\ temps' = temps \cup {[key |-> KeyOf(p), by |-> p,
                                    status |-> proc[p].status, whole |-> FALSE]}
           /\ Go(p, "write")
  <2> DEFINE f == [key |-> KeyOf(p), by |-> p, status |-> proc[p].status, whole |-> FALSE]
             r == [proc[p] EXCEPT !.pc = "write"]
  <2>1. proc' = [proc EXCEPT ![p] = r]
    BY <1>1, <1>4 DEF Go
  <2>2. r \in ProcType /\ Good(r)
    BY <1>2, Continued
  <2>3. f \in FileType
    BY <1>1, <1>2, KeySound DEF Good, Recorded, FileType
  <2>4. FileSound(f)
    BY <1>1, <1>2, KeySound DEF Good, Recorded, FileSound
  <2> HIDE DEF r, f
  <2>5. /\ temps' \in SUBSET FileType /\ records' \in SUBSET FileType
        /\ \A g \in temps' \cup records' : FileSound(g)
    BY <1>4, <2>3, <2>4, Files DEF CreateTemp, f
  <2> QED
    BY <2>1, <2>2, <2>5, Fields, FileStep DEF CreateTemp
<1> QED
  BY <1>3, <1>4 DEF CreateTemp

\* Finishing or abandoning a file changes neither its key nor its outcome.
LEMMA Rewritten ==
    ASSUME NEW p \in Procs, NEW files \in SUBSET FileType, \A f \in files : FileSound(f)
    PROVE  /\ Finished(p, files) \in SUBSET FileType /\ \A f \in Finished(p, files) : FileSound(f)
           /\ Abandoned(p, files) \in SUBSET FileType
           /\ \A f \in Abandoned(p, files) : FileSound(f)
<1>1. ASSUME NEW f \in files
      PROVE  LET g == [f EXCEPT !.whole = TRUE, !.by = None]
                 h == [f EXCEPT !.by = None]
             IN  /\ g \in FileType /\ FileSound(g) /\ h \in FileType /\ FileSound(h)
                 /\ f \in FileType /\ FileSound(f)
  BY DEF FileType, FileSound
<1> QED
  BY <1>1 DEF Finished, Abandoned

LEMMA WriteTempStep ==
    ASSUME NEW p \in Procs, IInv, WriteTemp(p)
    PROVE  IInv'
<1> DEFINE r == [proc[p] EXCEPT !.pc = "rename"]
<1>1. proc' = [proc EXCEPT ![p] = r]
  BY Fields DEF WriteTemp, Go
<1>2. r \in ProcType /\ Good(r)
  BY Continued DEF WriteTemp, At, Writing
<1> HIDE DEF r
<1>3. /\ temps' \in SUBSET FileType /\ records' \in SUBSET FileType
      /\ \A f \in temps' \cup records' : FileSound(f)
  BY Files, Rewritten DEF WriteTemp
<1> QED
  BY <1>1, <1>2, <1>3, Fields, FileStep DEF WriteTemp

LEMMA RenameTempStep ==
    ASSUME NEW p \in Procs, IInv, RenameTemp(p)
    PROVE  IInv'
<1>1. PICK res \in {"recorded", "io"} : Answer(p, res)
  BY DEF RenameTemp
<1> DEFINE r == [proc[p] EXCEPT !.pc = "done", !.res = res]
<1>2. proc' = [proc EXCEPT ![p] = r]
  BY <1>1, Fields DEF Answer
<1>3. r \in ProcType /\ Good(r)
  BY Ended
<1> HIDE DEF r
<1>4. /\ temps' \in SUBSET FileType /\ records' \in SUBSET FileType
      /\ \A f \in temps' \cup records' : FileSound(f)
  BY Files DEF RenameTemp
<1> QED
  BY <1>2, <1>3, <1>4, Fields, FileStep DEF RenameTemp

LEMMA ForgetStep ==
    ASSUME NEW p \in Procs, IInv, Forget(p)
    PROVE  IInv'
<1> DEFINE r == [proc[p] EXCEPT !.pc = "done", !.res = "forgotten"]
<1>1. proc' = [proc EXCEPT ![p] = r]
  BY Fields DEF Forget, Answer
<1>2. r \in ProcType /\ Good(r)
  BY Ended
<1> HIDE DEF r
<1>3. /\ temps' \in SUBSET FileType /\ records' \in SUBSET FileType
      /\ \A f \in temps' \cup records' : FileSound(f)
  BY Files DEF Forget
<1> QED
  BY <1>1, <1>2, <1>3, Fields, FileStep DEF Forget

-----------------------------------------------------------------------------
(* The machine. *)

LEMMA CrashStep ==
    ASSUME NEW p \in Procs, IInv, Crash(p)
    PROVE  IInv'
<1>1. proc' = [proc EXCEPT ![p] = Idle]
  BY DEF Crash
<1>2. Idle.pc = "idle" /\ Idle.cpu = None
  BY DEF Idle
<1>3. Good(Idle)
  BY <1>2 DEF Good, Settled, CpuSound, Admitted, JitSteps, CompilerKept, Recorded, Writing,
              PlanSound, None
<1>4. /\ temps' \in SUBSET FileType /\ records' \in SUBSET FileType
      /\ \A f \in temps' \cup records' : FileSound(f)
  BY Files, Rewritten DEF Crash
<1>5. locks' \in SUBSET (BindingType \X Procs)
  BY Released DEF Crash
<1>6. budget' \in [calls : Nat, faults : Nat]
  BY Fields DEF Crash
<1> QED
  BY <1>1, <1>3, <1>4, <1>5, <1>6, IdleTyped, FileStep DEF Crash

\* A step of no process.
LEMMA MachineStep ==
    ASSUME IInv, UNCHANGED <<build, locks, temps, records, proc, compared>>,
           machine' \in MachineType, budget' \in [calls : Nat, faults : Nat],
           cache' \in SUBSET EntryType, \A e \in cache' : EntrySound(e)
    PROVE  IInv'
<1>1. ASSUME NEW p \in Procs PROVE Good(proc[p])'
  <2>1. ASSUME NEW r, r = proc[p] PROVE Good(r) /\ proc'[p] = r
    BY <2>1 DEF IInv
  <2> QED
    BY <2>1, GoodStable
<1>2. TypeOK'
  BY DEF IInv, TypeOK, SharedType
<1>3. \A e \in cache' : EntrySound(e)'
  BY DEF EntrySound, BindingSound
<1>4. \A f \in temps' \cup records' : FileSound(f)'
  BY DEF IInv, FileSound
<1> QED
  BY <1>1, <1>2, <1>3, <1>4 DEF IInv

LEMMA RotStep ==
    ASSUME NEW entry \in cache, IInv, Rot(entry)
    PROVE  IInv'
<1> DEFINE e == [entry EXCEPT !.whole = FALSE]
<1>1. entry \in EntryType /\ EntrySound(entry) /\ cache \in SUBSET EntryType
  BY DEF IInv, TypeOK, SharedType
<1>2. e \in EntryType /\ EntrySound(e)
  BY <1>1 DEF EntryType, EntrySound
<1>3. cache' = (cache \ {entry}) \cup {e}
  BY DEF Rot
<1> HIDE DEF e
<1>4. cache' \in SUBSET EntryType /\ \A x \in cache' : EntrySound(x)
  BY <1>1, <1>2, <1>3 DEF IInv
<1>5. machine' \in MachineType /\ budget' \in [calls : Nat, faults : Nat]
  BY DEF Rot, IInv, TypeOK, SharedType
<1> QED
  BY <1>4, <1>5, MachineStep DEF Rot

\* What is at the compiler's path now says nothing of the products.
LEMMA ChangeStep ==
    ASSUME IInv, Change
    PROVE  IInv'
<1>1. machine \in MachineType /\ budget \in [calls : Nat, faults : Nat]
  BY DEF IInv, TypeOK, SharedType
<1>2. machine' \in MachineType
  <2>1. CASE machine' = [machine EXCEPT !.driver = @ + 1]
    BY <1>1, <2>1 DEF MachineType
  <2>2. CASE machine' = [machine EXCEPT
               !.compiler = IF @ = "judged" THEN "other" ELSE "judged"]
    BY <1>1, <2>2 DEF MachineType
  <2>3. CASE machine' = [machine EXCEPT !.ww = ~@]
    BY <1>1, <2>3 DEF MachineType
  <2> QED
    BY <2>1, <2>2, <2>3 DEF Change
<1>3. budget' \in [calls : Nat, faults : Nat]
  BY <1>1 DEF Change
<1>4. cache' \in SUBSET EntryType /\ \A e \in cache' : EntrySound(e)
  BY DEF Change, IInv, TypeOK, SharedType
<1> QED
  BY <1>2, <1>3, <1>4, MachineStep DEF Change

-----------------------------------------------------------------------------
(* The specification. *)

LEMMA InitHolds == Init => IInv
<1> SUFFICES ASSUME Init PROVE IInv
  OBVIOUS
<1>1. PICK s \in Starts : /\ build = s.build /\ machine = s.machine
                          /\ budget = [calls |-> MaxCalls, faults |-> s.faults]
  BY DEF Init
<1>2. build \in BuildType /\ machine \in MachineType /\ budget \in [calls : Nat, faults : Nat]
  BY <1>1, StartsAssumption, BoundAssumption
<1>3. SharedType
  BY <1>2 DEF Init, SharedType
<1>4. proc \in [Procs -> ProcType]
  BY IdleTyped DEF Init
<1>5. Good(Idle)
  BY DEF Idle, Good, Settled, CpuSound, Admitted, JitSteps, CompilerKept, Recorded, Writing,
         PlanSound, None
<1>6. \A p \in Procs : Good(proc[p])
  BY <1>5 DEF Init
<1> QED
  BY <1>3, <1>4, <1>6 DEF Init, IInv, TypeOK

LEMMA NextKeeps == IInv /\ [Next]_vars => IInv'
<1> SUFFICES ASSUME IInv, [Next]_vars PROVE IInv'
  OBVIOUS
<1>1. ASSUME NEW p \in Procs, NEW req \in Requests, Begin(p, req) PROVE IInv'
  BY <1>1, BeginStep
<1>2. ASSUME NEW p \in Procs, Step(p) PROVE IInv'
  <2>1. CASE BuildFastCpu(p) \/ BuildPrebuilt(p) \/ BuildJit(p) \/ MakePlan(p)
    BY <2>1, BuildFastCpuStep, BuildPrebuiltStep, BuildJitStep, MakePlanStep
  <2>2. CASE ProbeDevice(p) \/ ProbeCompiler(p) \/ LockBinding(p) \/ ReadCached(p)
    BY <2>2, ProbeDeviceStep, ProbeCompilerStep, LockBindingStep, ReadCachedStep
  <2>3. CASE Deadline(p) \/ Publish(p) \/ Reread(p)
    BY <2>3, DeadlineStep, PublishStep, RereadStep
  <2>4. CASE Compare(p) \/ ClearTemp(p) \/ CreateTemp(p) \/ WriteTemp(p) \/ RenameTemp(p)
    BY <2>4, CompareStep, ClearTempStep, CreateTempStep, WriteTempStep, RenameTempStep
  <2>5. CASE Forget(p)
    BY <2>5, ForgetStep
  <2> QED
    BY <1>2, <2>1, <2>2, <2>3, <2>4, <2>5 DEF Step
<1>3. ASSUME NEW p \in Procs, CompilerEnds(p) PROVE IInv'
  BY <1>3, CompilerEndsStep
<1>4. ASSUME NEW p \in Procs, Crash(p) PROVE IInv'
  BY <1>4, CrashStep
<1>5. ASSUME NEW entry \in cache, Rot(entry) PROVE IInv'
  BY <1>5, RotStep
<1>6. CASE Change
  BY <1>6, ChangeStep
<1>7. CASE UNCHANGED vars
  <2>1. machine' \in MachineType /\ budget' \in [calls : Nat, faults : Nat]
    BY <1>7 DEF vars, IInv, TypeOK, SharedType
  <2>2. cache' \in SUBSET EntryType /\ \A e \in cache' : EntrySound(e)
    BY <1>7 DEF vars, IInv, TypeOK, SharedType
  <2> QED
    BY <1>7, <2>1, <2>2, MachineStep DEF vars
<1> QED
  BY <1>1, <1>2, <1>3, <1>4, <1>5, <1>6, <1>7 DEF Next

\* The inductive invariant holds of every reachable state: every product,
\* record and route is typed and says no more than what made it.
THEOREM RouteInvariance == Spec => []IInv
<1>1. Init => IInv
  BY InitHolds
<1>2. IInv /\ [Next]_vars => IInv'
  BY NextKeeps
<1> QED
  BY <1>1, <1>2, PTL DEF Spec

\* A finished plan is what the invariant says of it.
LEMMA PlannedSound ==
    ASSUME IInv, NEW p \in Procs, Planned(p)
    PROVE  LabelSound(proc[p]) /\ PolicySound(proc[p])
BY DEF IInv, Good, Settled, PlanSound, Planned

\* Whatever crashed, rotted or changed meanwhile, the label of a plan is
\* backed by what the plan names (runtime.rs, build_tokenizer; jit.rs,
\* read_cached; verify_local.rs, is_locally_verified).
THEOREM LabelsJustified == Spec => []LabelJustified
<1>1. IInv => LabelJustified
  <2> SUFFICES ASSUME IInv PROVE LabelJustified
    OBVIOUS
  <2>1. \A p \in Procs : Planned(p) => LabelSound(proc[p])
    BY PlannedSound
  <2> QED
    BY <2>1 DEF LabelJustified, LabelSound, RunsGpu, Engaged
<1> QED
  BY <1>1, RouteInvariance, PTL

\* A route runs only where the caller's own policy admits it, also when
\* another caller's waiver put the product in the cache (runtime.rs,
\* build_jit; jit.rs, compile_product).
THEOREM PoliciesHonoured == Spec => []PolicyHonoured
<1>1. IInv => PolicyHonoured
  <2> SUFFICES ASSUME IInv PROVE PolicyHonoured
    OBVIOUS
  <2>1. \A p \in Procs : Planned(p) => PolicySound(proc[p])
    BY PlannedSound
  <2> QED
    BY <2>1 DEF PolicyHonoured, PolicySound, RunsGpu
<1> QED
  BY <1>1, RouteInvariance, PTL
=============================================================================

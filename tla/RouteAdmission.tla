--------------------------- MODULE RouteAdmission ---------------------------
(***************************************************************************)
(* Which route a tokenizer may take and what it may be called              *)
(* (toktier/src/runtime.rs, gpu_data.rs, manifest.rs, behavior_version.rs),*)
(* with the two caches that decision reads: the JIT product cache (jit.rs) *)
(* and the local verification records (verify_local.rs).                   *)
(*                                                                         *)
(* Processes on one machine load, compile, verify and forget while the     *)
(* driver is upgraded, the compiler is replaced, its permissions change,   *)
(* cached products rot and processes crash.                                *)
(*                                                                         *)
(* Digests stand for what they are taken over.  A compiler is "judged" or  *)
(* another; `ww` says that a component of its path is world-writable.      *)
(* Compiler and permissions may change at any moment.  The code looks at   *)
(* both once, before it runs the compiler: `tainted` and `swapped` record  *)
(* of a product that the path was writable then, and that another compiler *)
(* was there when it ran.  Reasons and message texts are left out.         *)
(***************************************************************************)
EXTENDS Naturals, FiniteSets

CONSTANTS
  Procs,
  Starts,      \* the builds and machines a run looks at; `faults` bounds the
               \* crashes, damaged products and changes to the machine
  Requests,    \* what processes ask for
  MaxCalls     \* bound: calls begun

Policies == {"supported", "certified", "reference", "required", "experimental"}
None == "none"

ASSUME RequestsAssumption ==
  Requests \subseteq [call : {"load", "compile", "verify", "forget"}, policy : Policies,
                      device : {"auto", "cpu", "cuda"},
                      delivery : {"prebuilt", "jit", "disabled"}, waive : BOOLEAN]

BuildType ==
  [sources : BOOLEAN, recipe : BOOLEAN, closure : STRING, probe : STRING, drift : BOOLEAN,
   versions : BOOLEAN, family : STRING, fastSource : BOOLEAN, fastToolchain : BOOLEAN,
   hostSource : BOOLEAN, jitCore : BOOLEAN]
MachineType ==
  [arch : {"judged", "experimental", "other", None}, driver : Nat,
   compiler : {"judged", "other"}, ww : BOOLEAN]

ASSUME StartsAssumption ==
  Starts \subseteq [build : BuildType, machine : MachineType, faults : Nat]
ASSUME BoundAssumption == MaxCalls \in Nat

VARIABLES
  build,     \* what the build script and the registry say of this binary
  machine,   \* device architecture, driver, compiler and its permissions
  cache,     \* the JIT cache: at most one entry per binding
  locks,     \* <<binding, process>>: the .locks files held
  temps,     \* <key>.tmp of the record directory
  records,   \* <key>.json of the record directory
  proc,      \* each process's call in progress
  compared,  \* history: combinations a comparison found in agreement
  budget     \* what the bounds leave

vars == <<build, machine, cache, locks, temps, records, proc, compared, budget>>

Image(compiler, arch) == [compiler |-> compiler, arch |-> arch]
NoImage == Image(None, None)
Fatbin == Image("release", "release")

NoRequest == [call |-> None, policy |-> None, device |-> None, delivery |-> None,
              waive |-> FALSE]

NoRoute == [delivery |-> None, image |-> NoImage, arch |-> None, driver |-> 0,
            toolchain |-> None, label |-> None, tainted |-> FALSE, swapped |-> FALSE]

Idle == [req |-> NoRequest, pc |-> "idle", cpu |-> None, arch |-> None, driver |-> 0,
         compiler |-> None, ww |-> FALSE, gpu |-> NoRoute, cert |-> None,
         backends |-> {}, status |-> None, res |-> None]

Init ==
  /\ \E s \in Starts :
       /\ build = s.build /\ machine = s.machine
       /\ budget = [calls |-> MaxCalls, faults |-> s.faults]
  /\ cache = {} /\ locks = {} /\ temps = {} /\ records = {}
  /\ proc = [p \in Procs |-> Idle]
  /\ compared = {}

-----------------------------------------------------------------------------
(* What this build is. *)

\* core_closure_verified, sources_closure_admits
CoreClosureVerified == build.closure = "verified"
SourcesClosureAdmits == build.closure \in {"verified", "unlocated"}

\* probe_divergence: a unit whose tables moved, or cannot be read while its
\* packages moved.
ProbeDivergence == build.probe = "moved" \/ (build.probe = "unreadable" /\ build.drift)

\* reference_certification_reason is Some(uncertified_reference)
UncertifiedReference == ~build.versions \/ ProbeDivergence

\* rust_api_build_certified: sources, recipe, closure and reference libraries
RustApiBuildCertified ==
  CoreClosureVerified /\ ~UncertifiedReference /\ build.sources /\ build.recipe

RustApiSourcesJudged == build.sources /\ SourcesClosureAdmits

AdmitsUnjudgedDevice(policy) == policy \in {"supported", "required"}
AcceleratedBuildAllowed(policy) == RustApiBuildCertified \/ policy = "experimental"
FastCpuBuildAllowed(policy) == AcceleratedBuildAllowed(policy) \/ RustApiSourcesJudged

\* build_fast_cpu, build_examined_fast_cpu: the engine's source binding is
\* the one premise Policy::Experimental waives.
FastCpuBound(policy) == build.fastSource \/ policy = "experimental"
FastCpuRoute(policy) ==
  /\ policy # "reference"
  /\ FastCpuBuildAllowed(policy)
  /\ FastCpuBound(policy)
  /\ \/ build.family = "certified"
     \/ build.family = "examined" /\ policy # "certified"
ToolchainJudged == build.family = "certified" /\ build.fastToolchain

WantsGpu(req) ==
  req.device # "cpu" /\ req.delivery # "disabled" /\ req.policy # "reference"

-----------------------------------------------------------------------------
(* Local verification records. *)

\* A plausible bug: a record outlives the driver it was taken under.
DriverlessKey(g) ==
  [engine |-> "gpu", arch |-> g.arch, delivery |-> g.delivery, image |-> g.image,
   toolchain |-> g.toolchain, driver |-> 0]

\* gpu_key, cpu_key
GpuKey(g) ==
  [engine |-> "gpu", arch |-> g.arch, delivery |-> g.delivery, image |-> g.image,
   toolchain |-> g.toolchain, driver |-> g.driver]
CpuKey ==
  [engine |-> "cpu", arch |-> None, delivery |-> None, image |-> NoImage,
   toolchain |-> None, driver |-> 0]

\* is_locally_verified: a file that does not parse is no record.
IsLocallyVerified(key) ==
  \E r \in records : r.key = key /\ r.whole /\ r.status = "passed"

\* What the accelerated route really is, whatever key it is filed under.
Combination(engine, g) ==
  IF engine = "cpu" THEN CpuKey
  ELSE [engine |-> "gpu", arch |-> g.arch, delivery |-> g.delivery, image |-> g.image,
        toolchain |-> g.toolchain, driver |-> g.driver]

-----------------------------------------------------------------------------
(* Steps of a process. *)

At(p, pc) == proc[p].pc = pc
Go(p, pc) == proc' = [proc EXCEPT ![p].pc = pc]
Release(p) == locks' = {l \in locks : l[2] # p}
Answer(p, r) == proc' = [proc EXCEPT ![p].pc = "done", ![p].res = r]

Begin(p, req) ==
  /\ proc[p].pc \in {"idle", "done"}
  /\ budget.calls > 0
  /\ budget' = [budget EXCEPT !.calls = @ - 1]
  /\ proc' = [proc EXCEPT ![p] =
       [Idle EXCEPT !.req = req, !.pc = IF req.call = "compile" THEN "device" ELSE "cpu"]]
  /\ UNCHANGED <<build, machine, cache, locks, temps, records, compared>>

\* The GPU route could not be opened: an explicit device is an error.
GpuRefused(p) ==
  IF proc[p].req.device = "cuda" \/ proc[p].req.call = "compile"
    THEN Answer(p, "refused")
    ELSE Go(p, "plan")

\* build_tokenizer up to the GPU: the fast CPU engine and its label.
BuildFastCpu(p) ==
  /\ At(p, "cpu")
  /\ LET req == proc[p].req
         label == IF ~FastCpuRoute(req.policy) THEN None
                  ELSE IF RustApiBuildCertified /\ ToolchainJudged THEN "certified_source"
                  ELSE IF IsLocallyVerified(CpuKey) THEN "locally_verified"
                  ELSE "supported"
         refused == WantsGpu(req) /\ ~AcceleratedBuildAllowed(req.policy)
     IN proc' = [proc EXCEPT
          ![p].cpu = label,
          ![p].pc = CASE ~WantsGpu(req) -> "plan"
                      [] refused -> IF req.device = "cuda" THEN "done" ELSE "plan"
                      [] OTHER -> IF req.delivery = "jit" THEN "device" ELSE "prebuilt",
          ![p].res = IF refused /\ req.device = "cuda" THEN "refused" ELSE None]
  /\ UNCHANGED <<build, machine, cache, locks, temps, records, compared, budget>>

\* build_prebuilt: which of the three things this device is, None when refused.
PrebuiltAssurance(policy) ==
  IF build.family # "certified" \/ ~build.hostSource \/ machine.arch = None THEN None
  ELSE IF machine.arch = "judged" THEN "judged"
  ELSE IF machine.arch = "experimental" /\ policy = "experimental" THEN "experimental"
  ELSE IF AdmitsUnjudgedDevice(policy) THEN "unjudged" ELSE None

\* build_image may still find that the kernel does not load.
BuildPrebuilt(p) ==
  /\ At(p, "prebuilt")
  /\ LET assurance == PrebuiltAssurance(proc[p].req.policy) IN
     \/ GpuRefused(p)
     \/ /\ assurance # None
        /\ proc' = [proc EXCEPT ![p].pc = "label", ![p].gpu =
             [delivery |-> "prebuilt", image |-> Fatbin, arch |-> machine.arch,
              driver |-> machine.driver, toolchain |-> None, label |-> assurance,
              tainted |-> FALSE, swapped |-> FALSE]]
  /\ UNCHANGED <<build, machine, cache, locks, temps, records, compared, budget>>

-----------------------------------------------------------------------------
(* jit.rs: compile_product. *)

ProbeDevice(p) ==
  /\ At(p, "device")
  /\ IF machine.arch = None \/ build.family # "certified"
       THEN GpuRefused(p)
       ELSE proc' = [proc EXCEPT ![p].pc = "compiler", ![p].arch = machine.arch,
                                 ![p].driver = machine.driver]
  /\ UNCHANGED <<build, machine, cache, locks, temps, records, compared, budget>>

\* direct_axes: the evidence a judged toolchain entry carries for this device.
AdmittedEvidence(arch, compiler) ==
  build.jitCore /\ arch = "judged" /\ compiler = "judged"

CertifiedBinding(evidence, ww) == evidence /\ ~ww

\* JitAssurance: a world-writable component or a core axis is a waiver
\* question, an unjudged pair a coverage question.
JitAssurance(evidence, ww) ==
  IF CertifiedBinding(evidence, ww) THEN "certified"
  ELSE IF build.jitCore /\ ~ww THEN "supported_untested"
  ELSE "experimental"

JitAdmitted(assurance, req) ==
  \/ assurance = "certified"
  \/ assurance = "supported_untested" /\ AdmitsUnjudgedDevice(req.policy)
  \/ req.waive

\* toolchain(), then the refusals, before any cache is created.
ProbeCompiler(p) ==
  /\ At(p, "compiler")
  /\ LET evidence == AdmittedEvidence(proc[p].arch, machine.compiler)
         admitted == JitAdmitted(JitAssurance(evidence, machine.ww), proc[p].req)
     IN \/ GpuRefused(p)
        \/ /\ admitted
           /\ proc' = [proc EXCEPT ![p].pc = "lock", ![p].compiler = machine.compiler,
                                   ![p].ww = machine.ww]
  /\ UNCHANGED <<build, machine, cache, locks, temps, records, compared, budget>>

\* binding_digest: neither the assurance nor the permissions are in it.
BindingDigest(q) ==
  LET evidence == AdmittedEvidence(q.arch, q.compiler) IN
  [compiler |-> q.compiler, arch |-> q.arch, driver |-> q.driver,
   evidence |-> evidence, certified |-> CertifiedBinding(evidence, q.ww)]

LockBinding(p) ==
  /\ At(p, "lock")
  /\ LET binding == BindingDigest(proc[p]) IN
     IF \E l \in locks : l[1] = binding
       THEN GpuRefused(p) /\ UNCHANGED locks
       ELSE Go(p, "cached") /\ locks' = locks \cup {<<binding, p>>}
  /\ UNCHANGED <<build, machine, cache, temps, records, compared, budget>>

\* read_cached: the label is the one the manifest recorded.
LabelOfProduct(p, entry) == entry.label

Product(p, entry) ==
  [delivery |-> "jit", image |-> entry.image, arch |-> proc[p].arch,
   driver |-> proc[p].driver, toolchain |-> proc[p].compiler,
   label |-> LabelOfProduct(p, entry), tainted |-> entry.tainted,
   swapped |-> entry.swapped]

\* verify_manifest and the comparison with the current request.
Verifies(p, entry) == entry.whole /\ entry.binding = BindingDigest(proc[p])

\* A hit is returned; anything else in the way is quarantined.
ReadCached(p) ==
  /\ At(p, "cached")
  /\ \/ \E entry \in cache :
          /\ Verifies(p, entry)
          /\ proc' = [proc EXCEPT ![p].pc = "built", ![p].gpu = Product(p, entry)]
          /\ Release(p)
          /\ UNCHANGED cache
     \/ /\ ~\E entry \in cache : Verifies(p, entry)
        /\ cache' = {entry \in cache : entry.binding # BindingDigest(proc[p])}
        /\ Go(p, "run")
        /\ UNCHANGED locks
  /\ UNCHANGED <<build, machine, temps, records, compared, budget>>

\* NVCC ends: with a product of the compiler that is at that path by then,
\* which is not hashed again, or with an error.
CompilerEnds(p) ==
  /\ At(p, "run")
  /\ \/ /\ proc' = [proc EXCEPT ![p].pc = "publish",
              ![p].gpu.image = Image(machine.compiler, proc[p].arch),
              ![p].gpu.swapped = machine.compiler # proc[p].compiler]
        /\ UNCHANGED locks
     \/ GpuRefused(p) /\ Release(p)
  /\ UNCHANGED <<build, machine, cache, temps, records, compared, budget>>

\* A plausible bug: the compiler is waited for without a limit.
NoDeadline(p) == FALSE

\* run_bounded: past the wall-time limit the process group is killed.
Deadline(p) ==
  /\ At(p, "run")
  /\ GpuRefused(p) /\ Release(p)
  /\ UNCHANGED <<build, machine, cache, temps, records, compared, budget>>

\* The verified staging directory is renamed into place.
Publish(p) ==
  /\ At(p, "publish")
  /\ LET q == proc[p]
         evidence == AdmittedEvidence(q.arch, q.compiler)
     IN cache' = cache \cup
          {[binding |-> BindingDigest(q), image |-> q.gpu.image, whole |-> TRUE,
            label |-> JitAssurance(evidence, q.ww), tainted |-> q.ww,
            swapped |-> q.gpu.swapped]}
  /\ Go(p, "reread")
  /\ UNCHANGED <<build, machine, locks, temps, records, compared, budget>>

Reread(p) ==
  /\ At(p, "reread")
  /\ \/ \E entry \in cache :
          /\ Verifies(p, entry)
          /\ proc' = [proc EXCEPT ![p].pc = "built", ![p].gpu = Product(p, entry)]
     \/ ~(\E entry \in cache : Verifies(p, entry)) /\ GpuRefused(p)
  /\ Release(p)
  /\ UNCHANGED <<build, machine, cache, temps, records, compared, budget>>

\* A plausible bug: a waived product is left to the compiler stage to refuse.
JitRouteAnyPolicy(label, policy) ==
  CASE label = "certified" -> "judged"
    [] label = "supported_untested" -> IF AdmitsUnjudgedDevice(policy) THEN "unjudged" ELSE None
    [] OTHER -> "experimental"

\* build_jit: what a product may be under this policy, None when refused.
JitRoute(label, policy) ==
  CASE label = "certified" -> "judged"
    [] label = "supported_untested" /\ AdmitsUnjudgedDevice(policy) -> "unjudged"
    [] label = "experimental" /\ policy = "experimental" -> "experimental"
    [] OTHER -> None

BuildJit(p) ==
  /\ At(p, "built")
  /\ LET route == JitRoute(proc[p].gpu.label, proc[p].req.policy) IN
     IF proc[p].req.call = "compile" THEN Answer(p, "ok")
     ELSE \/ GpuRefused(p)
          \/ route # None /\ proc' = [proc EXCEPT ![p].pc = "label", ![p].gpu.label = route]
  /\ UNCHANGED <<build, machine, cache, locks, temps, records, compared, budget>>

-----------------------------------------------------------------------------
(* The plan. *)

\* What the opened GPU route can be called, None when none was opened.
LabelGpu(p) ==
  IF At(p, "plan") THEN None
  ELSE IF proc[p].gpu.label = "judged" THEN "certified"
  ELSE IF proc[p].gpu.label = "experimental" THEN "experimental"
  ELSE IF IsLocallyVerified(GpuKey(proc[p].gpu)) THEN "locally_verified"
  ELSE "supported"

\* The chain, RequireAccelerated, and the plan's certification.
MakePlan(p) ==
  /\ At(p, "label") \/ At(p, "plan")
  /\ LET q == proc[p]
         gpu == LabelGpu(p)
         chain == {"hf"} \cup (IF gpu # None THEN {"gpu"} ELSE {})
                         \cup (IF q.cpu # None THEN {"fast_cpu"} ELSE {})
         cert == IF q.req.policy \in {"experimental", "reference"} THEN q.req.policy
                 ELSE IF gpu # None THEN gpu
                 ELSE IF q.cpu # None THEN q.cpu
                 ELSE "reference"
     IN IF q.req.policy = "required" /\ chain = {"hf"}
          THEN Answer(p, "refused")
          ELSE proc' = [proc EXCEPT ![p].backends = chain, ![p].cert = cert,
                 ![p].pc = IF q.req.call \in {"verify", "forget"} THEN q.req.call ELSE "done",
                 ![p].res = "ok"]
  /\ UNCHANGED <<build, machine, cache, locks, temps, records, compared, budget>>

-----------------------------------------------------------------------------
(* verify_local.rs: compare_one. *)

Engine(p) == IF proc[p].req.device = "cpu" THEN "cpu" ELSE "gpu"
KeyOf(p) == IF Engine(p) = "cpu" THEN CpuKey ELSE GpuKey(proc[p].gpu)

\* A judged GPU route has no key.
HasKey(p) == Engine(p) = "cpu" \/ proc[p].gpu.label = "unjudged"
RouteAdmitted(p) ==
  (IF Engine(p) = "cpu" THEN "fast_cpu" ELSE "gpu") \in proc[p].backends

\* Agreement counts only when the route served every document; ids that
\* differ are evidence whoever served them.
Compare(p) ==
  /\ At(p, "verify")
  /\ \/ Answer(p, "unrecorded") /\ UNCHANGED compared
     \/ /\ HasKey(p) /\ RouteAdmitted(p)
        /\ \E status \in {"passed", "failed"} :
             /\ proc' = [proc EXCEPT ![p].pc = "clear", ![p].status = status]
             /\ compared' = IF status = "passed"
                              THEN compared \cup {Combination(Engine(p), proc[p].gpu)}
                              ELSE compared
  /\ UNCHANGED <<build, machine, cache, locks, temps, records, budget>>

\* write_private_file: one temporary name per key, shared by every writer.
ClearTemp(p) ==
  /\ At(p, "clear")
  /\ temps' = {t \in temps : t.key # KeyOf(p)}
  /\ Go(p, "create")
  /\ UNCHANGED <<build, machine, cache, locks, records, compared, budget>>

CreateTemp(p) ==
  /\ At(p, "create")
  /\ IF \E t \in temps : t.key = KeyOf(p)
       THEN Answer(p, "io") /\ UNCHANGED temps
       ELSE /\ temps' = temps \cup {[key |-> KeyOf(p), by |-> p,
                                      status |-> proc[p].status, whole |-> FALSE]}
            /\ Go(p, "write")
  /\ UNCHANGED <<build, machine, cache, locks, records, compared, budget>>

\* The open file is written wherever its name has gone meanwhile.
Finished(p, files) ==
  {IF f.by = p /\ ~f.whole THEN [f EXCEPT !.whole = TRUE, !.by = None] ELSE f : f \in files}

WriteTemp(p) ==
  /\ At(p, "write")
  /\ temps' = Finished(p, temps)
  /\ records' = Finished(p, records)
  /\ Go(p, "rename")
  /\ UNCHANGED <<build, machine, cache, locks, compared, budget>>

\* The name may be another writer's file by now, or gone.
RenameTemp(p) ==
  /\ At(p, "rename")
  /\ \/ \E t \in temps :
          /\ t.key = KeyOf(p)
          /\ records' = {r \in records : r.key # t.key} \cup {t}
          /\ temps' = temps \ {t}
          /\ Answer(p, "recorded")
     \/ /\ ~\E t \in temps : t.key = KeyOf(p)
        /\ Answer(p, "io") /\ UNCHANGED <<temps, records>>
  /\ UNCHANGED <<build, machine, cache, locks, compared, budget>>

\* forget_record
Forget(p) ==
  /\ At(p, "forget")
  /\ records' = IF HasKey(p) THEN {r \in records : r.key # KeyOf(p)} ELSE records
  /\ Answer(p, "forgotten")
  /\ UNCHANGED <<build, machine, cache, locks, temps, compared, budget>>

-----------------------------------------------------------------------------
(* The machine. *)

Abandoned(p, files) == {IF f.by = p THEN [f EXCEPT !.by = None] ELSE f : f \in files}

Crash(p) ==
  /\ ~(proc[p].pc \in {"idle", "done"})
  /\ budget.faults > 0
  /\ budget' = [budget EXCEPT !.faults = @ - 1]
  /\ proc' = [proc EXCEPT ![p] = Idle]
  /\ Release(p)
  /\ temps' = Abandoned(p, temps) /\ records' = Abandoned(p, records)
  /\ UNCHANGED <<build, machine, cache, compared>>

Rot(entry) ==
  /\ entry.whole /\ budget.faults > 0
  /\ cache' = (cache \ {entry}) \cup {[entry EXCEPT !.whole = FALSE]}
  /\ budget' = [budget EXCEPT !.faults = @ - 1]
  /\ UNCHANGED <<build, machine, locks, temps, records, proc, compared>>

\* Nothing a build holds keeps anybody from the compiler it has probed.
Change ==
  /\ budget.faults > 0
  /\ budget' = [budget EXCEPT !.faults = @ - 1]
  /\ \/ machine' = [machine EXCEPT !.driver = @ + 1]
     \/ machine' = [machine EXCEPT !.compiler = IF @ = "judged" THEN "other" ELSE "judged"]
     \/ machine' = [machine EXCEPT !.ww = ~@]
  /\ UNCHANGED <<build, cache, locks, temps, records, proc, compared>>

Step(p) ==
  \/ BuildFastCpu(p) \/ BuildPrebuilt(p) \/ ProbeDevice(p) \/ ProbeCompiler(p)
  \/ LockBinding(p) \/ ReadCached(p) \/ Deadline(p) \/ Publish(p) \/ Reread(p)
  \/ BuildJit(p) \/ MakePlan(p) \/ Compare(p)
  \/ ClearTemp(p) \/ CreateTemp(p) \/ WriteTemp(p) \/ RenameTemp(p) \/ Forget(p)

Next ==
  \/ \E p \in Procs :
       (\E req \in Requests : Begin(p, req)) \/ Step(p) \/ CompilerEnds(p) \/ Crash(p)
  \/ \E entry \in cache : Rot(entry)
  \/ Change

Spec == Init /\ [][Next]_vars /\ \A p \in Procs : WF_vars(Step(p))

-----------------------------------------------------------------------------
(* Properties. *)

Planned(p) == proc[p].res = "ok" /\ proc[p].pc = "done" /\ proc[p].req.call # "compile"
RunsGpu(p) == "gpu" \in proc[p].backends

\* The word a plan carries is backed by what it names.  Certified: a judged
\* device, and for a JIT product the image of the judged compiler and core,
\* whoever built it and whatever happened to the compiler before and since;
\* only a replacement between a build's probe and its run goes unnoticed.
\* Certified by source: the judged recipe.  Locally verified: a comparison
\* agreed over this very image, compiler and driver.  Supported: no compiler
\* that was world-writable when it was probed.
LabelJustified ==
  \A p \in Procs : Planned(p) =>
    LET q == proc[p]
        engine == IF RunsGpu(p) THEN "gpu" ELSE "cpu"
    IN /\ q.cert = "certified" =>
            /\ q.gpu.arch = "judged" /\ RustApiBuildCertified
            /\ q.gpu.delivery = "jit" =>
                 /\ build.jitCore
                 /\ q.gpu.image.compiler = "judged" \/ q.gpu.swapped
       /\ q.cert = "certified_source" => build.sources /\ build.recipe /\ build.fastSource
       /\ q.cert = "locally_verified" => Combination(engine, q.gpu) \in compared
       /\ q.cert \in {"supported", "locally_verified"} => ~(RunsGpu(p) /\ q.gpu.tainted)

\* A route runs only where the policy admits it: nothing accelerated under
\* Reference, something accelerated under RequireAccelerated, only judged
\* devices under Certified, and a product of a world-writable compiler or of
\* other sources only under Experimental, also when another caller's waiver
\* put it in the cache.
PolicyHonoured ==
  \A p \in Procs : Planned(p) =>
    LET q == proc[p] IN
    /\ q.req.policy = "reference" => q.backends = {"hf"}
    /\ q.req.policy = "required" => q.backends # {"hf"}
    /\ q.req.policy = "certified" /\ RunsGpu(p) => q.gpu.arch = "judged"
    /\ RunsGpu(p) /\ q.gpu.delivery = "jit" /\ (q.gpu.tainted \/ ~build.jitCore)
         => q.req.policy = "experimental"
    /\ "fast_cpu" \in q.backends /\ ~build.sources => q.req.policy = "experimental"

\* Every call returns, although NVCC may hang, lock holders may crash and
\* other processes keep the same binding busy.
RouteReturns ==
  \A p \in Procs : ~(proc[p].pc \in {"idle", "done"}) ~> (proc[p].pc \in {"idle", "done"})
=============================================================================

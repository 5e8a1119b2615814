-------------------------- MODULE MCRouteAdmission --------------------------
EXTENDS RouteAdmission

Judged == [sources |-> TRUE, recipe |-> TRUE, closure |-> "verified", probe |-> "judged",
           drift |-> FALSE, versions |-> TRUE, family |-> "certified", fastSource |-> TRUE,
           fastToolchain |-> TRUE, hostSource |-> TRUE, jitCore |-> TRUE]
Machine(arch, compiler, ww) == [arch |-> arch, driver |-> 1, compiler |-> compiler, ww |-> ww]
Start(b, m, faults) == [build |-> b, machine |-> m, faults |-> faults]

\* The judged build on a judged, an unjudged and a named experimental device
\* and on none; the judged sources with another compiler, without a lockfile
\* or beside moved reference tables; an examined artifact; another CUDA
\* source; sources nobody judged.
MCStarts ==
  {Start(Judged, Machine("judged", "judged", TRUE), 2),
   Start(Judged, Machine("other", "other", FALSE), 1),
   Start(Judged, Machine("experimental", "other", TRUE), 1),
   Start([Judged EXCEPT !.recipe = FALSE, !.closure = "unlocated"],
         Machine("none", "other", FALSE), 1),
   Start([Judged EXCEPT !.probe = "unreadable", !.drift = TRUE, !.family = "examined"],
         Machine("judged", "judged", FALSE), 1),
   Start([Judged EXCEPT !.jitCore = FALSE, !.hostSource = FALSE],
         Machine("judged", "judged", FALSE), 1),
   Start([Judged EXCEPT !.sources = FALSE, !.fastSource = FALSE],
         Machine("other", "judged", FALSE), 1)}

Ask(call, policy, device, delivery, waive) ==
  [call |-> call, policy |-> policy, device |-> device, delivery |-> delivery, waive |-> waive]

MCRequests ==
  {Ask("load", "supported", "auto", "jit", FALSE),
   Ask("load", "certified", "cuda", "jit", FALSE),
   Ask("load", "required", "auto", "prebuilt", FALSE),
   Ask("load", "reference", "auto", "jit", FALSE),
   Ask("load", "experimental", "cuda", "jit", TRUE),
   Ask("load", "experimental", "auto", "prebuilt", FALSE),
   Ask("compile", "supported", "cuda", "jit", TRUE),
   Ask("verify", "supported", "cuda", "jit", FALSE),
   Ask("verify", "supported", "cpu", "disabled", FALSE),
   Ask("forget", "supported", "cpu", "disabled", FALSE)}
=============================================================================

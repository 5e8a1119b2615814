----------------------------- MODULE ChunkPlan ------------------------------
(***************************************************************************)
(* Where a long document is cut into chunks that are encoded on their own  *)
(* (crates/toktier-routing-core/src/chunked.rs): admission of an artifact, *)
(* the literal guard, the normalization-stability rule, the scan below     *)
(* each target and the plan.  Positions are character indices from 0; the  *)
(* code's cursor and window translate them to byte offsets and back.       *)
(***************************************************************************)
EXTENDS CoreStream
LOCAL INSTANCE SequencesExt
LOCAL INSTANCE FiniteSetsExt

CONSTANTS
    MinText,     \* documents shorter than this are never cut (256)
    QuickScan,   \* the first, cheap part of a cut search (48)
    AnchorScan,  \* how far an anchor of the stability rule may be (256)
    FloorLow, FloorHigh   \* the default chunk floor's clamp (16, 1024)
ASSUME PlanAssumption ==
    /\ {MinText, QuickScan, AnchorScan} \subseteq Nat \ {0}
    /\ FloorLow \in Nat /\ FloorHigh \in Nat /\ FloorLow <= FloorHigh

\* normalizer_mode: the normalizer's shape first, then the added tokens'
\* flags.  "refused" stands for every refusal.
NormalizerShape(face) ==
    CASE face.normalizer \in {"none", "empty"} -> "none"
      [] face.normalizer = "nfc" /\ face.norm = {} -> "nfc"
      [] OTHER -> "refused"
NormalizerMode(face) == IF face.rstrip THEN "refused" ELSE NormalizerShape(face)
Admitted(face) == NormalizerMode(face) # "refused"

(***************************************************************************)
(* The literal guard: every occurrence of every literal, overlapping ones  *)
(* included, that lies in the part of the text that is looked at.          *)
(***************************************************************************)
FaceLiterals(face) == (face.raw \cup face.norm) \ {NoLiteral}
LongestLiteral(face) == IF FaceLiterals(face) = {} THEN 0 ELSE Max({Len(l) : l \in FaceLiterals(face)})

Occurrences(face, cs, start, end) ==
    {<<p, p + Len(l)>> : <<p, l>> \in
        {o \in (start .. end - 1) \X FaceLiterals(face) :
            o[1] + Len(o[2]) <= end /\ Slice(cs, o[1], o[1] + Len(o[2])) = o[2]}}

Below(p, n) == IF p > n THEN p - n ELSE 0

\* Whether a position of [low, high] is strictly inside an occurrence.
\* Mutant: the text that is looked at ends at the range.
ForbiddenMutant(face, cs, low, high, position) ==
    \E o \in Occurrences(face, cs, Below(low, LongestLiteral(face) - 1), high) :
        o[1] < position /\ position < o[2]
Forbidden(face, cs, low, high, position) ==
    LET lmax == LongestLiteral(face)
    IN  /\ lmax >= 2
        /\ \E o \in Occurrences(face, cs, Below(low, lmax - 1), Min({Len(cs), high + lmax - 1})) :
              o[1] < position /\ position < o[2]

Touches(face, cs, low, high) ==
    LET lmax == LongestLiteral(face)
    IN  /\ lmax > 0
        /\ \E o \in Occurrences(face, cs, Below(low, lmax - 1), Min({Len(cs), high + lmax - 1})) :
              o[1] < high /\ o[2] > low

(***************************************************************************)
(* The normalization-stability rule of an NFC family.                      *)
(***************************************************************************)
Probe(face, cs) == Normalize(face, cs) = cs

\* The answers of this test are memoized per code point in the code.
Stable(face, c) ==
    \/ CharLen(c) = 1
    \/ /\ Class(c) # "M"
       /\ \A cs \in {<<c>>, <<"mk", c>>, <<c, "ov">>, <<"jl", c>>, <<"hgl", c>>} : Probe(face, cs)

\* The nearest stable split point on each side, -1 where none is in reach;
\* the ends of the text anchor as well.
LeftAnchor(face, cs, position) ==
    LET floor  == Below(position, AnchorScan)
        stable == {i \in floor .. position - 1 : Stable(face, cs[i + 1])}
    IN  IF stable # {} THEN Max(stable) ELSE IF floor > 0 THEN -1 ELSE 0

RightAnchor(face, cs, position) ==
    LET ceiling == Min({Len(cs), position + 1 + AnchorScan})
        stable  == {i \in position + 1 .. ceiling - 1 : Stable(face, cs[i + 1])}
    IN  IF stable # {} THEN Min(stable) ELSE IF ceiling < Len(cs) THEN -1 ELSE ceiling

RuleAccepts(face, cs, position) ==
    LET left   == LeftAnchor(face, cs, position)
        right  == RightAnchor(face, cs, position)
        before == Normalize(face, Slice(cs, left, position))
        after  == Normalize(face, Slice(cs, position, right))
    IN  \/ \A i \in position - 1 .. Min({position + 2, Len(cs)}) - 1 : Stable(face, cs[i + 1])
        \/ /\ left # -1 /\ right # -1
           /\ ~Touches(face, cs, left, right)
           /\ before # <<>> /\ after # <<>>
           /\ Normalize(face, Slice(cs, left, right)) = before \o after
           /\ Accepts(before[Len(before)], after[1])

(***************************************************************************)
(* The highest certified cut of [low, high] (0 for none), and how many     *)
(* candidates the guard and the rule turned down on the way.               *)
(***************************************************************************)
Scan(face, cs, low, high) ==
    LET candidates == {p \in low .. high : Accepts(cs[p], cs[p + 1])}
        inside     == {p \in candidates : Forbidden(face, cs, low, high, p)}
        above(turned, found) == Cardinality({p \in turned : p > found})
        highest(unstable) ==
          LET found == Max({0} \cup (candidates \ (inside \cup unstable)))
          IN  [found |-> found, literal |-> above(inside, found), norm |-> above(unstable, found)]
    IN  highest({p \in candidates \ inside :
                   NormalizerMode(face) = "nfc" /\ ~RuleAccepts(face, cs, p)})

NothingFound == [found |-> 0, literal |-> 0, norm |-> 0]
Both(s, t) == [found |-> Max({s.found, t.found}), literal |-> s.literal + t.literal, norm |-> s.norm + t.norm]

\* One target of plan_counted: the quick scan, the extended one, the floor.
PlanTarget(face, cs, job, floor, plan, target) ==
    LET quick == Min({QuickScan, job.budget})
        first == plan.previous + 1
        low   == Max({first, Below(target, quick)})
        extend(near) ==
          Both(near, IF near.found = 0 /\ job.budget > quick /\ low > first
                     THEN Scan(face, cs, Max({first, Below(target, job.budget)}), low - 1)
                     ELSE NothingFound)
        made(scan) ==
          LET counted == [plan EXCEPT !.literal = @ + scan.literal, !.norm = @ + scan.norm]
          IN  IF /\ scan.found # 0
                 /\ scan.found - plan.previous >= floor
                 /\ Len(cs) - scan.found >= floor
              THEN [counted EXCEPT !.cuts = Append(@, scan.found), !.previous = scan.found]
              ELSE [counted EXCEPT !.misses = @ + 1]
    IN  IF target <= plan.previous THEN [plan EXCEPT !.misses = @ + 1]
        ELSE made(extend(Scan(face, cs, low, target)))

Clamp(n, low, high) == Max({low, Min({n, high})})
NoMinChunk == -1
EmptyPlan == [cuts |-> <<>>, previous |-> 0, misses |-> 0, literal |-> 0, norm |-> 0]

PlanCounted(face, cs, job) ==
    LET total == Len(cs)
        floor == IF job.minChunk # NoMinChunk THEN job.minChunk
                 ELSE Clamp(total \div (4 * job.k), FloorLow, FloorHigh)
        step(plan, index) == PlanTarget(face, cs, job, floor, plan, (total * index) \div job.k)
    IN  IF job.k <= 1 \/ total < MinText THEN EmptyPlan
        ELSE FoldLeft(step, EmptyPlan, [i \in 1 .. job.k - 1 |-> i])

\* The spans between the cuts, in order.
PlanSpans(cs, plan) ==
    LET bounds == <<0>> \o plan.cuts \o <<Len(cs)>>
    IN  [i \in 1 .. Len(bounds) - 1 |-> <<bounds[i], bounds[i + 1]>>]
=============================================================================

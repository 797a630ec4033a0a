--------------------------- MODULE HandOff_proofs ---------------------------
(***************************************************************************)
(* A Job that succeeds leaves no row behind, for every number of pods, of  *)
(* rows and of renewals, and for every order in which the standing copy    *)
(* applies them.  The invariant follows a version from the confirmer's     *)
(* check to the row it writes, to the Job's copy of that row: once a copy  *)
(* misses nothing under a version, it never misses anything under it.      *)
(***************************************************************************)
EXTENDS HandOff, WellFoundedInduction, TLAPS

\* The standing copy misses nothing up to a version.
Complete(version) == 1..version \subseteq applied

\* A goroutine on its way to the confirmations row, or past it, carries a run
\* that the copy holds.
Carries(goroutine) == goroutine.at \in {"write", "mark"} => Complete(goroutine.run)

\* Past the finished run the pod writes no data row.
NoRowAfterTheRun ==
    podPc \in {"second", "wait", "done"} =>
        /\ named \in Versions
        /\ \A k \in Versions : k > named => log[k] # "data"

\* A pod that succeeded named a version under which nothing is missing.
EndsComplete == podPc = "done" => Complete(named)

ConfirmedIsComplete ==
    /\ Complete(conf)
    /\ Complete(heard)
    /\ Carries(stream)
    /\ Carries(recheck)

HandOffInvariant == TypeOK /\ ConfirmedIsComplete /\ NoRowAfterTheRun /\ EndsComplete

-----------------------------------------------------------------------------
(* Sets of versions: one that is not empty has a newest.                   *)

LEMMA LessThan == \A x, y \in Nat : <<x, y>> \in OpToRel(<, Nat) <=> x < y
BY DEF OpToRel

\* A set of naturals that is not empty has a least member.
LEMMA LeastNatural ==
  ASSUME NEW T \in SUBSET Nat, T # {}
  PROVE  \E x \in T : \A y \in T : x <= y
<1> DEFINE R == OpToRel(<, Nat)
<1>1. IsWellFoundedOn(R, Nat)
  BY NatLessThanWellFounded
<1>2. \A x, y \in Nat : <<x, y>> \in R <=> x < y
  BY LessThan
<1> HIDE DEF R
<1>3. PICK x \in T : \A y \in T : <<y, x>> \notin R
  BY <1>1, WFMin
<1>4. ASSUME NEW y \in T PROVE x <= y
  <2>1. <<y, x>> \notin R
    BY <1>3
  <2>2. y \in Nat /\ x \in Nat
    OBVIOUS
  <2>3. ~(y < x)
    BY <2>1, <2>2, <1>2
  <2> QED
    BY <2>2, <2>3
<1> QED
  BY <1>4

\* A set of versions of a log that is not empty has a newest.
LEMMA GreatestNatural ==
  ASSUME NEW N \in Nat, NEW T \in SUBSET (1..N), T # {}
  PROVE  \E x \in T : \A y \in T : y <= x
<1> DEFINE D == {N - k : k \in T}
<1>1. D \subseteq Nat
  OBVIOUS
<1>2. D # {}
  OBVIOUS
<1>3. \A y \in T : N - y \in D
  OBVIOUS
<1> HIDE DEF D
<1>4. PICK d \in D : \A e \in D : d <= e
  BY <1>1, <1>2, LeastNatural
<1>5. PICK x \in T : d = N - x
  BY DEF D
<1>6. \A y \in T : N - x <= N - y
  BY <1>3, <1>4, <1>5
<1> QED
  BY <1>6

-----------------------------------------------------------------------------
(* What the helpers return.                                                *)

\* A write is one more version, and changes none of the earlier ones.
LEMMA WriteAppends ==
  ASSUME log \in Seq(Kinds), NEW kind \in Kinds, Write(kind)
  PROVE  /\ log' \in Seq(Kinds)
         /\ Len(log') = Len(log) + 1
         /\ log'[Len(log) + 1] = kind
         /\ \A k \in Versions : log'[k] = log[k]
BY DEF Write, Versions

\* The newest write of some kinds is a version the copy holds, or there is none.
LEMMA NewestIsApplied ==
  ASSUME TypeOK, NEW kinds
  PROVE  NewestOf(kinds) \in applied \cup {0}
<1> DEFINE of == {k \in applied : log[k] \in kinds}
<1>1. CASE of = {}
  BY <1>1 DEF NewestOf
<1>2. CASE of # {}
  <2>1. applied \subseteq 1..Len(log) /\ Len(log) \in Nat
    BY DEF TypeOK, Versions
  <2>2. of \in SUBSET (1..Len(log))
    BY <2>1
  <2> HIDE DEF of
  <2>3. \E k \in of : \A m \in of : m <= k
    BY <1>2, <2>1, <2>2, GreatestNatural
  <2> USE DEF of
  <2>4. (CHOOSE k \in of : \A m \in of : m <= k) \in of
    BY <2>3
  <2> QED
    BY <1>2, <2>4 DEF NewestOf
<1> QED
  BY <1>1, <1>2

\* The confirmer's query answers with a version, or with none.
LEMMA RunRowIsNat == TypeOK => RunRow \in Nat
<1> SUFFICES ASSUME TypeOK PROVE RunRow \in Nat
  OBVIOUS
<1> DEFINE version  == NewestOf({"open", "first", "second"})
           finished == NewestOf({"open", "first", "nudge"})
<1>1. applied \subseteq Nat
  BY DEF TypeOK, Versions
<1>2. version \in applied \cup {0} /\ finished \in applied \cup {0}
  BY NewestIsApplied
<1>3. RunRow = IF version > 0 /\ log[version] = "second" /\ finished > 0 /\ log[finished] # "open"
               THEN version - 1 ELSE 0
  BY DEF RunRow
<1> HIDE DEF version, finished
<1> QED
  BY <1>1, <1>2, <1>3

\* versionsHeld is right: a version is held only when nothing under it is
\* missing.
LEMMA HeldIsComplete ==
  ASSUME TypeOK, NEW version \in Nat, Held(version)
  PROVE  Complete(version)
<1> SUFFICES ASSUME NEW k \in 1..version, k \notin applied PROVE FALSE
  BY DEF Complete
<1>1. PICK m \in applied : m >= version
  BY DEF Held
<1>2. applied \subseteq 1..Len(log) /\ Len(log) \in Nat
  BY DEF TypeOK, Versions
<1>3. m > k /\ k \in Versions \ applied
  BY <1>1, <1>2 DEF Versions
<1>4. k \in Gaps
  BY <1>1, <1>3 DEF Gaps
<1> QED
  BY <1>4 DEF Held

\* What a settled run's reads let a goroutine do, it may do.
LEMMA VerdictIsTrue ==
  ASSUME TypeOK, Complete(conf), NEW run \in Nat
  PROVE  Verdict(run) \in {"already", "held"} => Complete(run)
BY HeldIsComplete DEF Verdict

-----------------------------------------------------------------------------
(* The type.                                                               *)

LEMMA InitHandOff == Init => HandOffInvariant
BY HandOffAssumption DEF Init, HandOffInvariant, TypeOK, ConfirmedIsComplete,
   NoRowAfterTheRun, EndsComplete, Complete, Carries, Idle, Goroutines, PodStages,
   Versions, Kinds

LEMMA TypeStep == TypeOK /\ [Next]_vars => TypeOK'
<1> SUFFICES ASSUME TypeOK, [Next]_vars PROVE TypeOK'
  OBVIOUS
<1> USE HandOffAssumption DEF TypeOK, PodStages, Versions, job, confirmer, AgentRuns
<1>1. CASE WriteOpen
  BY <1>1, WriteAppends DEF WriteOpen, Kinds
<1>2. CASE WriteData
  BY <1>2, WriteAppends DEF WriteData, Kinds
<1>3. CASE WriteFinished
  BY <1>3, WriteAppends DEF WriteFinished, Kinds
<1>4. CASE WriteNamed
  BY <1>4, WriteAppends DEF WriteNamed, Kinds
<1>5. CASE Nudge
  BY <1>5, WriteAppends DEF Nudge, Kinds
<1>6. CASE HearConfirmation
  BY <1>6 DEF HearConfirmation
<1>7. CASE PodSucceeds
  BY <1>7 DEF PodSucceeds
<1>8. CASE PodFails
  BY <1>8 DEF PodFails
<1>9. ASSUME NEW k \in Versions, Apply(k) PROVE TypeOK'
  BY <1>9 DEF Apply
<1>10. CASE StreamEvent
  BY <1>10, RunRowIsNat DEF StreamEvent, Goroutines
<1>11. CASE StreamChecks
  BY <1>11 DEF StreamChecks, Goroutines
<1>12. CASE StreamWrites
  BY <1>12 DEF StreamWrites, Goroutines
<1>13. CASE StreamWriteFails
  BY <1>13 DEF StreamWriteFails, Goroutines
<1>14. CASE StreamMarks
  BY <1>14 DEF StreamMarks, Goroutines
<1>15. CASE StreamPlaces
  BY <1>15 DEF StreamPlaces, Goroutines, Idle
<1>16. CASE StreamEnds
  BY <1>16 DEF StreamEnds
<1>17. CASE RecheckTakes
  BY <1>17 DEF RecheckTakes, Goroutines
<1>18. CASE RecheckChecks
  BY <1>18 DEF RecheckChecks, Goroutines, Idle
<1>19. CASE RecheckWrites
  BY <1>19 DEF RecheckWrites, Goroutines, Idle
<1>20. CASE RecheckMarks
  BY <1>20 DEF RecheckMarks, Goroutines, Idle
<1>21. CASE ConfirmerRestarts
  BY <1>21 DEF ConfirmerRestarts, Goroutines, Idle
<1>22. CASE UNCHANGED vars
  BY <1>22 DEF vars
<1> QED
  BY <1>1, <1>2, <1>3, <1>4, <1>5, <1>6, <1>7, <1>8, <1>9, <1>10, <1>11, <1>12,
     <1>13, <1>14, <1>15, <1>16, <1>17, <1>18, <1>19, <1>20, <1>21, <1>22 DEF Next

-----------------------------------------------------------------------------
(* The confirmations row.                                                  *)

\* The standing copy forgets nothing it applied.
LEMMA AppliedGrows == TypeOK /\ [Next]_vars => applied \subseteq applied'
BY DEF Next, vars, job, confirmer, WriteOpen, WriteData, WriteFinished, WriteNamed, Nudge,
   HearConfirmation, PodSucceeds, PodFails, Apply, StreamEvent, StreamChecks, StreamWrites,
   StreamWriteFails, StreamMarks, StreamPlaces, StreamEnds, RecheckTakes, RecheckChecks,
   RecheckWrites, RecheckMarks, ConfirmerRestarts

\* What is complete stays complete, and so does what a goroutine carries.
LEMMA CompleteStays ==
  ASSUME TypeOK, [Next]_vars, NEW version, Complete(version)
  PROVE  1..version \subseteq applied'
BY AppliedGrows DEF Complete

LEMMA ConfirmedStep ==
  ASSUME TypeOK, ConfirmedIsComplete, [Next]_vars
  PROVE  ConfirmedIsComplete'
<1> DEFINE Good(version) == 1..version \subseteq applied'
           GoodAt(g) == g.at \in {"write", "mark"} => Good(g.run)
<1>1. Good(conf) /\ Good(heard) /\ GoodAt(stream) /\ GoodAt(recheck)
  BY CompleteStays DEF ConfirmedIsComplete, Carries
<1>2. TypeOK'
  BY TypeStep
<1> SUFFICES Good(conf') /\ Good(heard') /\ GoodAt(stream') /\ GoodAt(recheck')
  BY DEF ConfirmedIsComplete, Carries, Complete
<1>3. \A run \in Nat : Verdict(run) \in {"already", "held"} => Good(run)
  BY VerdictIsTrue, CompleteStays DEF ConfirmedIsComplete
<1>4. stream.run \in Nat /\ recheck.run \in Nat /\ stream \in Goroutines /\ recheck \in Goroutines
  BY DEF TypeOK, Goroutines
<1> HIDE DEF Good
<1> USE DEF job, confirmer
<1>5. CASE StreamChecks
  <2>1. stream' = [stream EXCEPT !.at = stream'.at] /\ UNCHANGED <<conf, heard, recheck>>
    BY <1>5, <1>4 DEF StreamChecks, Goroutines
  <2>2. stream'.at \in {"write", "mark"} => Verdict(stream.run) \in {"already", "held"}
    BY <1>5, <1>4 DEF StreamChecks, Goroutines
  <2> QED
    BY <2>1, <2>2, <1>1, <1>3, <1>4 DEF Goroutines
<1>6. CASE RecheckChecks
  <2>1. recheck'.run = recheck.run \/ recheck'.at = "idle"
    BY <1>6, <1>4 DEF RecheckChecks, Goroutines, Idle
  <2>2. recheck'.at \in {"write", "mark"} => Verdict(recheck.run) \in {"already", "held"}
    BY <1>6, <1>4 DEF RecheckChecks, Goroutines, Idle
  <2>3. UNCHANGED <<conf, heard, stream>>
    BY <1>6 DEF RecheckChecks
  <2> QED
    BY <2>1, <2>2, <2>3, <1>1, <1>3, <1>4
<1>7. CASE WriteOpen \/ WriteData \/ WriteFinished \/ WriteNamed \/ Nudge \/ PodSucceeds \/ PodFails
  BY <1>7, <1>1 DEF WriteOpen, WriteData, WriteFinished, WriteNamed, Nudge, PodSucceeds, PodFails
<1>8. CASE HearConfirmation
  BY <1>8, <1>1 DEF HearConfirmation
<1>9. ASSUME NEW k \in Versions, Apply(k) PROVE Good(conf') /\ Good(heard') /\ GoodAt(stream') /\ GoodAt(recheck')
  BY <1>9, <1>1 DEF Apply
<1>10. CASE StreamEvent
  BY <1>10, <1>1 DEF StreamEvent
<1>11. CASE StreamWrites
  BY <1>11, <1>1, <1>4 DEF StreamWrites, Goroutines
<1>12. CASE StreamWriteFails
  BY <1>12, <1>1, <1>4 DEF StreamWriteFails, Goroutines
<1>13. CASE StreamMarks \/ StreamPlaces \/ StreamEnds
  BY <1>13, <1>1, <1>4 DEF StreamMarks, StreamPlaces, StreamEnds, Goroutines, Idle
<1>14. CASE RecheckTakes
  BY <1>14, <1>1 DEF RecheckTakes
<1>15. CASE RecheckWrites
  BY <1>15, <1>1, <1>4 DEF RecheckWrites, Goroutines, Idle
<1>16. CASE RecheckMarks \/ ConfirmerRestarts
  BY <1>16, <1>1 DEF RecheckMarks, ConfirmerRestarts, Idle
<1>17. CASE UNCHANGED vars
  BY <1>17, <1>1 DEF vars
<1> QED
  BY <1>5, <1>6, <1>7, <1>8, <1>9, <1>10, <1>11, <1>12, <1>13, <1>14, <1>15, <1>16, <1>17 DEF Next

-----------------------------------------------------------------------------
(* The end of the Job.                                                     *)

\* Only the first of a pod's writes after the walk is named, and no step of
\* the pod past it writes a data row.
LEMMA RunStep ==
  ASSUME TypeOK, NoRowAfterTheRun, [Next]_vars
  PROVE  NoRowAfterTheRun'
<1> USE DEF NoRowAfterTheRun, job, confirmer, AgentRuns
<1>1. log \in Seq(Kinds) /\ Len(log) \in Nat
  BY DEF TypeOK
<1>2. CASE WriteOpen \/ WriteData
  BY <1>2 DEF WriteOpen, WriteData
<1>3. CASE WriteFinished
  <2>1. Len(log') = Len(log) + 1 /\ named' = Len(log) + 1
    BY <1>1, <1>3, WriteAppends DEF WriteFinished, Kinds
  <2> QED
    BY <1>1, <2>1 DEF Versions
<1>4. CASE WriteNamed \/ Nudge
  <2>1. podPc \in {"second", "wait"} /\ UNCHANGED named
    BY <1>4 DEF WriteNamed, Nudge
  <2>2. /\ Len(log') = Len(log) + 1
        /\ log'[Len(log) + 1] # "data"
        /\ \A k \in Versions : log'[k] = log[k]
    BY <1>1, <1>4, WriteAppends DEF WriteNamed, Nudge, Kinds
  <2> QED
    BY <1>1, <2>1, <2>2 DEF Versions
<1>5. CASE PodSucceeds \/ PodFails
  BY <1>5 DEF PodSucceeds, PodFails, Versions
<1>6. CASE UNCHANGED <<podPc, log, named>>
  BY <1>6 DEF Versions
<1> QED
  BY <1>2, <1>3, <1>4, <1>5, <1>6 DEF Next, vars, HearConfirmation, Apply, StreamEvent,
     StreamChecks, StreamWrites, StreamWriteFails, StreamMarks, StreamPlaces, StreamEnds,
     RecheckTakes, RecheckChecks, RecheckWrites, RecheckMarks, ConfirmerRestarts

\* The pod ends on an answer for its own version, and then nothing changes
\* that version or takes a version from the copy.
LEMMA EndStep ==
  ASSUME TypeOK, ConfirmedIsComplete, EndsComplete, [Next]_vars
  PROVE  EndsComplete'
<1> USE DEF EndsComplete, Complete, job, confirmer, AgentRuns
<1>1. applied \subseteq applied'
  BY AppliedGrows
<1>2. CASE WriteOpen \/ WriteData \/ WriteFinished \/ WriteNamed \/ Nudge \/ PodFails
  BY <1>2 DEF WriteOpen, WriteData, WriteFinished, WriteNamed, Nudge, PodFails
<1>3. CASE PodSucceeds
  BY <1>3 DEF PodSucceeds, Answers, ConfirmedIsComplete
<1>4. CASE UNCHANGED <<podPc, named>>
  BY <1>1, <1>4
<1> QED
  BY <1>2, <1>3, <1>4 DEF Next, vars, HearConfirmation, Apply, StreamEvent,
     StreamChecks, StreamWrites, StreamWriteFails, StreamMarks, StreamPlaces, StreamEnds,
     RecheckTakes, RecheckChecks, RecheckWrites, RecheckMarks, ConfirmerRestarts

\* Every state has its type, for every bound.
THEOREM TypeCorrect == Spec => []TypeOK
<1>1. Init => TypeOK
  BY InitHandOff DEF HandOffInvariant
<1> QED
  BY <1>1, TypeStep, PTL DEF Spec

\* What every state of the hand-off satisfies.
THEOREM HandOffInductive == Spec => []HandOffInvariant
<1>1. HandOffInvariant /\ [Next]_vars => HandOffInvariant'
  BY TypeStep, ConfirmedStep, RunStep, EndStep DEF HandOffInvariant
<1> QED
  BY <1>1, InitHandOff, PTL DEF Spec

\* A confirmations row names a version under which the standing copy misses
\* nothing: confirmer.go's reads of the bookkeeping, taken by two goroutines
\* with no lock across the write, are enough.
THEOREM ConfirmationTheorem == Spec => []ConfirmationIsProved
<1>1. HandOffInvariant => ConfirmationIsProved
  BY DEF HandOffInvariant, TypeOK, ConfirmedIsComplete, Complete, ConfirmationIsProved, Versions
<1> QED
  BY <1>1, HandOffInductive, PTL

LEMMA EndIsStanding == HandOffInvariant => SucceededRowsAreStanding
<1> SUFFICES ASSUME HandOffInvariant, podPc = "done", NEW k \in Versions, log[k] = "data"
             PROVE  k \in applied
  BY DEF SucceededRowsAreStanding, Rows
<1>1. named \in Versions /\ k <= named
  BY DEF HandOffInvariant, TypeOK, NoRowAfterTheRun, Versions
<1>2. Complete(named)
  BY DEF HandOffInvariant, EndsComplete
<1> QED
  BY <1>1, <1>2 DEF Complete, Versions

\* A Job that succeeded left no row behind on its claim, whatever pods timed
\* out before.
THEOREM NoRowIsLeftBehind == Spec => []SucceededRowsAreStanding
BY EndIsStanding, HandOffInductive, PTL

-----------------------------------------------------------------------------
(* The hand-off implements what it promises.                               *)

\* Every pod makes at most so many writes.
PerPod == MaxRows + MaxNudges + 3

\* The versions of the pods before this one are at most so many.
Before == (pod - 1) * PerPod

\* The log holds the versions of the pods before this one, and its own.
LogIsBounded ==
    /\ podPc = "open" => Len(log) <= Before
    /\ podPc = "data" => Len(log) <= Before + rows + 1
    /\ podPc = "second" => Len(log) <= Before + rows + 2
    /\ podPc \in {"wait", "done"} => Len(log) <= Before + rows + nudges + 3
    /\ podPc = "failed" => Len(log) <= Before + PerPod

\* The budgets of the pods before add up.
LEMMA Budgets ==
  ASSUME NEW p \in 1..MaxPods
  PROVE  /\ (p - 1) * PerPod \in Nat
         /\ p * PerPod = (p - 1) * PerPod + PerPod
         /\ p * PerPod <= MaxPods * PerPod
<1>1. PerPod \in Nat /\ MaxPods \in Nat /\ p \in Nat
  BY HandOffAssumption DEF PerPod
<1>2. \A a, b \in Nat : a * b \in Nat
  OBVIOUS
<1>3. MaxPods * PerPod = p * PerPod + (MaxPods - p) * PerPod
  BY <1>1
<1>4. MaxPods - p \in Nat /\ p - 1 \in Nat
  BY <1>1
<1> QED
  BY <1>1, <1>2, <1>3, <1>4

LEMMA InitBound == Init => LogIsBounded
BY HandOffAssumption DEF Init, LogIsBounded, Before, PerPod

LEMMA BoundStep ==
  ASSUME TypeOK, LogIsBounded, [Next]_vars
  PROVE  LogIsBounded'
<1>1. Before \in Nat /\ pod * PerPod = Before + PerPod
  BY Budgets DEF TypeOK, Before
<1>2. /\ log \in Seq(Kinds) /\ Len(log) \in Nat
      /\ rows \in 0..MaxRows /\ nudges \in 0..MaxNudges /\ pod \in Nat
  BY HandOffAssumption DEF TypeOK
<1>3. pod' = pod => Before' = Before
  BY DEF Before, PerPod
<1> USE DEF LogIsBounded, job, confirmer
<1>4. CASE PodFails
  <2>1. Len(log') <= Before + PerPod
    BY <1>1, <1>2, <1>4, HandOffAssumption DEF PodFails, AgentRuns, PerPod
  <2>2. CASE pod < MaxPods
    <3>1. pod' = pod + 1 /\ podPc' = "open"
      BY <1>4, <2>2 DEF PodFails
    <3>2. Before' = Before + PerPod
      BY <1>1, <1>2, <3>1 DEF Before, PerPod
    <3> QED
      BY <2>1, <3>1, <3>2
  <2>3. CASE ~(pod < MaxPods)
    <3>1. pod' = pod /\ podPc' = "failed" /\ PerPod' = PerPod
      BY <1>4, <2>3 DEF PodFails, PerPod
    <3> QED
      BY <1>3, <2>1, <3>1
  <2> QED
    BY <2>2, <2>3
<1>5. CASE WriteOpen
  BY <1>1, <1>2, <1>3, <1>5, WriteAppends DEF WriteOpen, Kinds
<1>6. CASE WriteData
  BY <1>1, <1>2, <1>3, <1>6, WriteAppends DEF WriteData, Kinds
<1>7. CASE WriteFinished
  BY <1>1, <1>2, <1>3, <1>7, WriteAppends DEF WriteFinished, Kinds
<1>8. CASE WriteNamed
  BY <1>1, <1>2, <1>3, <1>8, WriteAppends DEF WriteNamed, Kinds
<1>9. CASE Nudge
  BY <1>1, <1>2, <1>3, <1>9, WriteAppends DEF Nudge, Kinds
<1>10. CASE PodSucceeds
  BY <1>3, <1>10 DEF PodSucceeds
<1>11. CASE UNCHANGED <<pod, podPc, rows, nudges, log>>
  BY <1>3, <1>11 DEF PerPod
<1> QED
  BY <1>4, <1>5, <1>6, <1>7, <1>8, <1>9, <1>10, <1>11 DEF Next, vars, HearConfirmation,
     Apply, StreamEvent, StreamChecks, StreamWrites, StreamWriteFails, StreamMarks, StreamPlaces,
     StreamEnds, RecheckTakes, RecheckChecks, RecheckWrites, RecheckMarks, ConfirmerRestarts

LEMMA BoundInductive == Spec => [](HandOffInvariant /\ LogIsBounded)
<1>1. HandOffInvariant /\ LogIsBounded /\ [Next]_vars => LogIsBounded'
  BY BoundStep DEF HandOffInvariant
<1> QED
  BY <1>1, InitBound, HandOffInductive, PTL DEF Spec

\* Each step is one of the promise, or changes nothing that the promise names.
LEMMA PromiseStep ==
  ASSUME HandOffInvariant, SucceededRowsAreStanding', LogIsBounded, [Next]_vars
  PROVE  [Promise!RowsNext]_(Promise!rowVars)
<1> USE DEF Promise!RowsNext, Promise!rowVars, job, confirmer, AgentRuns
<1>1. /\ log \in Seq(Kinds) /\ Len(log) \in Nat
      /\ applied \subseteq Versions
  BY DEF HandOffInvariant, TypeOK
<1>2. CASE WriteData
  <2>1. /\ Len(log') = Len(log) + 1
        /\ log'[Len(log) + 1] = "data"
        /\ \A k \in Versions : log'[k] = log[k]
    BY <1>1, <1>2, WriteAppends DEF WriteData, Kinds
  <2>2. Rows' = Rows \cup {Len(log) + 1} /\ Len(log) + 1 \notin Rows
    BY <1>1, <2>1 DEF Rows, Versions
  <2>3. (Rows \cap applied)' = Rows \cap applied
    BY <1>1, <1>2, <2>2 DEF WriteData, Versions
  <2>4. Len(log) + 1 \in 1..(MaxPods * PerPod)
    <3>1. pod \in 1..MaxPods /\ rows < MaxRows /\ rows \in Nat /\ podPc = "data"
      BY <1>2, HandOffAssumption DEF WriteData, HandOffInvariant, TypeOK
    <3>2. Before \in Nat /\ Before + PerPod <= MaxPods * PerPod
      BY <3>1, Budgets DEF Before
    <3>3. Len(log) <= Before + rows + 1
      BY <3>1 DEF LogIsBounded
    <3>4. rows + 2 <= PerPod /\ PerPod \in Nat /\ MaxPods * PerPod \in Int
      BY <3>1, HandOffAssumption DEF PerPod
    <3> QED
      BY <1>1, <3>1, <3>2, <3>3, <3>4
  <2>5. podPc # "done" /\ podPc' # "done"
    BY <1>2 DEF WriteData
  <2>6. Promise!WriteRow
    BY <2>2, <2>3, <2>4, <2>5 DEF Promise!WriteRow, PerPod
  <2> QED
    BY <2>6
<1>3. ASSUME NEW k \in Versions, Apply(k)
      PROVE  [Promise!RowsNext]_(Promise!rowVars)
  <2>1. Rows' = Rows /\ applied' = applied \cup {k} /\ k \notin applied /\ UNCHANGED podPc
    BY <1>3 DEF Apply, Rows, Versions
  <2>2. CASE k \in Rows
    BY <2>1, <2>2 DEF Promise!ReceiveRow
  <2>3. CASE k \notin Rows
    BY <2>1, <2>3
  <2> QED
    BY <2>2, <2>3
<1>4. CASE PodSucceeds
  <2>1. Rows \subseteq applied'
    BY <1>4 DEF PodSucceeds, SucceededRowsAreStanding, Rows, Versions
  <2> QED
    BY <1>4, <2>1 DEF PodSucceeds, Promise!Succeed, Rows, Versions
<1>5. CASE WriteOpen \/ WriteFinished \/ WriteNamed \/ Nudge
  <2>1. /\ Len(log') = Len(log) + 1
        /\ log'[Len(log) + 1] # "data"
        /\ \A k \in Versions : log'[k] = log[k]
    BY <1>1, <1>5, WriteAppends DEF WriteOpen, WriteFinished, WriteNamed, Nudge, Kinds
  <2>2. Rows' = Rows
    BY <1>1, <2>1 DEF Rows, Versions
  <2>3. UNCHANGED applied /\ podPc # "done" /\ podPc' # "done"
    BY <1>5 DEF WriteOpen, WriteFinished, WriteNamed, Nudge
  <2> QED
    BY <2>2, <2>3
<1>6. CASE PodFails
  <2>1. podPc # "done" /\ podPc' # "done" /\ UNCHANGED <<log, applied>>
    BY <1>6 DEF PodFails
  <2> QED
    BY <2>1 DEF Rows, Versions
<1>7. CASE UNCHANGED <<podPc, log, applied>>
  BY <1>7 DEF Rows, Versions
<1> QED
  BY <1>2, <1>3, <1>4, <1>5, <1>6, <1>7 DEF Next, vars, HearConfirmation,
     StreamEvent, StreamChecks, StreamWrites, StreamWriteFails, StreamMarks, StreamPlaces,
     StreamEnds, RecheckTakes, RecheckChecks, RecheckWrites, RecheckMarks, ConfirmerRestarts

\* The hand-off implements DurableRows: rows are written, received in any
\* order, and the Job succeeds only when every row it wrote is received.
THEOREM Implements == Spec => KeepsPromise
<1>1. Init => Promise!RowsInit
  BY DEF Init, Promise!RowsInit, Rows, Versions
<1>2. HandOffInvariant /\ LogIsBounded /\ (SucceededRowsAreStanding)' /\ [Next]_vars
        => [Promise!RowsNext]_(Promise!rowVars)
  BY PromiseStep
<1> QED
  BY <1>1, <1>2, BoundInductive, NoRowIsLeftBehind, PTL DEF Spec, KeepsPromise, Promise!RowsSpec

=============================================================================

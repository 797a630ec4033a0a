--------------------------- MODULE Phases_proofs ---------------------------
(***************************************************************************)
(* What the containers of a library Job learn of each other from marks and *)
(* locks alone, for every plan, every table of needs and every order of    *)
(* reads, ends and deaths: the closing container names the failures that   *)
(* happened and no other, no row is written after the hand-off, and a      *)
(* phase that says it is done has worked on its whole gap.                 *)
(***************************************************************************)
EXTENDS Phases, TLAPS

\* A phase writes no more, and a reader of its mark and its lock learns of it.
Written(p) == pc[p] \in Ending \cup Over
Ended(p) == mark[p] # "none" \/ (pc[p] = "over" /\ p \in named)

\* The board: a mark is the last thing a phase writes, and its lock is held
\* for as long as its process lives.
BoardInvariant ==
    /\ \A p \in Phases \ Included : pc[p] = "absent"
    /\ \A p \in Phases :
          /\ pc[p] \notin Over => mark[p] = "none"
          /\ pc[p] \notin {"absent", "over"} => p \in locked
          /\ pc[p] # "tell"
    /\ \A p \in named : pc[p] \notin Fresh

\* A read of one waiter.  The walk's row stands for the scan's mark alone.
ReadInvariant(w) ==
    /\ pc[w] \notin {"ask", "tell", "handed"} => at[w] = "mark" /\ asked[w] = {}
    /\ pc[w] \in {"ask", "tell"} /\ at[w] = "again" =>
          \A p \in Phases : NextNeed(w, p) => pc[p] = "over" /\ p \in named
    /\ pc[w] = "ask" => \A p \in asked[w] \cap Facts : Ended(p)

\* The failures that the closing container names.
TellInvariant ==
    /\ pc[Close] \notin {"tell", "handed"} => failures = {}
    /\ pc[Close] \in {"tell", "handed"} =>
          /\ \A p \in Facts \cap Included : Ended(p)
          /\ failures \cap Facts = {p \in Facts \cap asked[Close] : mark[p] # "done"}
          /\ \A p \in failures : pc[p] \in Over /\ mark[p] # "done"
    /\ pc[Close] = "tell" /\ at[Close] = "lock" =>
          \A p \in Facts : NextNeed(Close, p) => mark[p] = "none"
    /\ pc[Close] = "tell" => at[Close] # "row"
    /\ pc[Close] = "handed" => asked[Close] = Included

ReportInvariant ==
    TypeOK /\ BoardInvariant /\ (\A w \in Waiters : ReadInvariant(w)) /\ TellInvariant

\* In the first pod of a Job the finished row is the row of this scan.
EndInvariant ==
    /\ run = "finished" => Written(Scan)
    /\ \A w \in Waiters : pc[w] = "ask" => \A p \in asked[w] : Written(p)
    /\ pc[Close] \in {"tell", "handed"} => \A p \in Included : Written(p)

\* No phase that this one needs changes its gap again, and it has worked on
\* all that is left of it.
IsSettled(p) == NeedsAreOver(p) /\ Gap(p) \subseteq looked[p]

GapInvariant(p) ==
    /\ p \in ended => NeedsAreOver(p)
    /\ pc[p] = "pass" /\ p \in ended => Gap(p) \subseteq looked[p] \cup list[p]
    /\ p \in passed \ late => IsSettled(p)
    /\ (pc[p] = "done" \/ mark[p] = "done") /\ p \notin late => IsSettled(p)

FirstPodInvariant ==
    ReportInvariant /\ EndInvariant /\ (\A p \in Facts : GapInvariant(p))

-----------------------------------------------------------------------------
(* The phases, the plan and the next need.                                 *)

LEMMA PhaseSets ==
  /\ Scan \in Phases /\ Scan \notin Waiters /\ Close \in Waiters /\ Close \notin Phases
  /\ \A p \in Facts : p \in Phases /\ p \in Waiters /\ p # Scan /\ p # Close /\ Needs[p] \subseteq Phases
  /\ \A w \in Waiters : w = Close \/ w \in Facts
  /\ \A p \in Phases : p = Scan \/ p \in Facts
BY PhasesAssumption DEF Phases, Waiters

LEMMA PlanOfPhases ==
  ASSUME plan \in Plans
  PROVE  /\ plan \in Seq(Phases) /\ Included \subseteq Phases
         /\ \A w \in Waiters : NeedsOf(w) \subseteq Phases
BY PhasesAssumption DEF Included, NeedsOf

\* A waiter reads one need at a time.
LEMMA OneNeed ==
  ASSUME plan \in Plans, NEW w, NEW p, NEW q, NextNeed(w, p), NextNeed(w, q)
  PROVE  p = q
<1> DEFINE left == NeedsOf(w) \ asked[w]
<1>1. PICK j \in DOMAIN plan : p = plan[j] /\ p \in left /\ \A i \in 1..j - 1 : plan[i] \notin left
  BY DEF NextNeed
<1>2. PICK k \in DOMAIN plan : q = plan[k] /\ q \in left /\ \A i \in 1..k - 1 : plan[i] \notin left
  BY DEF NextNeed
<1>3. j \in Nat \ {0} /\ k \in Nat \ {0}
  BY PlanOfPhases
<1> HIDE DEF left
<1> QED
  BY <1>1, <1>2, <1>3

LEMMA NeedIsPhase ==
  ASSUME plan \in Plans, NEW w \in Waiters, NEW p, NextNeed(w, p)
  PROVE  p \in Phases /\ p \in NeedsOf(w) /\ p \notin asked[w]
BY PlanOfPhases DEF NextNeed

-----------------------------------------------------------------------------
(* The steps of a read, whatever it reads.                                 *)

\* The need has ended, the read goes on, or the round is over.
ReadStep(w) ==
    /\ ReadsOnly
    /\ pc[w] \in {"ask", "tell"}
    /\ \/ \E p \in Phases, failed \in BOOLEAN : NextNeed(w, p) /\ Finds(w, p, failed)
       \/ \E step \in ReadSteps : GoesOn(w, step)
       \/ \E yes \in BOOLEAN : Answers(w, yes)

LEMMA ReadKinds ==
  ASSUME plan \in Plans, NEW w \in Waiters, Reads(w)
  PROVE  ReadStep(w)
<1>1. ASSUME NEW p \in Phases, ReadMark(w, p) PROVE ReadStep(w)
  <2>1. (mark[p] = "failed") \in BOOLEAN /\ "lock" \in ReadSteps
    BY DEF ReadSteps
  <2> QED
    BY <1>1, <2>1 DEF ReadMark, IsAt, ReadStep
<1>2. ASSUME NEW p \in Phases, TryLock(w, p) PROVE ReadStep(w)
  <2>1. "again" \in ReadSteps /\ "row" \in ReadSteps
    BY DEF ReadSteps
  <2>2. CASE p \in named \ locked
    BY <1>2, <2>1, <2>2 DEF TryLock, IsAt, ReadStep
  <2>3. CASE p \notin named \ locked
    BY <1>2, <2>1, <2>3 DEF TryLock, IsAt, ReadStep, FindsRunning
  <2> QED
    BY <2>2, <2>3
<1>3. ASSUME NEW p \in Phases, ReadMarkAgain(w, p) PROVE ReadStep(w)
  <2>1. (mark[p] # "done") \in BOOLEAN
    OBVIOUS
  <2> QED
    BY <1>3, <2>1 DEF ReadMarkAgain, IsAt, ReadStep
<1>4. CASE ReadWalkRow(w)
  BY <1>4, PhaseSets DEF ReadWalkRow, IsAt, ReadStep
<1>5. CASE AllEnded(w)
  BY <1>5 DEF AllEnded, ReadStep
<1> QED
  BY <1>1, <1>2, <1>3, <1>4, <1>5 DEF Reads

-----------------------------------------------------------------------------
(* The type.                                                               *)

LEMMA InitType == Init => TypeOK
<1> SUFFICES ASSUME Init PROVE TypeOK
  OBVIOUS
<1>1. PICK known \in SUBSET Titles :
          rows = [p \in Phases |-> IF p \in Included /\ p # Scan THEN {} ELSE known]
  BY DEF Init
<1>2. rows \in [Phases -> SUBSET Titles]
  BY <1>1
<1> QED
  BY <1>2, PhasesAssumption, PhaseSets DEF Init, TypeOK, Stages, Fresh, ReadSteps

LEMMA NeedsStay ==
  ASSUME plan' = plan
  PROVE  Included' = Included /\ \A w : NeedsOf(w)' = NeedsOf(w)
BY DEF Included, NeedsOf

LEMMA ForgetsType ==
  ASSUME TypeOK, NEW p \in Phases, Forgets(p)
  PROVE  /\ at' \in [Waiters -> ReadSteps] /\ asked' \in [Waiters -> SUBSET Phases]
         /\ \A w \in Waiters : asked'[w] \subseteq asked[w]
         /\ ended' \subseteq ended /\ passed' \subseteq passed
         /\ last' \in [Facts -> SUBSET Titles] /\ list' \in [Facts -> SUBSET Titles]
         /\ \A q \in Facts : list'[q] = IF q = p THEN {} ELSE list[q]
BY PhaseSets DEF TypeOK, Forgets, ReadSteps, loop

LEMMA TypeStep == TypeOK /\ [Next]_vars => TypeOK'
<1> SUFFICES ASSUME TypeOK, [Next]_vars PROVE TypeOK'
  OBVIOUS
<1> USE DEF board, reading, loop, catalog, Goes
<1>0. plan' = plan /\ plan \in Plans
  BY DEF TypeOK, Next, vars, ScanSteps, OpenRun, Walk, FinishRun, BoardSteps, Stage, Name, Mark, Release,
     Dies, FactSteps, CloseSteps, Follow, Top, Reads, ReadMark, TryLock, ReadMarkAgain, ReadWalkRow,
     AllEnded, ReadsOnly, ReadGap, BeginPass, Work, EndPass, Await, Fails, TimeLimit, HandOff
<1>1. Included' = Included /\ (\A w : NeedsOf(w)' = NeedsOf(w)) /\ Close \notin Phases
  BY <1>0, NeedsStay, PhaseSets
<1>3. ASSUME NEW p \in Phases, DirectoryChanges(p) PROVE wake' \subseteq Waiters
  BY <1>3 DEF DirectoryChanges, TypeOK
<1>4. ASSUME NEW p, RowChanges(p) PROVE wake' \subseteq Waiters
  BY <1>4 DEF RowChanges, Wakes, TypeOK, Waiters
<1>5. ASSUME RunsChange PROVE wake' \subseteq Waiters
  BY <1>5 DEF RunsChange, Wakes, TypeOK
<1>6. CASE OpenRun
  BY <1>0, <1>1, <1>5, <1>6, PhaseSets DEF OpenRun, TypeOK, Stages
<1>7. ASSUME NEW t \in Titles, Walk(t) PROVE TypeOK'
  BY <1>0, <1>1, <1>4, <1>7, PhaseSets DEF Walk, TypeOK
<1>8. CASE FinishRun
  BY <1>0, <1>1, <1>5, <1>8, PhaseSets DEF FinishRun, TypeOK, Stages, Ending
<1>9. ASSUME NEW p \in Phases, Stage(p) PROVE TypeOK'
  BY <1>0, <1>1, <1>9 DEF Stage, TypeOK, Stages, Fresh
<1>10. ASSUME NEW p \in Phases, Name(p) PROVE TypeOK'
  BY <1>0, <1>1, <1>3, <1>10 DEF Name, TypeOK, Stages
<1>11. ASSUME NEW p \in Phases, Mark(p) PROVE TypeOK'
  BY <1>0, <1>1, <1>3, <1>11, ForgetsType DEF Mark, TypeOK, Stages, Ending, Over
<1>12. ASSUME NEW p \in Phases, Release(p) PROVE TypeOK'
  BY <1>0, <1>1, <1>3, <1>12 DEF Release, TypeOK, Stages, Over
<1>13. ASSUME NEW p \in Phases, Dies(p) PROVE TypeOK'
  <2>1. deaths' \in 0..MaxDeaths
    BY <1>13, PhasesAssumption DEF Dies, TypeOK
  <2> QED
    BY <1>0, <1>1, <1>3, <1>13, <2>1, ForgetsType DEF Dies, TypeOK, Stages, Over
<1>14. ASSUME NEW w \in Waiters, Reads(w) PROVE TypeOK'
  <2>0. ReadStep(w)
    BY <1>0, <1>14, ReadKinds
  <2>1. ASSUME NEW p \in Phases, NEW failed \in BOOLEAN, NextNeed(w, p), Finds(w, p, failed), ReadsOnly
        PROVE  TypeOK'
    BY <1>0, <1>1, <2>1, NeedIsPhase DEF Finds, ReadsOnly, TypeOK, ReadSteps
  <2>2. ASSUME NEW step \in ReadSteps, GoesOn(w, step), ReadsOnly PROVE TypeOK'
    BY <1>0, <1>1, <2>2 DEF GoesOn, ReadsOnly, TypeOK
  <2>3. ASSUME NEW yes \in BOOLEAN, Answers(w, yes), ReadsOnly, pc[w] \in {"ask", "tell"} PROVE TypeOK'
    BY <1>0, <1>1, <2>3, PhaseSets DEF Answers, ReadsOnly, TypeOK, ReadSteps, Stages
  <2> QED
    BY <2>0, <2>1, <2>2, <2>3 DEF ReadStep
<1>15. ASSUME NEW w \in Waiters, Follow(w) PROVE TypeOK'
  BY <1>0, <1>1, <1>15, PhaseSets DEF Follow, TypeOK, Stages
<1>16. ASSUME NEW p \in Facts, Top(p) PROVE TypeOK'
  BY <1>0, <1>1, <1>16, PhaseSets DEF Top, TypeOK, Stages, Ending
<1>17. ASSUME NEW p \in Facts, ReadGap(p) PROVE TypeOK'
  <2>1. Gap(p) \subseteq Titles
    BY DEF Gap
  <2> QED
    BY <1>0, <1>1, <1>17, <2>1, PhaseSets DEF ReadGap, TypeOK, Stages, Ending
<1>18. ASSUME NEW p \in Facts, BeginPass(p) PROVE TypeOK'
  <2>1. Gap(p) \subseteq Titles
    BY DEF Gap
  <2> QED
    BY <1>0, <1>1, <1>18, <2>1, PhaseSets DEF BeginPass, TypeOK, Stages
<1>19. ASSUME NEW p \in Facts, NEW t \in Titles, Work(p, t) PROVE TypeOK'
  BY <1>0, <1>1, <1>4, <1>19, PhaseSets DEF Work, TypeOK
<1>20. ASSUME NEW p \in Facts, EndPass(p) PROVE TypeOK'
  BY <1>0, <1>1, <1>20, PhaseSets DEF EndPass, TypeOK, Stages
<1>21. ASSUME NEW p \in Facts, Fails(p) PROVE TypeOK'
  BY <1>0, <1>1, <1>21, PhaseSets DEF Fails, TypeOK, Stages, Ending
<1>22. ASSUME NEW w \in Waiters, Await(w) PROVE TypeOK'
  BY <1>0, <1>1, <1>22, PhaseSets DEF Await, TypeOK, Stages
<1>23. ASSUME NEW p \in Facts, TimeLimit(p) PROVE TypeOK'
  BY <1>0, <1>1, <1>23 DEF TimeLimit, TypeOK
<1>24. CASE HandOff
  BY <1>0, <1>1, <1>24, PhaseSets DEF HandOff, TypeOK, Stages
<1>25. CASE UNCHANGED vars
  BY <1>1, <1>25 DEF vars, TypeOK
<1> QED
  BY <1>6, <1>7, <1>8, <1>9, <1>10, <1>11, <1>12, <1>13, <1>14, <1>15, <1>16, <1>17, <1>18, <1>19,
     <1>20, <1>21, <1>22, <1>23, <1>24, <1>25, PhaseSets
     DEF Next, ScanSteps, BoardSteps, FactSteps, CloseSteps

-----------------------------------------------------------------------------
(* Whose step it is, and what it leaves of the others.                     *)

Steps(c) ==
    \/ c = Scan /\ ScanSteps
    \/ c \in Phases /\ (BoardSteps(c) \/ Dies(c))
    \/ c \in Facts /\ (FactSteps(c) \/ Fails(c) \/ TimeLimit(c))
    \/ c = Close /\ CloseSteps

\* A step of a container changes what is its own, and takes back no row, no
\* mark and no end.
Local(c) ==
    /\ plan' = plan
    /\ \A q \in Phases \ {c} :
          /\ pc'[q] = pc[q] /\ mark'[q] = mark[q] /\ rows'[q] = rows[q]
          /\ q \in named' <=> q \in named
          /\ q \in locked' <=> q \in locked
    /\ \A q \in Facts \ {c} :
          /\ list'[q] = list[q] /\ missed'[q] = missed[q] /\ looked'[q] = looked[q]
          /\ q \in ended' <=> q \in ended
          /\ q \in passed' <=> q \in passed
          /\ q \in late' <=> q \in late
    /\ \A w \in Waiters \ {c} : pc'[w] = pc[w] /\ at'[w] = at[w] /\ asked'[w] = asked[w]
    /\ c # Close => failures' = failures
    /\ c # Scan => run' = run

Forward(c) ==
    /\ named \subseteq named' /\ late \subseteq late'
    /\ pc[c] \in Over => pc'[c] \in Over /\ mark'[c] = mark[c]
    /\ pc[c] = "over" => pc'[c] = "over"
    /\ pc[c] \in Ending \cup Over => pc'[c] \in Ending \cup Over /\ rows'[c] = rows[c]
    /\ rows[c] \subseteq rows'[c]
    /\ c \in Facts => missed[c] \subseteq missed'[c]

LEMMA ReadIsLocal ==
  ASSUME TypeOK, NEW w \in Waiters, ReadStep(w), w # Close => pc[w] # "tell"
  PROVE  Local(w) /\ (w # Close => Forward(w))
<1> USE DEF board, Goes, ReadsOnly, Local, Forward, Ending, Over, catalog
<1>0. w # Scan /\ Close \notin Phases /\ pc[w] \in {"ask", "tell"}
  BY PhaseSets DEF ReadStep
<1>1. ASSUME NEW p \in Phases, NEW failed \in BOOLEAN, NextNeed(w, p), Finds(w, p, failed), ReadsOnly
      PROVE  Local(w) /\ (w # Close => Forward(w))
  BY <1>0, <1>1 DEF Finds, TypeOK
<1>2. ASSUME NEW step \in ReadSteps, GoesOn(w, step), ReadsOnly
      PROVE  Local(w) /\ (w # Close => Forward(w))
  BY <1>0, <1>2 DEF GoesOn, TypeOK
<1>3. ASSUME NEW yes \in BOOLEAN, Answers(w, yes), ReadsOnly
      PROVE  Local(w) /\ (w # Close => Forward(w))
  BY <1>0, <1>3 DEF Answers, TypeOK
<1> QED
  BY <1>1, <1>2, <1>3 DEF ReadStep

LEMMA StepIsLocal ==
  ASSUME TypeOK, \A p \in Phases : pc[p] # "tell", NEW c \in Phases \cup {Close}, Steps(c)
  PROVE  Local(c) /\ (c # Close => Forward(c))
<1> USE DEF board, reading, loop, catalog, Goes, Local, Forward, Over, Ending
<1>0. Close \notin Phases /\ Close # Scan
  BY PhaseSets
<1>1. CASE c = Scan /\ OpenRun
  BY <1>0, <1>1 DEF OpenRun, TypeOK
<1>2. ASSUME c = Scan, NEW t \in Titles, Walk(t) PROVE Local(c) /\ Forward(c)
  BY <1>0, <1>2 DEF Walk, TypeOK
<1>3. CASE c = Scan /\ FinishRun
  BY <1>0, <1>3 DEF FinishRun, TypeOK
<1>4. CASE c \in Phases /\ Stage(c)
  BY <1>0, <1>4 DEF Stage, TypeOK
<1>5. CASE c \in Phases /\ Name(c)
  BY <1>0, <1>5 DEF Name, TypeOK
<1>6. CASE c \in Phases /\ Mark(c)
  BY <1>0, <1>6 DEF Mark, Forgets, TypeOK
<1>7. CASE c \in Phases /\ Release(c)
  BY <1>0, <1>7 DEF Release, TypeOK
<1>8. CASE c \in Phases /\ Dies(c)
  BY <1>0, <1>8 DEF Dies, Forgets, TypeOK
<1>9. CASE c \in Waiters /\ Reads(c)
  <2>1. ReadStep(c)
    BY <1>9, ReadKinds DEF TypeOK
  <2>2. c # Close => pc[c] # "tell"
    BY <1>9, PhaseSets
  <2> QED
    BY <1>9, <2>1, <2>2, ReadIsLocal
<1>10. CASE c \in Waiters /\ Follow(c)
  BY <1>0, <1>10, PhaseSets DEF Follow, TypeOK
<1>11. CASE c \in Facts /\ Top(c)
  BY <1>0, <1>11, PhaseSets DEF Top, TypeOK
<1>12. CASE c \in Facts /\ ReadGap(c)
  BY <1>0, <1>12, PhaseSets DEF ReadGap, TypeOK
<1>13. CASE c \in Facts /\ BeginPass(c)
  BY <1>0, <1>13, PhaseSets DEF BeginPass, TypeOK
<1>14. ASSUME c \in Facts, NEW t \in Titles, Work(c, t) PROVE Local(c) /\ Forward(c)
  <2>1. c \in Phases /\ c # Scan
    BY <1>14, PhaseSets
  <2> QED
    BY <1>0, <1>14, <2>1 DEF Work, TypeOK
<1>15. CASE c \in Facts /\ EndPass(c)
  BY <1>0, <1>15, PhaseSets DEF EndPass, TypeOK
<1>16. CASE c \in Facts /\ Fails(c)
  BY <1>0, <1>16, PhaseSets DEF Fails, TypeOK
<1>17. CASE c \in Waiters /\ Await(c)
  BY <1>0, <1>17, PhaseSets DEF Await, TypeOK
<1>18. CASE c \in Facts /\ TimeLimit(c)
  BY <1>0, <1>18, PhaseSets DEF TimeLimit, TypeOK
<1>19. CASE c = Close /\ HandOff
  BY <1>0, <1>19, PhaseSets DEF HandOff, TypeOK
<1> QED
  BY <1>1, <1>2, <1>3, <1>4, <1>5, <1>6, <1>7, <1>8, <1>9, <1>10, <1>11, <1>12, <1>13, <1>14, <1>15,
     <1>16, <1>17, <1>18, <1>19, PhaseSets DEF Steps, ScanSteps, BoardSteps, FactSteps, CloseSteps

LEMMA EveryStep == Next => \E c \in Phases \cup {Close} : Steps(c)
BY PhaseSets DEF Next, Steps

-----------------------------------------------------------------------------
(* The board.                                                              *)

\* A container that follows its channel stays between its name and its end.
LEMMA BoardStep ==
  ASSUME TypeOK, BoardInvariant, [Next]_vars
  PROVE  BoardInvariant'
<1> USE DEF BoardInvariant, board, Goes, Over, Fresh, Ending
<1>0. TypeOK' /\ Close \notin Phases
  BY TypeStep, PhaseSets
<1>1. ASSUME NEW c \in Phases \cup {Close}, Steps(c) PROVE BoardInvariant'
  <2>1. Local(c) /\ Included' = Included
    BY <1>1, StepIsLocal, NeedsStay DEF Local
  <2>2. /\ c \in Phases \ Included => pc'[c] = "absent"
        /\ c \in Phases => /\ pc'[c] \notin Over => mark'[c] = "none"
                           /\ pc'[c] \notin {"absent", "over"} => c \in locked'
                           /\ pc'[c] # "tell"
        /\ c \in named' /\ c \in Phases => pc'[c] \notin Fresh
    <3>1. CASE c \in Phases /\ BoardSteps(c)
      BY <3>1, <1>0 DEF BoardSteps, Stage, Name, Mark, Release, TypeOK
    <3>2. CASE c \in Phases /\ Dies(c)
      BY <3>2, <1>0 DEF Dies, TypeOK
    <3>3. CASE c = Scan /\ ScanSteps
      BY <3>3, <1>0, PhaseSets DEF ScanSteps, OpenRun, Walk, FinishRun, TypeOK
    <3>4. CASE c \in Facts /\ FactSteps(c)
      <4>1. CASE Reads(c)
        <5>1. ReadStep(c) /\ c \in Phases /\ c # Close
          BY <3>4, <4>1, ReadKinds, PhaseSets DEF TypeOK
        <5> QED
          BY <5>1 DEF ReadStep, Finds, GoesOn, Answers, ReadsOnly, TypeOK
      <4>2. CASE ~Reads(c)
        BY <3>4, <4>2, <1>0, PhaseSets
           DEF FactSteps, Follow, Top, ReadGap, BeginPass, Work, EndPass, Await, TypeOK
      <4> QED
        BY <4>1, <4>2
    <3>5. CASE c \in Facts /\ (Fails(c) \/ TimeLimit(c))
      BY <3>5, <1>0, PhaseSets DEF Fails, TimeLimit, TypeOK
    <3> QED
      BY <1>0, <1>1, <3>1, <3>2, <3>3, <3>4, <3>5 DEF Steps
  <2> QED
    BY <1>0, <2>1, <2>2 DEF Local, TypeOK
<1>2. CASE UNCHANGED vars
  BY <1>2, NeedsStay DEF vars
<1> QED
  BY <1>1, <1>2, EveryStep

\* An end lasts: the mark of a phase that is over, and the rows of one that
\* writes no more.
LEMMA EndsLast ==
  ASSUME TypeOK, BoardInvariant, [Next]_vars
  PROVE  /\ plan' = plan
         /\ \A p \in Phases :
               /\ pc[p] = "over" => pc'[p] = "over"
               /\ p \in named => p \in named'
               /\ pc[p] \in Over => pc'[p] \in Over /\ mark'[p] = mark[p]
               /\ Written(p) => Written(p)' /\ rows'[p] = rows[p]
               /\ Ended(p) => Ended(p)' /\ Written(p) /\ mark'[p] = mark[p]
               /\ rows[p] \subseteq rows'[p]
<1> USE DEF BoardInvariant
<1>0. Close \notin Phases
  BY PhaseSets
<1>1. ASSUME NEW c \in Phases \cup {Close}, Steps(c), NEW p \in Phases
      PROVE  /\ plan' = plan
             /\ pc[p] = "over" => pc'[p] = "over"
             /\ p \in named => p \in named'
             /\ pc[p] \in Over => pc'[p] \in Over /\ mark'[p] = mark[p]
             /\ Written(p) => Written(p)' /\ rows'[p] = rows[p]
             /\ rows[p] \subseteq rows'[p]
  <2>1. Local(c) /\ (c # Close => Forward(c))
    BY <1>1, StepIsLocal
  <2>2. CASE p = c
    BY <1>0, <2>1, <2>2 DEF Local, Forward, Written
  <2>3. CASE p # c
    BY <1>0, <2>1, <2>3 DEF Local, Written
  <2> QED
    BY <2>2, <2>3
<1>2. \A p \in Phases : Ended(p) => pc[p] \in Over
  BY DEF Ended, Over
<1>3. CASE UNCHANGED vars
  BY <1>2, <1>3 DEF vars, board, catalog, Written, Ended, Over
<1>4. CASE Next
  <2>1. PICK c \in Phases \cup {Close} : Steps(c)
    BY <1>4, EveryStep
  <2>2. \A p \in Phases : Ended(p) => Written(p)
    BY <1>2 DEF Written
  <2>3. ASSUME NEW p \in Phases, Ended(p) PROVE Ended(p)' /\ mark'[p] = mark[p]
    <3>1. /\ pc[p] = "over" => pc'[p] = "over"
          /\ p \in named => p \in named'
          /\ pc[p] \in Over => mark'[p] = mark[p]
      BY <1>1, <2>1
    <3> QED
      BY <1>2, <2>3, <3>1 DEF Ended
  <2>4. ASSUME NEW p \in Phases
        PROVE  /\ plan' = plan
               /\ pc[p] = "over" => pc'[p] = "over"
               /\ p \in named => p \in named'
               /\ pc[p] \in Over => pc'[p] \in Over /\ mark'[p] = mark[p]
               /\ Written(p) => Written(p)' /\ rows'[p] = rows[p]
               /\ rows[p] \subseteq rows'[p]
    BY <1>1, <2>1
  <2>5. plan' = plan
    BY <1>1, <2>1, PhaseSets
  <2> QED
    BY <2>2, <2>3, <2>4, <2>5, Zenon
<1> QED
  BY <1>3, <1>4

-----------------------------------------------------------------------------
(* The reads.                                                              *)

LEMMA NextStays ==
  ASSUME plan' = plan, NEW w, asked'[w] = asked[w]
  PROVE  \A p : NextNeed(w, p)' <=> NextNeed(w, p)
BY NeedsStay DEF NextNeed

\* A read of a waiter, in the three forms of its answer.
LEMMA ReadHolds ==
  ASSUME TypeOK, BoardInvariant, NEW w \in Waiters, ReadInvariant(w), Reads(w),
         plan' = plan, Included' = Included
  PROVE  ReadInvariant(w)'
<1> USE DEF ReadInvariant, BoardInvariant, board, Goes, ReadsOnly
<1>0. /\ pc[w] \in {"ask", "tell"} /\ ReadStep(w) /\ plan \in Plans
      /\ pc \in [Phases \cup {Close} -> Stages] /\ at \in [Waiters -> ReadSteps]
      /\ asked \in [Waiters -> SUBSET Phases] /\ w \in Phases \cup {Close}
  BY ReadKinds, PhaseSets DEF ReadStep, TypeOK
<1>1. ASSUME NEW p \in Phases, NEW failed \in BOOLEAN, Finds(w, p, failed), ReadsOnly,
             pc[w] = "ask" /\ p \in Facts => Ended(p)
      PROVE  ReadInvariant(w)'
  BY <1>0, <1>1 DEF Finds, Ended
<1>2. ASSUME NEW yes \in BOOLEAN, Answers(w, yes), ReadsOnly
      PROVE  ReadInvariant(w)'
  BY <1>0, <1>2 DEF Answers, Ended
<1>3. ASSUME NEW step \in ReadSteps, GoesOn(w, step), ReadsOnly,
             step = "again" => \A q \in Phases : NextNeed(w, q) => pc[q] = "over" /\ q \in named
      PROVE  ReadInvariant(w)'
  <2>1. \A q : NextNeed(w, q)' <=> NextNeed(w, q)
    BY <1>3, NextStays DEF GoesOn
  <2> QED
    BY <1>0, <1>3, <2>1 DEF GoesOn, Ended
<1>4. ASSUME NEW p \in Phases, ReadMark(w, p) PROVE ReadInvariant(w)'
  <2>1. "lock" \in ReadSteps /\ (mark[p] = "failed") \in BOOLEAN
    BY DEF ReadSteps
  <2> QED
    BY <1>1, <1>3, <1>4, <2>1 DEF ReadMark, Ended
<1>5. ASSUME NEW p \in Phases, TryLock(w, p) PROVE ReadInvariant(w)'
  <2>1. NextNeed(w, p) /\ ReadsOnly /\ "again" \in ReadSteps /\ "row" \in ReadSteps
    BY <1>5 DEF TryLock, IsAt, ReadSteps
  <2>2. CASE p \in named \ locked
    <3>1. pc[p] = "over" /\ GoesOn(w, "again")
      BY <1>5, <2>2 DEF TryLock, Fresh
    <3>2. \A q \in Phases : NextNeed(w, q) => pc[q] = "over" /\ q \in named
      BY <1>0, <2>1, <2>2, <3>1, OneNeed
    <3> QED
      BY <1>3, <2>1, <3>1, <3>2
  <2>3. CASE p \notin named \ locked /\ pc[w] = "tell"
    BY <1>1, <1>5, <2>1, <2>3 DEF TryLock, FindsRunning
  <2>4. CASE p \notin named \ locked /\ pc[w] = "ask" /\ p = Scan
    BY <1>3, <1>5, <2>1, <2>4 DEF TryLock, FindsRunning
  <2>5. CASE p \notin named \ locked /\ pc[w] = "ask" /\ p # Scan
    BY <1>2, <1>5, <2>1, <2>5 DEF TryLock, FindsRunning
  <2> QED
    BY <1>0, <2>2, <2>3, <2>4, <2>5
<1>6. ASSUME NEW p \in Phases, ReadMarkAgain(w, p) PROVE ReadInvariant(w)'
  <2>1. (mark[p] # "done") \in BOOLEAN /\ Ended(p)
    BY <1>6 DEF ReadMarkAgain, IsAt, Ended
  <2> QED
    BY <1>1, <1>6, <2>1 DEF ReadMarkAgain
<1>7. CASE ReadWalkRow(w)
  BY <1>1, <1>2, <1>7, PhaseSets DEF ReadWalkRow
<1>8. CASE AllEnded(w)
  BY <1>2, <1>8 DEF AllEnded
<1> QED
  BY <1>4, <1>5, <1>6, <1>7, <1>8 DEF Reads

LEMMA ReadInvariantStep ==
  ASSUME TypeOK, BoardInvariant, NEW w \in Waiters, ReadInvariant(w), [Next]_vars
  PROVE  ReadInvariant(w)'
<1> USE DEF ReadInvariant, Goes
<1>0. /\ plan' = plan /\ Included' = Included /\ w # Scan /\ Close \notin Phases
      /\ w = Close \/ w \in Facts
      /\ pc \in [Phases \cup {Close} -> Stages] /\ w \in Phases \cup {Close}
  BY EndsLast, NeedsStay, PhaseSets DEF TypeOK
<1>1. CASE pc'[w] = pc[w] /\ at'[w] = at[w] /\ asked'[w] = asked[w]
  <2>1. \A p : NextNeed(w, p)' <=> NextNeed(w, p)
    BY <1>0, <1>1, NextStays
  <2>2. asked[w] \subseteq Phases
    BY DEF TypeOK
  <2> QED
    BY <1>1, <2>1, <2>2, EndsLast
<1>2. CASE pc'[w] \notin {"ask", "tell", "handed"} /\ at'[w] = "mark" /\ asked'[w] = {}
  BY <1>2
<1>3. CASE pc'[w] = "ask" /\ at'[w] = "mark" /\ asked'[w] = {}
  BY <1>3
<1>4. CASE Reads(w)
  BY <1>0, <1>4, ReadHolds
<1>5. CASE w \in Phases /\ (BoardSteps(w) \/ Dies(w))
  BY <1>0, <1>2, <1>5 DEF BoardSteps, Stage, Name, Mark, Release, Dies, Forgets, reading, loop, TypeOK,
     Ending, Over
<1>6. CASE w \in Facts /\ (FactSteps(w) \/ Fails(w) \/ TimeLimit(w)) /\ ~Reads(w)
  BY <1>0, <1>1, <1>2, <1>3, <1>6 DEF FactSteps, Follow, Top, ReadGap, BeginPass, Work, EndPass, Await,
     Fails, TimeLimit, reading
<1>7. CASE w = Close /\ CloseSteps /\ ~Reads(w)
  BY <1>0, <1>3, <1>7 DEF CloseSteps, Follow, Await, HandOff, reading
<1>8. ASSUME NEW c \in Phases \cup {Close}, Steps(c), c # w PROVE ReadInvariant(w)'
  BY <1>1, <1>8, StepIsLocal DEF Local, BoardInvariant
<1>9. CASE UNCHANGED vars
  BY <1>1, <1>9 DEF vars, reading
<1>10. ASSUME Steps(w) PROVE ReadInvariant(w)'
  BY <1>0, <1>4, <1>5, <1>6, <1>7, <1>10 DEF Steps
<1> QED
  BY <1>0, <1>8, <1>9, <1>10, EveryStep

-----------------------------------------------------------------------------
(* The failures that the closing container names.                          *)

LEMMA TellHolds ==
  ASSUME TypeOK, BoardInvariant, ReadInvariant(Close), TellInvariant, Reads(Close),
         plan' = plan, Included' = Included
  PROVE  TellInvariant'
<1> USE DEF TellInvariant, board, Goes, ReadsOnly
<1>0. /\ pc[Close] \in {"ask", "tell"} /\ ReadStep(Close) /\ plan \in Plans /\ Close \in Waiters
      /\ pc \in [Phases \cup {Close} -> Stages] /\ at \in [Waiters -> ReadSteps]
      /\ asked \in [Waiters -> SUBSET Phases] /\ NeedsOf(Close) = Included /\ Included \subseteq Phases
  BY ReadKinds, PhaseSets, PlanOfPhases DEF ReadStep, TypeOK, NeedsOf
<1>1. ASSUME NEW p \in Phases, NEW failed \in BOOLEAN, Finds(Close, p, failed), ReadsOnly,
             p \notin asked[Close],
             pc[Close] = "tell" => /\ p \in Facts => (failed <=> mark[p] # "done")
                                   /\ failed => pc[p] \in Over /\ mark[p] # "done"
      PROVE  TellInvariant'
  BY <1>0, <1>1 DEF Finds, Ended
<1>2. ASSUME Answers(Close, FALSE), ReadsOnly, pc[Close] = "ask" PROVE TellInvariant'
  BY <1>0, <1>2 DEF Answers
<1>3. ASSUME NEW step \in ReadSteps, GoesOn(Close, step), ReadsOnly,
             pc[Close] = "tell" =>
                 /\ step # "row"
                 /\ step = "lock" => \A p \in Facts : NextNeed(Close, p) => mark[p] = "none"
      PROVE  TellInvariant'
  <2>1. \A q : NextNeed(Close, q)' <=> NextNeed(Close, q)
    BY <1>3, NextStays DEF GoesOn
  <2> QED
    BY <1>0, <1>3, <2>1 DEF GoesOn, Ended
<1>4. \A p \in Phases : NextNeed(Close, p) => p \in Included /\ p \notin asked[Close]
  BY <1>0, NeedIsPhase
<1>5. ASSUME NEW p \in Phases, ReadMark(Close, p) PROVE TellInvariant'
  <2>1. "lock" \in ReadSteps /\ (mark[p] = "failed") \in BOOLEAN /\ NextNeed(Close, p) /\ ReadsOnly
    BY <1>5 DEF ReadSteps, ReadMark, IsAt
  <2>2. CASE mark[p] # "none"
    <3>1. mark[p] \in {"done", "failed"} /\ pc[p] \in Over
      BY <2>2 DEF TypeOK, BoardInvariant
    <3>2. Finds(Close, p, mark[p] = "failed")
      BY <1>5, <2>2 DEF ReadMark
    <3> QED
      BY <1>1, <1>4, <2>1, <3>1, <3>2
  <2>3. CASE mark[p] = "none"
    <3>1. \A q \in Facts : NextNeed(Close, q) => mark[q] = "none"
      BY <1>0, <2>1, <2>3, OneNeed
    <3> QED
      BY <1>3, <1>5, <2>1, <2>3, <3>1 DEF ReadMark
  <2> QED
    BY <2>2, <2>3
<1>6. ASSUME NEW p \in Phases, TryLock(Close, p) PROVE TellInvariant'
  <2>1. NextNeed(Close, p) /\ ReadsOnly /\ "again" \in ReadSteps /\ "row" \in ReadSteps /\ at[Close] = "lock"
    BY <1>6 DEF TryLock, IsAt, ReadSteps
  <2>2. CASE p \in named \ locked
    BY <1>3, <1>6, <2>1, <2>2 DEF TryLock
  <2>3. CASE p \notin named \ locked /\ pc[Close] = "tell"
    <3>1. p \notin Facts
      <4>1. SUFFICES ASSUME p \in Facts PROVE FALSE
        OBVIOUS
      <4>2. pc[p] = "over" /\ p \in named
        BY <1>4, <2>1, <2>3, <4>1 DEF Ended
      <4>3. p \notin locked
        BY <4>2 DEF TypeOK
      <4> QED
        BY <2>3, <4>2, <4>3
    <3> QED
      BY <1>1, <1>4, <1>6, <2>1, <2>3, <3>1 DEF TryLock, FindsRunning
  <2>4. CASE p \notin named \ locked /\ pc[Close] = "ask" /\ p = Scan
    BY <1>3, <1>6, <2>1, <2>4 DEF TryLock, FindsRunning
  <2>5. CASE p \notin named \ locked /\ pc[Close] = "ask" /\ p # Scan
    BY <1>2, <1>6, <2>1, <2>5 DEF TryLock, FindsRunning
  <2> QED
    BY <1>0, <2>2, <2>3, <2>4, <2>5
<1>7. ASSUME NEW p \in Phases, ReadMarkAgain(Close, p) PROVE TellInvariant'
  <2>1. (mark[p] # "done") \in BOOLEAN /\ NextNeed(Close, p) /\ ReadsOnly /\ at[Close] = "again"
    BY <1>7 DEF ReadMarkAgain, IsAt
  <2>2. pc[p] = "over"
    BY <1>0, <2>1 DEF ReadInvariant
  <2>3. Finds(Close, p, mark[p] # "done")
    BY <1>7 DEF ReadMarkAgain
  <2> QED
    BY <1>1, <1>4, <2>1, <2>2, <2>3 DEF Over
<1>8. CASE ReadWalkRow(Close)
  <2>1. /\ NextNeed(Close, Scan) /\ ReadsOnly /\ at[Close] = "row" /\ Scan \in Phases
    BY <1>8, PhaseSets DEF ReadWalkRow, IsAt
  <2>2. pc[Close] = "ask"
    BY <1>0, <2>1
  <2> QED
    BY <1>1, <1>2, <1>4, <1>8, <2>1, <2>2 DEF ReadWalkRow
<1>9. CASE AllEnded(Close)
  <2>1. /\ pc[Close] = "ask" /\ asked[Close] = Included /\ Answers(Close, TRUE)
    BY <1>0, <1>9 DEF AllEnded
  <2>2. /\ pc'[Close] = "tell" /\ failures' = {} /\ asked'[Close] = {} /\ at'[Close] = "mark"
        /\ UNCHANGED <<named, mark>> /\ \A p \in Phases : pc'[p] = pc[p]
    BY <1>0, <1>9, <2>1, PhaseSets DEF Answers, AllEnded
  <2>3. \A p \in Facts \cap Included : Ended(p)'
    BY <2>1, <2>2, PhaseSets DEF ReadInvariant, Ended
  <2> QED
    BY <2>2, <2>3
<1> QED
  BY <1>5, <1>6, <1>7, <1>8, <1>9 DEF Reads

LEMMA TellStep ==
  ASSUME TypeOK, BoardInvariant, ReadInvariant(Close), TellInvariant, [Next]_vars
  PROVE  TellInvariant'
<1> USE DEF TellInvariant
<1>0. /\ plan' = plan /\ Included' = Included /\ Close \in Waiters /\ Close \notin Phases /\ Close # Scan
      /\ pc \in [Phases \cup {Close} -> Stages] /\ failures \subseteq Phases
      /\ asked[Close] \subseteq Included /\ Included \subseteq Phases
  BY EndsLast, NeedsStay, PhaseSets, PlanOfPhases DEF TypeOK, NeedsOf
<1>1. CASE Reads(Close)
  BY <1>0, <1>1, TellHolds
<1>2. CASE Follow(Close) \/ Await(Close)
  BY <1>0, <1>2 DEF Follow, Await, Goes, reading
<1>3. CASE HandOff
  <2>1. /\ pc[Close] = "tell" /\ asked[Close] = Included /\ UNCHANGED <<named, mark, at, asked, failures>>
        /\ pc'[Close] = "handed" /\ \A p \in Phases : pc'[p] = pc[p]
    BY <1>0, <1>3 DEF HandOff, Goes, board, reading
  <2>2. \A p \in Facts \cap Included : Ended(p)'
    BY <1>0, <2>1 DEF Ended
  <2> QED
    BY <1>0, <2>1, <2>2
<1>4. ASSUME pc'[Close] = pc[Close], at'[Close] = at[Close], asked'[Close] = asked[Close],
             failures' = failures
      PROVE  TellInvariant'
  <2>1. \A p : NextNeed(Close, p)' <=> NextNeed(Close, p)
    BY <1>0, <1>4, NextStays
  <2>2. \A p \in Facts : NextNeed(Close, p) => p \in Included
    BY <1>0, NeedIsPhase DEF NeedsOf, TypeOK
  <2>3. ASSUME pc[Close] \in {"tell", "handed"}
        PROVE  /\ \A p \in Facts \cap Included : Ended(p)' /\ mark'[p] = mark[p]
               /\ \A p \in failures : pc'[p] \in Over /\ mark'[p] = mark[p]
    BY <1>0, <2>3, EndsLast
  <2> QED
    BY <1>0, <1>4, <2>1, <2>2, <2>3
<1>5. ASSUME NEW c \in Phases \cup {Close}, Steps(c), c # Close PROVE TellInvariant'
  BY <1>0, <1>4, <1>5, StepIsLocal DEF Local, BoardInvariant
<1>6. CASE Steps(Close)
  BY <1>0, <1>1, <1>2, <1>3, <1>6, PhaseSets DEF Steps, CloseSteps
<1>7. CASE UNCHANGED vars
  BY <1>4, <1>7 DEF vars, reading
<1> QED
  BY <1>5, <1>6, <1>7, EveryStep

-----------------------------------------------------------------------------
(* The first pod of a Job: no finished row before its own.                 *)

\* A waiter reads only of phases that write no more, until it reads failures.
LEMMA AskHolds ==
  ASSUME ReportInvariant, EndInvariant, NEW w \in Waiters, Reads(w), plan' = plan, Included' = Included
  PROVE  /\ pc'[w] = "ask" => \A p \in asked'[w] : Written(p)
         /\ pc[w] = "ask" /\ pc'[w] = "tell" => \A p \in Included : Written(p)
<1> USE DEF EndInvariant, board, Goes, ReadsOnly, ReportInvariant
<1>0. /\ pc[w] \in {"ask", "tell"} /\ plan \in Plans /\ BoardInvariant /\ ReadInvariant(w)
      /\ pc \in [Phases \cup {Close} -> Stages] /\ mark \in [Phases -> {"none", "done", "failed"}]
      /\ asked \in [Waiters -> SUBSET Phases] /\ w \in Phases \cup {Close}
  BY ReadKinds, PhaseSets DEF ReadStep, TypeOK
<1>1. ASSUME NEW p \in Phases, NEW failed \in BOOLEAN, Finds(w, p, failed), pc[w] = "ask" => Written(p)
      PROVE  /\ pc'[w] = "ask" => \A q \in asked'[w] : Written(q)
             /\ pc[w] = "ask" /\ pc'[w] = "tell" => \A q \in Included : Written(q)
  BY <1>0, <1>1 DEF Finds
<1>2. ASSUME Answers(w, FALSE) \/ \E step \in ReadSteps : GoesOn(w, step)
      PROVE  /\ pc'[w] = "ask" => \A q \in asked'[w] : Written(q)
             /\ pc[w] = "ask" /\ pc'[w] = "tell" => \A q \in Included : Written(q)
  BY <1>0, <1>2 DEF Answers, GoesOn
<1>3. {"lock", "again", "row"} \subseteq ReadSteps
  BY DEF ReadSteps
<1>4. \A p \in Phases : mark[p] # "none" \/ pc[p] = "over" => Written(p)
  BY <1>0 DEF BoardInvariant, Written, Over
<1>5. ASSUME NEW p \in Phases, ReadMark(w, p)
      PROVE  /\ pc'[w] = "ask" => \A q \in asked'[w] : Written(q)
             /\ pc[w] = "ask" /\ pc'[w] = "tell" => \A q \in Included : Written(q)
  <2>1. (mark[p] = "failed") \in BOOLEAN
    OBVIOUS
  <2> QED
    BY <1>1, <1>2, <1>3, <1>4, <1>5, <2>1 DEF ReadMark
<1>6. ASSUME NEW p \in Phases, TryLock(w, p)
      PROVE  /\ pc'[w] = "ask" => \A q \in asked'[w] : Written(q)
             /\ pc[w] = "ask" /\ pc'[w] = "tell" => \A q \in Included : Written(q)
  <2>1. CASE p \in named \ locked
    BY <1>2, <1>3, <1>6, <2>1 DEF TryLock
  <2>2. CASE p \notin named \ locked /\ pc[w] = "tell"
    BY <1>1, <1>6, <2>2 DEF TryLock, FindsRunning
  <2>3. CASE p \notin named \ locked /\ pc[w] = "ask"
    BY <1>2, <1>3, <1>6, <2>3 DEF TryLock, FindsRunning
  <2> QED
    BY <1>0, <2>1, <2>2, <2>3
<1>7. ASSUME NEW p \in Phases, ReadMarkAgain(w, p)
      PROVE  /\ pc'[w] = "ask" => \A q \in asked'[w] : Written(q)
             /\ pc[w] = "ask" /\ pc'[w] = "tell" => \A q \in Included : Written(q)
  <2>1. (mark[p] # "done") \in BOOLEAN /\ Written(p)
    BY <1>0, <1>4, <1>7 DEF ReadMarkAgain, IsAt, ReadInvariant
  <2> QED
    BY <1>1, <1>7, <2>1 DEF ReadMarkAgain
<1>8. CASE ReadWalkRow(w)
  BY <1>1, <1>2, <1>8, PhaseSets DEF ReadWalkRow
<1>9. CASE AllEnded(w)
  <2>1. pc[w] = "ask" /\ asked[w] = NeedsOf(w) /\ Answers(w, TRUE)
    BY <1>9 DEF AllEnded
  <2>2. w # Close => pc'[w] = "gap"
    BY <1>0, <2>1 DEF Answers
  <2>3. w = Close => pc'[w] = "tell" /\ NeedsOf(w) = Included
    BY <1>0, <2>1 DEF Answers, NeedsOf
  <2> QED
    BY <2>1, <2>2, <2>3
<1> QED
  BY <1>5, <1>6, <1>7, <1>8, <1>9 DEF Reads

LEMMA EndStep ==
  ASSUME ReportInvariant, EndInvariant, [Next]_vars
  PROVE  EndInvariant'
<1> USE DEF EndInvariant, ReportInvariant
<1>0. /\ plan' = plan /\ Included' = Included /\ Close \notin Phases /\ Scan \in Phases /\ Close \in Waiters
      /\ pc \in [Phases \cup {Close} -> Stages] /\ Included \subseteq Phases
      /\ asked \in [Waiters -> SUBSET Phases] /\ plan \in Plans
      /\ \A p \in Phases : Written(p) => Written(p)'
  BY EndsLast, NeedsStay, PhaseSets, PlanOfPhases DEF TypeOK
<1>1. run' = "finished" => Written(Scan)'
  <2>1. CASE run' = run
    BY <1>0, <2>1
  <2>2. CASE ScanSteps
    BY <1>0, <2>2 DEF ScanSteps, OpenRun, Walk, FinishRun, Goes, Written, catalog
  <2>3. ASSUME NEW c \in Phases \cup {Close}, Steps(c), ~ScanSteps PROVE run' = run
    <3>1. CASE c = Scan
      BY <1>0, <2>3, <3>1, PhaseSets DEF Steps, BoardSteps, Stage, Name, Mark, Release, Dies, catalog
    <3>2. CASE c # Scan
      BY <2>3, <3>2, StepIsLocal DEF Local, BoardInvariant
    <3> QED
      BY <3>1, <3>2
  <2> QED
    BY <2>1, <2>2, <2>3, EveryStep DEF vars, catalog
<1>2. ASSUME NEW w \in Waiters, pc'[w] = "ask" PROVE \A p \in asked'[w] : Written(p)'
  <2>0. asked[w] \subseteq Phases
    BY <1>0
  <2>1. CASE pc'[w] = pc[w] /\ asked'[w] = asked[w]
    BY <1>0, <1>2, <2>0, <2>1
  <2>2. CASE Reads(w)
    <3>1. \A p \in asked'[w] : Written(p)
      BY <1>0, <1>2, <2>2, AskHolds
    <3>2. asked'[w] \subseteq Phases
      BY TypeStep DEF TypeOK
    <3> QED
      BY <1>0, <3>1, <3>2
  <2>3. ASSUME Steps(w), ~Reads(w) PROVE asked'[w] = {} \/ (pc'[w] = pc[w] /\ asked'[w] = asked[w])
    <3>0. w \in Phases \cup {Close} /\ w # Scan /\ ReadInvariant(w) /\ (w \in Phases => w \in Facts)
      BY PhaseSets
    <3>1. CASE w \in Phases /\ (BoardSteps(w) \/ Dies(w))
      BY <1>0, <1>2, <3>0, <3>1
         DEF BoardSteps, Stage, Name, Mark, Release, Dies, Goes, Forgets, reading, loop, Ending, Over, TypeOK
    <3>2. CASE w \in Facts /\ (FactSteps(w) \/ Fails(w) \/ TimeLimit(w))
      BY <1>0, <1>2, <2>3, <3>0, <3>2
         DEF FactSteps, Follow, Top, ReadGap, BeginPass, Work, EndPass, Await, Fails, TimeLimit, Goes,
             reading, ReadInvariant, TypeOK
    <3>3. CASE w = Close /\ CloseSteps
      BY <1>0, <1>2, <2>3, <3>0, <3>3
         DEF CloseSteps, Follow, Await, HandOff, Goes, reading, ReadInvariant, TypeOK
    <3> QED
      BY <2>3, <3>0, <3>1, <3>2, <3>3 DEF Steps
  <2>4. ASSUME NEW c \in Phases \cup {Close}, Steps(c), c # w
        PROVE  pc'[w] = pc[w] /\ asked'[w] = asked[w]
    BY <2>4, StepIsLocal DEF Local, BoardInvariant
  <2>5. CASE UNCHANGED vars
    BY <2>1, <2>5 DEF vars, reading
  <2> QED
    BY <2>1, <2>2, <2>3, <2>4, <2>5, EveryStep
<1>3. ASSUME pc'[Close] \in {"tell", "handed"} PROVE \A p \in Included : Written(p)'
  <2>1. CASE pc[Close] \in {"tell", "handed"}
    BY <1>0, <2>1
  <2>2. CASE Reads(Close)
    BY <1>0, <1>3, <2>1, <2>2, AskHolds DEF Reads, ReadMark, TryLock, ReadMarkAgain, ReadWalkRow, AllEnded,
       IsAt, Finds, Answers, GoesOn, FindsRunning, Goes
  <2>3. ASSUME CloseSteps, ~Reads(Close) PROVE pc[Close] \in {"tell", "handed"}
    BY <1>0, <1>3, <2>3 DEF CloseSteps, Follow, Await, HandOff, Goes
  <2>4. ASSUME NEW c \in Phases \cup {Close}, Steps(c), c # Close PROVE pc'[Close] = pc[Close]
    BY <1>0, <2>4, StepIsLocal DEF Local, BoardInvariant
  <2>5. ASSUME Steps(Close) PROVE CloseSteps
    BY <2>5, PhaseSets DEF Steps
  <2> QED
    BY <1>3, <2>1, <2>2, <2>3, <2>4, <2>5, EveryStep DEF vars
<1> QED
  BY <1>0, <1>1, <1>2, <1>3

-----------------------------------------------------------------------------
(* The gap of a phase whose needs are over.                                *)

\* Only the walk, and a pass, write rows.
LEMMA RowsOfWriters ==
  ASSUME TypeOK, BoardInvariant, [Next]_vars
  PROVE  \A q \in Phases : rows'[q] = rows[q] \/ pc[q] \in {"walk", "pass"}
<1>1. ASSUME NEW c \in Phases \cup {Close}, Steps(c), NEW q \in Phases
      PROVE  rows'[q] = rows[q] \/ pc[q] \in {"walk", "pass"}
  <2>1. CASE q # c
    BY <1>1, <2>1, StepIsLocal DEF Local, BoardInvariant
  <2>2. CASE rows' = rows
    BY <2>2
  <2>3. CASE c = Scan /\ ScanSteps
    BY <2>1, <2>3, PhaseSets DEF ScanSteps, OpenRun, Walk, FinishRun
  <2>4. CASE c \in Facts /\ FactSteps(c)
    <3>1. CASE Reads(c)
      <4>1. ReadStep(c)
        BY <2>4, <3>1, ReadKinds, PhaseSets DEF TypeOK
      <4> QED
        BY <2>2, <4>1 DEF ReadStep, ReadsOnly, catalog
    <3>2. CASE ~Reads(c)
      BY <2>1, <2>4, <3>2 DEF FactSteps, Follow, Top, ReadGap, BeginPass, Work, EndPass, Await, catalog
    <3> QED
      BY <3>1, <3>2
  <2>5. CASE (c \in Phases /\ (BoardSteps(c) \/ Dies(c))) \/ (c \in Facts /\ (Fails(c) \/ TimeLimit(c)))
    BY <2>2, <2>5 DEF BoardSteps, Stage, Name, Mark, Release, Dies, Fails, TimeLimit, catalog
  <2>6. CASE c = Close
    BY <2>1, <2>6, PhaseSets
  <2> QED
    BY <1>1, <2>3, <2>4, <2>5, <2>6 DEF Steps
<1>2. CASE UNCHANGED vars
  BY <1>2 DEF vars, catalog
<1> QED
  BY <1>1, <1>2, EveryStep

LEMMA GapShrinks ==
  ASSUME ReportInvariant, [Next]_vars, NEW p \in Facts
  PROVE  /\ looked[p] \subseteq looked'[p]
         /\ NeedsAreOver(p) => NeedsAreOver(p)' /\ Gap(p)' \subseteq Gap(p)
<1> USE DEF ReportInvariant
<1>0. /\ Included' = Included /\ Needs[p] \subseteq Phases /\ p \in Phases /\ Close \notin Phases
      /\ \A q \in Phases : Written(q) => Written(q)' /\ rows'[q] = rows[q]
      /\ \A q \in Phases : rows[q] \subseteq rows'[q]
  BY EndsLast, NeedsStay, PhaseSets
<1>1. missed[p] \subseteq missed'[p]
  <2>1. ASSUME NEW c \in Phases \cup {Close}, Steps(c) PROVE missed[p] \subseteq missed'[p]
    BY <1>0, <2>1, StepIsLocal DEF Local, Forward, BoardInvariant
  <2> QED
    BY <2>1, EveryStep DEF vars, catalog
<1>2. looked[p] \subseteq looked'[p]
  <2>1. ASSUME NEW c \in Phases \cup {Close}, Steps(c), c # p PROVE looked'[p] = looked[p]
    BY <2>1, StepIsLocal DEF Local, BoardInvariant
  <2>2. ASSUME Steps(p), looked' # looked PROVE \E t \in Titles : Work(p, t)
    <3>1. CASE Reads(p)
      BY <2>2, <3>1 DEF Reads, ReadMark, TryLock, ReadMarkAgain, ReadWalkRow, AllEnded, ReadsOnly
    <3> QED
      BY <2>2, <3>1, PhaseSets DEF Steps, BoardSteps, Stage, Name, Mark, Release, Dies,
         FactSteps, Follow, Top, ReadGap, BeginPass, EndPass, Await, Fails, TimeLimit
  <2>3. ASSUME NEW t \in Titles, Work(p, t) PROVE looked[p] \subseteq looked'[p]
    BY <2>3 DEF Work, TypeOK
  <2>4. CASE Next
    BY <1>0, <2>1, <2>2, <2>3, <2>4, EveryStep
  <2> QED
    BY <2>4 DEF vars
<1>3. ASSUME NeedsAreOver(p) PROVE NeedsAreOver(p)' /\ Gap(p)' \subseteq Gap(p)
  <2>1. \A q \in Needs[p] \cap Included : Written(q) /\ Written(q)' /\ rows'[q] = rows[q]
    BY <1>0, <1>3 DEF NeedsAreOver, Written
  <2>2. \A q \in Needs[p] \ Included : rows'[q] = rows[q]
    BY <1>0, RowsOfWriters DEF BoardInvariant
  <2>3. NeedsAreOver(p)'
    BY <1>0, <2>1 DEF NeedsAreOver, Written
  <2>4. Gap(p)' \subseteq Gap(p)
    BY <1>0, <1>1, <2>1, <2>2 DEF Gap
  <2> QED
    BY <2>3, <2>4
<1> QED
  BY <1>2, <1>3

LEMMA GapStep ==
  ASSUME ReportInvariant, EndInvariant, NEW p \in Facts, GapInvariant(p), [Next]_vars
  PROVE  GapInvariant(p)'
<1> USE DEF GapInvariant, Goes
<1>0. /\ p \in Phases /\ p # Scan /\ p # Close /\ p \in Waiters /\ Close \notin Phases /\ TypeOK /\ BoardInvariant
      /\ looked[p] \subseteq looked'[p] /\ late \subseteq late' /\ (p \in named => p \in named')
      /\ pc \in [Phases \cup {Close} -> Stages] /\ mark \in [Phases -> {"none", "done", "failed"}]
      /\ NeedsAreOver(p) => NeedsAreOver(p)' /\ Gap(p)' \subseteq Gap(p)
  <2>1. late \subseteq late'
    <3>1. ASSUME NEW c \in Phases \cup {Close}, Steps(c) PROVE late \subseteq late'
      <4>1. \A q \in Facts \ {c} : q \in late' <=> q \in late
        BY <3>1, StepIsLocal DEF Local, ReportInvariant, BoardInvariant
      <4>2. c \in Facts => (c \in late => c \in late')
        BY <3>1, StepIsLocal, PhaseSets DEF Forward, ReportInvariant, BoardInvariant
      <4>3. late \subseteq Facts
        BY PhasesAssumption DEF ReportInvariant, TypeOK
      <4> QED
        BY <4>1, <4>2, <4>3
    <3> QED
      BY <3>1, EveryStep DEF vars
  <2> QED
    BY <2>1, GapShrinks, PhaseSets, EndsLast DEF ReportInvariant, TypeOK
<1>1. IsSettled(p) => IsSettled(p)'
  BY <1>0 DEF IsSettled
\* What p holds stays as it is, or it lets go of it.
<1>2. ASSUME p \in ended' => p \in ended, p \in passed' => p \in passed,
             pc'[p] = "pass" => pc[p] = "pass" /\ list'[p] = list[p],
             pc'[p] = "done" => pc[p] = "done" \/ p \in late,
             mark'[p] = "done" => mark[p] = "done" \/ pc[p] = "done"
      PROVE  GapInvariant(p)'
  BY <1>0, <1>1, <1>2
<1>3. ASSUME NEW c \in Phases \cup {Close}, Steps(c), c # p PROVE GapInvariant(p)'
  BY <1>0, <1>2, <1>3, StepIsLocal DEF Local, BoardInvariant
<1>4. CASE BoardSteps(p) \/ Dies(p)
  BY <1>0, <1>2, <1>4 DEF BoardSteps, Stage, Name, Mark, Release, Dies, Forgets, loop, board, TypeOK
<1>5. CASE Reads(p)
  <2>1. ReadStep(p) /\ pc[p] = "ask"
    BY <1>0, <1>5, ReadKinds DEF ReadStep, TypeOK, BoardInvariant
  <2>2. /\ pc'[p] \in {"ask", "gap"} /\ UNCHANGED <<mark, passed, late, list>>
        /\ p \in ended' => p \in ended \/ AllEnded(p)
    BY <1>0, <1>5, <2>1 DEF Reads, ReadMark, TryLock, ReadMarkAgain, ReadWalkRow, Finds, GoesOn, Answers,
       AllEnded, FindsRunning, ReadsOnly, board
  <2>3. ASSUME AllEnded(p) PROVE NeedsAreOver(p)
    BY <1>0, <2>1, <2>3 DEF AllEnded, EndInvariant, NeedsOf, NeedsAreOver, Written
  <2> QED
    BY <1>0, <1>1, <2>2, <2>3
<1>6. CASE Follow(p) \/ Await(p) \/ TimeLimit(p)
  BY <1>0, <1>2, <1>6 DEF Follow, Await, TimeLimit, loop, board
<1>7. CASE Top(p)
  BY <1>0, <1>2, <1>7 DEF Top, board
<1>8. CASE Fails(p)
  BY <1>0, <1>2, <1>8 DEF Fails, board
<1>9. CASE ReadGap(p)
  <2>1. CASE MayPass(p, Gap(p))
    BY <1>0, <1>2, <1>9, <2>1 DEF ReadGap, board
  <2>2. CASE ~MayPass(p, Gap(p)) /\ p \notin ended
    BY <1>0, <1>2, <1>9, <2>2 DEF ReadGap, board
  <2>3. CASE ~MayPass(p, Gap(p)) /\ p \in ended
    <3>1. p \notin late => IsSettled(p)
      BY <2>3 DEF MayPass, IsSettled
    <3>2. pc'[p] = "done" /\ UNCHANGED <<mark, ended, passed, late>>
      BY <1>0, <1>9, <2>3 DEF ReadGap, board
    <3> QED
      BY <1>0, <1>1, <3>1, <3>2
  <2> QED
    BY <2>1, <2>2, <2>3
<1>10. CASE BeginPass(p)
  <2>1. /\ pc'[p] = "pass" /\ list'[p] = Gap(p) /\ UNCHANGED <<mark, ended, passed, late>>
        /\ pc[p] = "list"
    BY <1>0, <1>10 DEF BeginPass, board, TypeOK
  <2> QED
    BY <1>0, <1>1, <2>1
<1>11. ASSUME NEW t \in Titles, Work(p, t) PROVE GapInvariant(p)'
  <2>1. /\ pc'[p] = "pass" /\ pc[p] = "pass" /\ list'[p] = list[p] \ {t}
        /\ UNCHANGED <<mark, ended, passed, late>>
        /\ NeedsAreOver(p) => t \in looked'[p]
    BY <1>0, <1>11 DEF Work, board, TypeOK
  <2>2. p \in ended => Gap(p)' \subseteq looked'[p] \cup list'[p]
    BY <1>0, <2>1
  <2> QED
    BY <1>0, <1>1, <2>1, <2>2
<1>12. CASE EndPass(p)
  <2>1. /\ pc'[p] = "top" /\ pc[p] = "pass" /\ (list[p] = {} \/ p \in late)
        /\ UNCHANGED <<mark, ended, late>> /\ passed' = passed \cup ({p} \cap ended)
    BY <1>0, <1>12 DEF EndPass, board
  <2>2. p \in ended /\ p \notin late => IsSettled(p)
    BY <2>1 DEF IsSettled
  <2> QED
    BY <1>0, <1>1, <2>1, <2>2
<1>13. CASE UNCHANGED vars
  BY <1>0, <1>2, <1>13 DEF vars, loop, board
<1>14. ASSUME Steps(p) PROVE GapInvariant(p)'
  BY <1>0, <1>4, <1>5, <1>6, <1>7, <1>8, <1>9, <1>10, <1>11, <1>12, <1>14 DEF Steps, FactSteps
<1> QED
  BY <1>0, <1>3, <1>13, <1>14, EveryStep

-----------------------------------------------------------------------------
(* The theorems.                                                           *)

LEMMA InitReport == Init => ReportInvariant
<1> SUFFICES ASSUME Init PROVE ReportInvariant
  OBVIOUS
<1>1. TypeOK /\ Close \notin Phases
  BY InitType, PhaseSets
<1>2. BoardInvariant
  BY <1>1 DEF Init, BoardInvariant, Over
<1>3. (\A w \in Waiters : ReadInvariant(w)) /\ TellInvariant
  BY <1>1, PhaseSets DEF Init, ReadInvariant, TellInvariant
<1> QED
  BY <1>1, <1>2, <1>3 DEF ReportInvariant

LEMMA ReportStep == ReportInvariant /\ [Next]_vars => ReportInvariant'
BY TypeStep, BoardStep, ReadInvariantStep, TellStep, PhaseSets DEF ReportInvariant

LEMMA InitFirstPod ==
  ASSUME ~Retried, Init
  PROVE  FirstPodInvariant
<1>1. ReportInvariant /\ Close \notin Phases
  BY InitReport, PhaseSets
<1>2. EndInvariant
  BY <1>1, PhaseSets DEF Init, EndInvariant
<1>3. \A p \in Facts : GapInvariant(p)
  BY <1>1, PhaseSets DEF Init, GapInvariant
<1> QED
  BY <1>1, <1>2, <1>3 DEF FirstPodInvariant

LEMMA FirstPodStep == FirstPodInvariant /\ [Next]_vars => FirstPodInvariant'
BY ReportStep, EndStep, GapStep DEF FirstPodInvariant

\* Every variable of the pod's phases keeps its type: a lock is held by a
\* process that lives, and a title is in hand only in a pass.
THEOREM TypeCorrect == Spec => []TypeOK
BY InitType, TypeStep, PTL DEF Spec

\* The marks, the locks, the reads and the failures agree at every step, in
\* the first pod of a Job and in any later one.
THEOREM ReportInductive == Spec => []ReportInvariant
BY InitReport, ReportStep, PTL DEF Spec

\* awaitPhases names every phase of facts that failed or died and none that
\* wrote a done mark, whatever dies and in whatever order it reads.
THEOREM FailuresTheorem == Spec => []FailuresAreTrue
<1>1. ReportInvariant => FailuresAreTrue
  <2> SUFFICES ASSUME ReportInvariant, pc[Close] = "handed"
               PROVE  /\ failures \cap Facts = {p \in Facts \cap Included : mark[p] # "done"}
                      /\ \A p \in failures : pc[p] \in Over /\ mark[p] # "done"
    BY DEF FailuresAreTrue
  <2> QED
    BY DEF ReportInvariant, TellInvariant
<1> QED
  BY <1>1, ReportInductive, PTL

\* In the first pod of a Job the finished row stands for this pod's own scan,
\* and a phase whose needs are over has its gap to itself.
THEOREM FirstPodInductive == ~Retried => (Spec => []FirstPodInvariant)
<1> SUFFICES ASSUME ~Retried PROVE Spec => []FirstPodInvariant
  OBVIOUS
<1>1. Init => FirstPodInvariant
  BY InitFirstPod
<1> QED
  BY <1>1, FirstPodStep, PTL DEF Spec

\* A phase that writes a done mark before its limit has worked on every title
\* left in its gap, after everything it needs was written: the last pass of
\* the loop is never skipped.
THEOREM GapTheorem == ~Retried => (Spec => []LookedAtItsGap)
<1> SUFFICES ASSUME ~Retried PROVE Spec => []LookedAtItsGap
  OBVIOUS
<1>1. FirstPodInvariant => LookedAtItsGap
  BY DEF FirstPodInvariant, GapInvariant, IsSettled, LookedAtItsGap
<1> QED
  BY <1>1, FirstPodInductive, PTL

\* No phase of the pod writes a row once the closing container hands off.
THEOREM NoLateRow == ~Retried => (Spec => NoRowAfterHandOff)
<1> SUFFICES ASSUME ~Retried PROVE Spec => NoRowAfterHandOff
  OBVIOUS
<1>1. FirstPodInvariant /\ FirstPodInvariant' /\ [Next]_vars => [pc[Close] = "handed" => UNCHANGED rows]_vars
  <2> SUFFICES ASSUME FirstPodInvariant, FirstPodInvariant', [Next]_vars, pc[Close] = "handed"
               PROVE  rows' = rows
    OBVIOUS
  <2>1. /\ TypeOK /\ BoardInvariant /\ TypeOK'
        /\ \A p \in Phases : Written(p) => rows'[p] = rows[p]
    BY EndsLast DEF FirstPodInvariant, ReportInvariant
  <2>2. \A p \in Phases \cap Included : rows'[p] = rows[p]
    BY <2>1 DEF FirstPodInvariant, EndInvariant
  <2>3. \A p \in Phases \ Included : rows'[p] = rows[p]
    BY <2>1, RowsOfWriters DEF BoardInvariant
  <2> QED
    BY <2>1, <2>2, <2>3 DEF TypeOK
<1> QED
  BY <1>1, FirstPodInductive, PTL DEF Spec, NoRowAfterHandOff
=============================================================================

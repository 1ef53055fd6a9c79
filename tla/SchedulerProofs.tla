--------------------------- MODULE SchedulerProofs ---------------------------
(* What Scheduler.plan decides, for every clock, kickoff and stored row.    *)
EXTENDS Scheduler, TLAPS

LEMMA TimingType ==
  ASSUME NEW kickoff \in Times, NEW now \in Int,
         NEW isLive \in BOOLEAN, NEW isFinished \in BOOLEAN
  PROVE  ClassifyTiming(kickoff, now, isLive, isFinished) \in Timing
BY NullAssumption, ConfigAssumption DEF ClassifyTiming, Timing, Times

\* The next time of a due capture is never later than the end of the capture window, and not
\* earlier than the cycle that planned it.
LEMMA PlannedNextBounds ==
  ASSUME NEW kickoff \in Int, NEW now \in Int, now <= FinalEnd(kickoff)
  PROVE  /\ PlannedNext(kickoff, now) \in Int
         /\ now <= PlannedNext(kickoff, now)
         /\ PlannedNext(kickoff, now) <= FinalEnd(kickoff)
BY ConfigAssumption DEF PlannedNext, CaptureInterval, FinalEnd

\* The window has not opened and is over at once for no clock: the early returns of plan
\* exclude each other.
LEMMA PlanWaits ==
  ASSUME NEW kickoff \in Times, NEW timing \in Timing, NEW now \in Int, NEW next \in Times,
         NEW finalized \in BOOLEAN, NEW captured \in BOOLEAN,
         ~Over(timing, finalized), kickoff # Null, now < UpcomingStart(kickoff)
  PROVE  Plan(kickoff, timing, now, next, finalized, captured)
           = Decision("WAITING", FALSE, UpcomingStart(kickoff), FALSE)
<1>1. kickoff \in Int
  BY DEF Times
<1>2. ~WindowOver(kickoff, now)
  BY <1>1, ConfigAssumption DEF WindowOver, FinalEnd, UpcomingStart
<1> QED
  BY <1>2 DEF Plan

LEMMA PlanType ==
  ASSUME NEW kickoff \in Times, NEW timing \in Timing, NEW now \in Int, NEW next \in Times,
         NEW finalized \in BOOLEAN, NEW captured \in BOOLEAN
  PROVE  Plan(kickoff, timing, now, next, finalized, captured)
           \in [phase: PlannedPhase, capture: BOOLEAN, next: Times, finalized: BOOLEAN]
<1> DEFINE d == Plan(kickoff, timing, now, next, finalized, captured)
<1>1. CASE Over(timing, finalized)
  BY <1>1 DEF Plan, Decision, PlannedPhase, Times
<1>2. CASE ~Over(timing, finalized) /\ kickoff = Null
  BY <1>2, ConfigAssumption DEF Plan, UnknownKickoff, Decision, PlannedPhase, Times
<1>3. CASE ~Over(timing, finalized) /\ kickoff # Null
  <2>1. kickoff \in Int
    BY <1>3 DEF Times
  <2>2. CASE now < UpcomingStart(kickoff)
    <3>1. d = Decision("WAITING", FALSE, UpcomingStart(kickoff), FALSE)
      BY <1>3, <2>2, PlanWaits
    <3>2. UpcomingStart(kickoff) \in Int
      BY <2>1, ConfigAssumption DEF UpcomingStart
    <3> QED
      BY <3>1, <3>2 DEF Decision, PlannedPhase, Times
  <2>3. CASE ~(now < UpcomingStart(kickoff)) /\ WindowOver(kickoff, now)
    BY <1>3, <2>3 DEF Plan, AfterWindow, Decision, PlannedPhase, Times
  <2>4. CASE ~(now < UpcomingStart(kickoff)) /\ ~WindowOver(kickoff, now)
    <3>1. now <= FinalEnd(kickoff)
      BY <2>1, <2>4, ConfigAssumption DEF WindowOver, FinalEnd
    <3>2. PlannedNext(kickoff, now) \in Int
      BY <2>1, <3>1, PlannedNextBounds
    <3>3. d = InsideWindow(kickoff, timing, now, next)
      BY <1>3, <2>4 DEF Plan
    <3> QED
      BY <3>2, <3>3 DEF InsideWindow, Decision, PlannedPhase, Times
  <2> QED
    BY <2>2, <2>3, <2>4
<1> QED
  BY <1>1, <1>2, <1>3

\* A decision either finalizes the match or names the time of the next look at it: the due
\* scan, which skips rows without a next time, cannot lose a match.
THEOREM PlanKeepsTrack ==
  ASSUME NEW kickoff \in Times, NEW timing \in Timing, NEW now \in Int, NEW next \in Times,
         NEW finalized \in BOOLEAN, NEW captured \in BOOLEAN
  PROVE  LET d == Plan(kickoff, timing, now, next, finalized, captured)
         IN  d.next = Null => d.finalized
<1> DEFINE d == Plan(kickoff, timing, now, next, finalized, captured)
<1>1. CASE Over(timing, finalized)
  BY <1>1 DEF Plan, Decision
<1>2. CASE ~Over(timing, finalized) /\ kickoff = Null
  BY <1>2, ConfigAssumption, NullAssumption DEF Plan, UnknownKickoff, Decision
<1>3. CASE ~Over(timing, finalized) /\ kickoff # Null
  <2>1. kickoff \in Int
    BY <1>3 DEF Times
  <2>2. CASE now < UpcomingStart(kickoff)
    <3>1. d = Decision("WAITING", FALSE, UpcomingStart(kickoff), FALSE)
      BY <1>3, <2>2, PlanWaits
    <3>2. UpcomingStart(kickoff) # Null
      BY <2>1, ConfigAssumption, NullAssumption DEF UpcomingStart
    <3> QED
      BY <3>1, <3>2 DEF Decision
  <2>3. CASE ~(now < UpcomingStart(kickoff)) /\ WindowOver(kickoff, now)
    BY <1>3, <2>3 DEF Plan, AfterWindow, Decision
  <2>4. CASE ~(now < UpcomingStart(kickoff)) /\ ~WindowOver(kickoff, now)
    <3>1. now <= FinalEnd(kickoff)
      BY <2>1, <2>4, ConfigAssumption DEF WindowOver, FinalEnd
    <3>2. PlannedNext(kickoff, now) # Null
      BY <2>1, <3>1, PlannedNextBounds, NullAssumption
    <3>3. d = InsideWindow(kickoff, timing, now, next)
      BY <1>3, <2>4 DEF Plan
    <3>4. d.next # Null
      BY <3>2, <3>3 DEF InsideWindow, Decision, Due
    <3> QED
      BY <3>4
  <2> QED
    BY <2>2, <2>3, <2>4
<1> QED
  BY <1>1, <1>2, <1>3

\* Only the site's word, an earlier finalization, or a clock past the window ends a match, and
\* a match that was never captured is then still captured once.
THEOREM PlanFinalizesLate ==
  ASSUME NEW kickoff \in Times, NEW timing \in Timing, NEW now \in Int, NEW next \in Times,
         NEW finalized \in BOOLEAN, NEW captured \in BOOLEAN,
         Plan(kickoff, timing, now, next, finalized, captured).finalized
  PROVE  \/ finalized
         \/ timing = "FINISHED"
         \/ /\ kickoff # Null
            /\ now > FinalEnd(kickoff)
            /\ Plan(kickoff, timing, now, next, finalized, captured).capture <=> ~captured
<1> DEFINE d == Plan(kickoff, timing, now, next, finalized, captured)
<1>1. CASE Over(timing, finalized)
  BY <1>1 DEF Over
<1>2. CASE ~Over(timing, finalized) /\ kickoff = Null
  BY <1>2 DEF Plan, UnknownKickoff, Decision
<1>3. CASE ~Over(timing, finalized) /\ kickoff # Null
  <2>1. CASE now < UpcomingStart(kickoff)
    BY <1>3, <2>1, PlanWaits DEF Decision
  <2>2. CASE ~(now < UpcomingStart(kickoff)) /\ WindowOver(kickoff, now)
    BY <1>3, <2>2 DEF Plan, AfterWindow, Decision, WindowOver
  <2>3. CASE ~(now < UpcomingStart(kickoff)) /\ ~WindowOver(kickoff, now)
    BY <1>3, <2>3 DEF Plan, InsideWindow, Decision
  <2> QED
    BY <2>1, <2>2, <2>3
<1> QED
  BY <1>1, <1>2, <1>3

\* Odds are captured only between the opening of the window and its end, but for the one
\* recovery capture after it; the next capture then lies inside the window.
THEOREM PlanCapturesInsideWindow ==
  ASSUME NEW kickoff \in Times, NEW timing \in Timing, NEW now \in Int, NEW next \in Times,
         NEW finalized \in BOOLEAN, NEW captured \in BOOLEAN,
         Plan(kickoff, timing, now, next, finalized, captured).capture
  PROVE  LET d == Plan(kickoff, timing, now, next, finalized, captured)
         IN  /\ kickoff \in Int /\ UpcomingStart(kickoff) <= now
             /\ \/ /\ ~d.finalized
                   /\ now <= d.next /\ d.next <= FinalEnd(kickoff)
                \/ d.finalized /\ ~captured /\ now > FinalEnd(kickoff)
<1> DEFINE d == Plan(kickoff, timing, now, next, finalized, captured)
<1>1. ~Over(timing, finalized)
  BY DEF Plan, Decision
<1>2. kickoff # Null
  BY <1>1 DEF Plan, UnknownKickoff, Decision
<1>3. kickoff \in Int
  BY <1>2 DEF Times
<1>4. ~(now < UpcomingStart(kickoff))
  BY <1>1, <1>2, PlanWaits DEF Decision
<1>5. UpcomingStart(kickoff) <= now
  BY <1>3, <1>4, ConfigAssumption DEF UpcomingStart
<1>6. CASE WindowOver(kickoff, now)
  BY <1>1, <1>2, <1>3, <1>4, <1>5, <1>6 DEF Plan, AfterWindow, Decision, WindowOver
<1>7. CASE ~WindowOver(kickoff, now)
  <2>1. now <= FinalEnd(kickoff)
    BY <1>3, <1>7, ConfigAssumption DEF WindowOver, FinalEnd
  <2>2. d = InsideWindow(kickoff, timing, now, next)
    BY <1>1, <1>2, <1>4, <1>7 DEF Plan
  <2>3. ~d.finalized /\ d.next = PlannedNext(kickoff, now)
    BY <2>2 DEF InsideWindow, Decision
  <2> QED
    BY <1>3, <1>5, <2>1, <2>3, PlannedNextBounds
<1> QED
  BY <1>6, <1>7

\* Nothing is put off until its window is over, although the next time a plan goes by may belong
\* to an earlier kickoff: such a time, beyond the end of the window, is not waited for.
LEMMA PlanEndsWithWindow ==
  ASSUME NEW kickoff \in Int, NEW timing \in Timing, NEW now \in Int, NEW next \in Times,
         NEW finalized \in BOOLEAN, NEW captured \in BOOLEAN,
         ~Plan(kickoff, timing, now, next, finalized, captured).finalized
  PROVE  Plan(kickoff, timing, now, next, finalized, captured).next <= FinalEnd(kickoff)
<1> DEFINE d == Plan(kickoff, timing, now, next, finalized, captured)
<1>1. ~Over(timing, finalized) /\ kickoff # Null /\ kickoff \in Times
  BY NullAssumption DEF Plan, Decision, Times
<1>2. CASE now < UpcomingStart(kickoff)
  <2>1. d.next = UpcomingStart(kickoff)
    BY <1>1, <1>2, PlanWaits DEF Decision
  <2> QED
    BY <2>1, ConfigAssumption DEF UpcomingStart, FinalEnd
<1>3. CASE ~(now < UpcomingStart(kickoff)) /\ WindowOver(kickoff, now)
  BY <1>1, <1>3 DEF Plan, AfterWindow, Decision
<1>4. CASE ~(now < UpcomingStart(kickoff)) /\ ~WindowOver(kickoff, now)
  <2>1. now <= FinalEnd(kickoff) /\ FinalEnd(kickoff) \in Int
    BY <1>4, ConfigAssumption DEF WindowOver, FinalEnd
  <2>2. PlannedNext(kickoff, now) \in Int /\ PlannedNext(kickoff, now) <= FinalEnd(kickoff)
    BY <2>1, PlannedNextBounds
  <2>3. d.next = IF Due(kickoff, now, next) THEN PlannedNext(kickoff, now) ELSE next
    BY <1>1, <1>4 DEF Plan, InsideWindow, Decision
  <2>4. ~Due(kickoff, now, next) => next \in Int /\ ~(next > FinalEnd(kickoff))
    BY DEF Due, Times
  <2> QED
    BY <2>1, <2>2, <2>3, <2>4
<1> QED
  BY <1>2, <1>3, <1>4

=============================================================================

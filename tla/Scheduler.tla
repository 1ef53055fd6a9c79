------------------------------ MODULE Scheduler ------------------------------
(***************************************************************************)
(* The pure planning rules of the monitor: classify_timing (timing.py) and  *)
(* Scheduler.plan (scheduler.py).  Times are integers in one unit; a        *)
(* timestamp that may be absent is an integer or Null.  finalized_at and    *)
(* last_capture_at are only ever compared with None, so they are Booleans   *)
(* ("is set").                                                             *)
(***************************************************************************)
EXTENDS Integers

CONSTANTS
  Null,                \* None
  UpcomingWindow,      \* odds capture lookahead before the kickoff
  RecentWindow,        \* recently_started_window_minutes
  JustStarted,         \* the one minute of classify_timing
  MaxMatchAge,         \* finalize_after_kickoff_minutes
  FastWindow,          \* final_capture_fast_window_minutes
  MonitoringInterval,  \* monitoring_capture_poll_interval_seconds
  FinalInterval,       \* final_capture_poll_interval_seconds
  DiscoveryInterval    \* discovery_poll_interval_seconds

ASSUME NullAssumption == Null \notin Int

ASSUME ConfigAssumption ==
  /\ {UpcomingWindow, RecentWindow, JustStarted, MaxMatchAge, FastWindow} \subseteq Nat
  /\ {MonitoringInterval, FinalInterval, DiscoveryInterval} \subseteq Nat

Times == Int \cup {Null}

Timing == {"FINISHED", "LIVE", "UNKNOWN", "UPCOMING_SOON", "JUST_STARTED", "RECENTLY_STARTED"}

\* The phases a plan can return, and DISCOVERED, which only an insert writes.
PlannedPhase == {"FINALIZED", "DISCOVERY_ONLY", "WAITING", "FINALIZING", "MONITORING"}
Phase == PlannedPhase \cup {"DISCOVERED"}

-----------------------------------------------------------------------------
\* A known status wins over the clock; the clock only separates the windows.
ClassifyTiming(kickoff, now, isLive, isFinished) ==
  CASE isFinished -> "FINISHED"
    [] ~isFinished /\ isLive -> "LIVE"
    [] ~isFinished /\ ~isLive /\ kickoff = Null -> "UNKNOWN"
    [] OTHER ->
         LET delta == kickoff - now
         IN  CASE 0 <= delta /\ delta <= UpcomingWindow -> "UPCOMING_SOON"
               [] -JustStarted <= delta /\ delta < 0 -> "JUST_STARTED"
               [] -RecentWindow <= delta /\ delta < -JustStarted -> "RECENTLY_STARTED"
               [] OTHER -> "UNKNOWN"

UpcomingStart(kickoff) == kickoff - UpcomingWindow

FinalEnd(kickoff) == kickoff + MaxMatchAge

\* Defect: the grace period after the kickoff is left out.
WindowOverAtKickoff(kickoff, now) == now > kickoff

WindowOver(kickoff, now) == now > FinalEnd(kickoff)

CaptureInterval(kickoff, now) ==
  IF now < kickoff - FastWindow THEN MonitoringInterval ELSE FinalInterval

Decision(phase, capture, next, finalized) ==
  [phase |-> phase, capture |-> capture, next |-> next, finalized |-> finalized]

\* A planned capture never lies beyond the end of the capture window.
PlannedNext(kickoff, now) ==
  LET planned == now + CaptureInterval(kickoff, now)
  IN  IF planned > FinalEnd(kickoff) THEN FinalEnd(kickoff) ELSE planned

\* Defect: a next time beyond the capture window is waited for.
DueIgnoringStale(kickoff, now, next) == next = Null \/ next <= now

Due(kickoff, now, next) ==
  \/ next = Null
  \/ next <= now
  \/ next > FinalEnd(kickoff)         \* left over from an earlier kickoff time

InsideWindow(kickoff, timing, now, next) ==
  LET phase == IF now > kickoff \/ timing = "LIVE" THEN "FINALIZING" ELSE "MONITORING"
  IN  IF Due(kickoff, now, next)
      THEN Decision(phase, TRUE, PlannedNext(kickoff, now), FALSE)
      ELSE Decision(phase, FALSE, next, FALSE)

\* Defect: without a kickoff time there is no next time either.
UnknownKickoffDropped(now) == Decision("DISCOVERY_ONLY", FALSE, Null, FALSE)

UnknownKickoff(now) == Decision("DISCOVERY_ONLY", FALSE, now + DiscoveryInterval, FALSE)

\* Defect: the window that is over is never closed, only polled less.
AfterWindowReopened(captured) == Decision("FINALIZING", TRUE, Null, FALSE)

\* Defect: the phase is called by the name an older version used.
AfterWindowLegacyPhase(captured) ==
  Decision(IF captured THEN "FINALIZED" ELSE "FINAL", ~captured, Null, TRUE)

\* The window is over: a match that was never captured gets one recovery capture.
AfterWindow(captured) ==
  IF captured THEN Decision("FINALIZED", FALSE, Null, TRUE)
              ELSE Decision("FINALIZING", TRUE, Null, TRUE)

Over(timing, finalized) == finalized \/ timing = "FINISHED"

Plan(kickoff, timing, now, next, finalized, captured) ==
  CASE Over(timing, finalized) -> Decision("FINALIZED", FALSE, Null, TRUE)
    [] ~Over(timing, finalized) /\ kickoff = Null -> UnknownKickoff(now)
    [] OTHER ->
         CASE now < UpcomingStart(kickoff) ->
                Decision("WAITING", FALSE, UpcomingStart(kickoff), FALSE)
           [] WindowOver(kickoff, now) -> AfterWindow(captured)
           [] OTHER -> InsideWindow(kickoff, timing, now, next)

=============================================================================

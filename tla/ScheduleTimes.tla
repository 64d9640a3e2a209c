---------------------------- MODULE ScheduleTimes ----------------------------
(* When a schedule is due: next_run of a parsed expression in a time zone     *)
(* whose clock is once put forward or back, and the last run it is counted    *)
(* from.  Cron expressions are croniter's.                                    *)
EXTENDS Integers, FiniteSets

CONSTANTS
  Day,       \* units of time in a day
  Jump,    \* by how much the clock is put forward or back
  Horizon    \* bound of time for TLC

ASSUME DayAssumption == Day \in Nat \ {0} /\ Jump \in 1..(Day - 1)
ASSUME HorizonAssumption == Horizon \in Nat

VARIABLES
  zone,      \* when its clock changes, and by how much
  plan,      \* the ScheduleConfig
  time, last \* now, and last_run

timeVars == <<zone, plan, time, last>>

Week == 7 * Day

\* The readings a change repeats or skips are of one day, as in any zone of today.
Zones == {z \in [at : 0..Horizon, by : {-Jump, Jump}] :
            ((IF z.by < 0 THEN z.at + z.by ELSE z.at) % Day) + Jump <= Day}

\* What parse_schedule makes of an expression, with defaults filled in: hours
\* are of the clock, weekly plans have a weekday.
Plans == [kind : {"interval"}, every : {1, Day, Day + 1}]
         \cup [kind : {"daily"}, at : 0..(Day - 1)]
         \cup [kind : {"weekly"}, at : 0..(Week - 1)]

\* ------------------------------------------------------- clock of the zone
\* Clocks start Week units ahead, so that none reads less than zero.
Jumped(u) == u >= zone.at
Local(u) == u + Week + (IF Jumped(u) THEN zone.by ELSE 0)
Fold(u) == IF zone.by < 0 /\ Jumped(u) /\ u < zone.at - zone.by THEN 1 ELSE 0

\* replace(tzinfo=tz): a reading that is shown twice, or skipped, is taken by
\* the clock before the change if its fold is 0, and by the one after if it is 1.
ToUtc(wall, fold) ==
  LET before == wall - Week
      after == before - zone.by
  IN IF fold = 0 THEN IF Jumped(before) /\ Jumped(after) THEN after ELSE before
     ELSE IF Jumped(before) \/ Jumped(after) THEN after ELSE before

\* ----------------------------------------------------------------- next_run
\* Mutant: a run on the dot of its time is followed by another.
DailyRunAgain(from) ==
  LET now == Local(from)
      naive == now - (now % Day) + plan.at
  IN IF naive < now THEN ToUtc(naive + Day, 0) ELSE ToUtc(naive, Fold(from))

\* A datetime keeps its fold through replace and loses it in an addition.
DailyRun(from) ==
  LET now == Local(from)
      naive == now - (now % Day) + plan.at
  IN IF naive <= now THEN ToUtc(naive + Day, 0) ELSE ToUtc(naive, Fold(from))

WeeklyRun(from) ==
  LET now == Local(from)
      naive == now - (now % Day) + (plan.at % Day)
      days == (plan.at \div Day) - ((now % Week) \div Day)
      until == IF days < 0 \/ (days = 0 /\ naive <= now) THEN days + 7 ELSE days
  IN ToUtc(naive + until * Day, 0)

NextRun(from) ==
  CASE plan.kind = "interval" -> from + plan.every
    [] plan.kind = "daily" -> DailyRun(from)
    [] plan.kind = "weekly" -> WeeklyRun(from)

\* ------------------------------------------------------------------ running
PassTime ==
  /\ time < Horizon /\ time' = time + 1
  /\ UNCHANGED <<zone, plan, last>>

RunDue == time >= NextRun(last) /\ last' = time /\ UNCHANGED <<zone, plan, time>>
RunAsked == last # time /\ last' = time /\ UNCHANGED <<zone, plan, time>>

TimeInit == zone \in Zones /\ plan \in Plans /\ time = 0 /\ last = 0
TimeNext == PassTime \/ RunDue \/ RunAsked
TimeSpec == TimeInit /\ [][TimeNext]_timeVars

-----------------------------------------------------------------------------
(* The next run is the next one: it is after the last run, on the reading the  *)
(* plan names (or, where the clock skips it, the change later), and no time    *)
(* the clock shows that reading first lies between.  The code does not keep    *)
(* the first part for a weekly plan run between two showings of its hour: the  *)
(* fold is lost, the first showing is past, and the plan is due at every tick. *)
Shows(wall) == CASE plan.kind = "daily" -> wall % Day = plan.at
                 [] plan.kind = "weekly" -> wall % Week = plan.at
                 [] OTHER -> FALSE
Skipped(wall) == zone.by > 0 /\ zone.at + Week <= wall /\ wall < zone.at + Week + zone.by

NextRunIsNext ==
  LET next == NextRun(last)
  IN /\ next > last \/ (plan.kind = "weekly" /\ Fold(last) = 1)
     /\ plan.kind # "interval" =>
          Shows(Local(next)) \/ (Skipped(next + Week) /\ Shows(next + Week))
     /\ \A u \in (last + 1)..(next - 1) : Shows(Local(u)) => Fold(u) = 1

=============================================================================

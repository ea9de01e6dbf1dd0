---------------------------- MODULE GroupSchedules ----------------------------
(***************************************************************************)
(* The search schedules of one group of employees: the times of the day    *)
(* and the weekdays at which the worker searches Sage for the group, as    *)
(* the group's owner creates and edits them, and what list tells the owner *)
(* about the next search.                                                  *)
(*                                                                         *)
(* Times are those of Brasilia.  A day has a few slots in place of its     *)
(* 1440 minutes; the calendar's days are counted from the first one, and a *)
(* weekday is 1 (Monday) to 7 (Sunday), as in core/time.ts.  How a search  *)
(* that is due becomes a run is the subject of ScheduledRuns: here it is   *)
(* one step.                                                               *)
(***************************************************************************)
EXTENDS Naturals, FiniteSets, FiniteSetsExt

CONSTANTS
  SlotsPerDay,    \* bound: minutes of a day that a schedule may name
  WeekdayInputs,  \* what a request may hold as its weekdays
  LastDay,        \* bound on the calendar
  MaxSchedules    \* bound on the ids of group_schedules

ASSUME GroupSchedulesAssumption ==
  /\ SlotsPerDay \in Nat \ {0} /\ LastDay \in Nat /\ MaxSchedules \in Nat
  /\ WeekdayInputs \subseteq SUBSET Nat

VARIABLES
  firstWeekday,  \* the weekday of day 0
  clock,         \* the day and the slot it is
  group,         \* employee_groups: status and auto_search_enabled
  schedules,     \* group_schedules, by run_time, which is unique in a group
  executed,      \* schedule_executions: the pairs of schedule_id and run_date
  searches       \* how often the group was searched for, by run_time and date

calendarVars ==
  <<firstWeekday, clock, group, schedules, executed, searches>>

Slots == 0 .. SlotsPerDay - 1
Days == 0 .. LastDay
Weekdays == 1 .. 7
DefaultWeekdays == 1 .. 5

\* The upper bound forgotten.
NormalizeWeekdaysUnbounded(days) ==
  {d \in (IF days = {} THEN DefaultWeekdays ELSE days) : d > 0}

\* Weekdays outside 1..7 are dropped; the empty set is a badRequest.
NormalizeWeekdays(days) ==
  (IF days = {} THEN DefaultWeekdays ELSE days) \cap Weekdays

\* weekdays_mask: the bit 1 << (day - 1) of each day.
WeekdayBit(day) == 2 ^ (day - 1)
WeekdaysToMask(days) == MapThenSumSet(WeekdayBit, NormalizeWeekdays(days))
HasBit(mask, day) == (mask \div WeekdayBit(day)) % 2 = 1
MaskToWeekdays(mask) ==
  LET days == {d \in Weekdays : HasBit(mask, d)}
  IN IF days = {} THEN DefaultWeekdays ELSE days

WeekdayOf(day) == ((firstWeekday - 1 + day) % 7) + 1

NoSchedule == [id |-> 0, enabled |-> FALSE, mask |-> 0]

\* The tables hold rows of their columns' types.
CalendarTypeOK ==
  /\ firstWeekday \in Weekdays
  /\ clock \in [day : Days, slot : Slots]
  /\ group \in [status : {"ABSENT", "ACTIVE", "DISABLED"}, auto : BOOLEAN]
  /\ schedules \in [Slots ->
       [id : 0 .. MaxSchedules, enabled : BOOLEAN, mask : 0 .. 127]]
  /\ executed \subseteq (1 .. MaxSchedules) \X Days
  /\ searches \in [Slots \X Days -> Nat]

CalendarInit ==
  /\ firstWeekday \in Weekdays
  /\ clock = [day |-> 0, slot |-> 0]
  /\ group = [status |-> "ABSENT", auto |-> FALSE]
  /\ schedules = [t \in Slots |-> NoSchedule]
  /\ executed = {}
  /\ searches = [td \in Slots \X Days |-> 0]

-----------------------------------------------------------------------------

\* AUTO_INCREMENT.
LastId == Max({schedules[t].id : t \in Slots})

(***************************************************************************)
(* The rows of the times of a request, with the ids that new rows get: the *)
(* earlier the time, the smaller the id.                                   *)
(***************************************************************************)
RowsFor(times, mask, old) ==
  [t \in Slots |->
     IF t \notin times THEN [old[t] EXCEPT !.enabled = FALSE]
     ELSE [id |-> IF old[t].id # 0 THEN old[t].id
                  ELSE LastId + Cardinality({u \in times : u <= t /\ old[u].id = 0}),
           enabled |-> TRUE, mask |-> mask]]

CreateGroup(times, days, auto) ==
  /\ group.status = "ABSENT"
  /\ times # {} /\ NormalizeWeekdays(days) # {}
  /\ group' = [status |-> "ACTIVE", auto |-> auto]
  /\ schedules' = RowsFor(times, WeekdaysToMask(days), schedules)
  /\ \A t \in Slots : schedules'[t].id <= MaxSchedules
  /\ UNCHANGED <<firstWeekday, clock, executed, searches>>

\* Mutant: the rows of an edited group are deleted and written anew.
RewriteSchedules(times, mask) ==
  RowsFor(times, mask, [t \in Slots |-> NoSchedule])

\* UPDATE ... SET enabled=0, then INSERT ... ON DUPLICATE KEY UPDATE.
EditSchedules(times, mask) == RowsFor(times, mask, schedules)

UpdateGroup(times, days, auto, status) ==
  /\ group.status # "ABSENT"
  /\ times # {} /\ NormalizeWeekdays(days) # {}
  /\ group' = [status |-> status, auto |-> auto]
  /\ schedules' = EditSchedules(times, WeekdaysToMask(days))
  /\ \A t \in Slots : schedules'[t].id <= MaxSchedules
  /\ UNCHANGED <<firstWeekday, clock, executed, searches>>

(***************************************************************************)
(* The WHERE of scheduleCompanyDue: any schedule of today whose time has   *)
(* come, however long ago, and that has no execution of today yet.         *)
(***************************************************************************)
DueNow(t) ==
  /\ group.status = "ACTIVE" /\ group.auto
  /\ schedules[t].enabled
  /\ HasBit(schedules[t].mask, WeekdayOf(clock.day))
  /\ t <= clock.slot
  /\ <<schedules[t].id, clock.day>> \notin executed

Search(t) ==
  /\ DueNow(t)
  /\ executed' = executed \cup {<<schedules[t].id, clock.day>>}
  /\ searches' = [searches EXCEPT ![<<t, clock.day>>] = @ + 1]
  /\ UNCHANGED <<firstWeekday, clock, group, schedules>>

ClockTicks ==
  /\ IF clock.slot + 1 \in Slots
     THEN clock' = [clock EXCEPT !.slot = @ + 1]
     ELSE /\ clock.day < LastDay
          /\ clock' = [day |-> clock.day + 1, slot |-> 0]
  /\ UNCHANGED <<firstWeekday, group, schedules, executed, searches>>

CalendarNext ==
  \/ ClockTicks
  \/ \E t \in Slots : Search(t)
  \/ \E times \in SUBSET Slots, days \in WeekdayInputs, auto \in BOOLEAN :
       \/ CreateGroup(times, days, auto)
       \/ \E status \in {"ACTIVE", "DISABLED"} :
            UpdateGroup(times, days, auto, status)

CalendarSpec == CalendarInit /\ [][CalendarNext]_calendarVars

-----------------------------------------------------------------------------
(* list.                                                                   *)

\* Mutant: a week from today is not looked at.
ShortLookahead == 0 .. 6

\* The days after today that nextScheduledAt looks at.
Lookahead == 0 .. 7

(***************************************************************************)
(* nextScheduledAt: the first of the days ahead with a time that is still  *)
(* to come, and the first such time of it.                                 *)
(***************************************************************************)
TimesAhead(offset) ==
  {t \in Slots :
     /\ schedules[t].enabled
     /\ WeekdayOf(clock.day + offset) \in MaskToWeekdays(schedules[t].mask)
     /\ offset = 0 => t > clock.slot}

NextScheduledAt ==
  LET days == {offset \in Lookahead : TimesAhead(offset) # {}}
  IN IF days = {} THEN <<>> ELSE <<Min(days), Min(TimesAhead(Min(days)))>>

NextRunAt ==
  IF group.status = "ACTIVE" /\ group.auto THEN NextScheduledAt ELSE <<>>

-----------------------------------------------------------------------------
(***************************************************************************)
(* However often the owner edits, disables and enables the group, a time   *)
(* of the day is searched for once on a day: an edit keeps the ids of the  *)
(* schedules, and with them their executions.                              *)
(***************************************************************************)
OneSearchPerDay == \A td \in Slots \X Days : searches[td] <= 1

(***************************************************************************)
(* The next search that list names is the first one that is not due yet,   *)
(* by the condition under which the worker starts it: none of the moments  *)
(* of the next two weeks comes before it, and none is left out.            *)
(***************************************************************************)
NextRunIsTheNextSearch ==
  LET StartsAt(offset, t) ==
        /\ group.status = "ACTIVE" /\ group.auto /\ schedules[t].enabled
        /\ HasBit(schedules[t].mask, WeekdayOf(clock.day + offset))
        /\ offset = 0 => t > clock.slot
      ahead == {m \in (0 .. 14) \X Slots : StartsAt(m[1], m[2])}
      Before(m, n) == m[1] < n[1] \/ (m[1] = n[1] /\ m[2] < n[2])
  IN IF ahead = {} THEN NextRunAt = <<>>
     ELSE /\ NextRunAt \in ahead
          /\ \A m \in ahead : ~Before(m, NextRunAt)
=============================================================================

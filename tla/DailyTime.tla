-------------------------------- MODULE DailyTime --------------------------------
(***************************************************************************)
(* When a daily schedule runs: daily-time.ts.  Instants and local times    *)
(* are counted in parts of an hour; a zone has one change of its offset,   *)
(* forward (some local times do not exist) or back (some exist twice).     *)
(* The program finds instants by trying the offsets of five samples and    *)
(* the next run by trying day after day; the reference definitions look    *)
(* at every instant.                                                       *)
(***************************************************************************)
EXTENDS Integers, FiniteSets, FiniteSetsExt

CONSTANTS
  Hour,         \* parts of an hour
  Zones,        \* [at |-> instant, before |-> offset, after |-> offset]
  Schedules,    \* what the user may have chosen
  Starts,       \* instants from which the next run is asked for
  Last,         \* no run is followed beyond this instant
  None

TimeAssumption == Hour \in Nat \ {0}

Day == 24 * Hour

VARIABLES zone, schedule, after

vars == <<zone, schedule, after>>
-----------------------------------------------------------------------------
Wall(u) == u + (IF u < zone.at THEN zone.before ELSE zone.after)

LocalDay(u) == Wall(u) \div Day

(* Wrong variant: the offset is read at the local time taken for UTC.      *)
SamplesNear == {0}

Samples == {d * Hour : d \in {-36, -12, 0, 12, 36}}

LocalInstants(local) ==
  LET offsets == {Wall(local + d) - (local + d) : d \in Samples}
  IN {u \in {local - o : o \in offsets} : Wall(u) = local}

(* The first local time, up to span later, that exists.                    *)
Existing(local, span) ==
  Min({t \in local..(local + span) : LocalInstants(t) # {}})

DayStart(day) == Min(LocalInstants(Existing(day * Day, 2 * Day - 1)))

(* Wrong variant: a period lasts as long as its days would elsewhere.      *)
PeriodLong(u) ==
  LET days == IF schedule.weekday # None THEN 7 ELSE 1
      first == IF schedule.weekday # None
               THEN LocalDay(u) - ((LocalDay(u) - schedule.weekStart) % 7)
               ELSE LocalDay(u)
  IN [start |-> DayStart(first), end |-> DayStart(first) + days * Day]

Period(u) ==          \* dailyPeriod()
  LET days == IF schedule.weekday # None THEN 7 ELSE 1
      first == IF schedule.weekday # None
               THEN LocalDay(u) - ((LocalDay(u) - schedule.weekStart) % 7)
               ELSE LocalDay(u)
  IN [start |-> DayStart(first), end |-> DayStart(first + days)]

(* Wrong variant: the days are counted from the end of the period.         *)
ObservationLate(u, days) ==
  [start |-> DayStart(LocalDay(Period(u).end) - (days - 1)),
   end |-> Period(u).end]

Observation(u, days) ==     \* observationPeriod()
  [start |-> DayStart(LocalDay(Period(u).end - 1) - (days - 1)),
   end |-> Period(u).end]

-----------------------------------------------------------------------------
Requested(day) == day * Day + schedule.time

OnDay(day) == schedule.weekday = None \/ day % 7 = schedule.weekday

(* Wrong variant: the times of a change are those of any other day.        *)
InstantsPlain(day) ==
  LocalInstants(Existing(Requested(day), Day))

Instants(day) ==
  LET exact == LocalInstants(Requested(day))
  IN IF exact = {} /\ schedule.gap = "next"
     THEN LocalInstants(Existing(Requested(day), Day)) ELSE exact

Waits(day) ==         \* the user has to choose
  \/ Instants(day) = {} /\ schedule.gap = None
  \/ Cardinality(Instants(day)) = 2 /\ schedule.fold = None

Selected(day) ==
  IF schedule.fold = "later" THEN Max(Instants(day)) ELSE Min(Instants(day))

(* Wrong variant: two weeks are tried.                                     *)
HorizonShort == 14

Horizon == 15

Decisive(from) ==     \* the days the loop does not pass over
  {day \in LocalDay(from)..(LocalDay(from) + Horizon - 1) :
     OnDay(day) /\ (Waits(day) \/ (Instants(day) # {} /\ Selected(day) > from))}

Preview(from) ==      \* previewDaily()
  IF Decisive(from) = {} THEN [status |-> "SKIPPED_GAP", next |-> None]
  ELSE LET day == Min(Decisive(from))
       IN IF Waits(day) THEN [status |-> "NEEDS_DST_CHOICE", next |-> None]
          ELSE [status |-> "READY", next |-> Selected(day)]
-----------------------------------------------------------------------------
(* A run follows the other: tick() asks for the next one after it.         *)
Run ==
  /\ Preview(after).status = "READY" /\ Preview(after).next < Last
  /\ after' = Preview(after).next
  /\ UNCHANGED <<zone, schedule>>

Init == zone \in Zones /\ schedule \in Schedules /\ after \in Starts

Next == Run

Spec == Init /\ [][Next]_vars
-----------------------------------------------------------------------------
(* Reference definitions: every instant that shows a local time, and the   *)
(* one run of a day.                                                       *)
Showing(local) == {u \in (local - 40 * Hour)..(local + 40 * Hour) : Wall(u) = local}

RunOf(day) ==
  LET shown == Showing(Requested(day))
  IN CASE shown # {} /\ schedule.fold = "later" -> {Max(shown)}
       [] shown # {} /\ schedule.fold = "earlier" -> {Min(shown)}
       [] shown # {} /\ schedule.fold = None ->
            IF Cardinality(shown) = 1 THEN shown ELSE {}
       [] shown = {} -> IF schedule.gap = "next" THEN {zone.at} ELSE {}

Runs(from, to) ==
  UNION {RunOf(day) : day \in {d \in from..to : OnDay(d)}}

(* Undecided days: none may lie between now and a run that is promised.    *)
Undecided(from, to) ==
  {day \in from..to :
     OnDay(day) /\ RunOf(day) = {} /\ ~(schedule.gap = "skip"
                                        /\ Showing(Requested(day)) = {})}

(* The samples find every instant of a local time (localInstants()).       *)
SamplesSuffice ==
  \A t \in (Requested(LocalDay(after)) - 1)..(Requested(LocalDay(after)) + 1) :
    LocalInstants(t) = Showing(t)

(* The next run is the least of all runs still to come, and no day the     *)
(* user has yet to decide about comes before it (previewDaily()).          *)
NextIsLeast ==
  LET today == LocalDay(after)
      preview == Preview(after)
      coming == {u \in Runs(today - 8, today + 22) : u > after}
  IN preview.status = "READY" =>
       /\ preview.next = Min(coming)
       /\ Undecided(today, LocalDay(preview.next) - 1) = {}

(* A choice is asked for only when such a day comes, and the days tried    *)
(* are enough for a weekly run that one change skips (previewDaily()).     *)
NeverRunsOut ==
  LET today == LocalDay(after)
  IN /\ Preview(after).status # "SKIPPED_GAP"
     /\ Preview(after).status = "NEEDS_DST_CHOICE" =>
          Undecided(today, today + 14) # {}

(* The period of a run holds it, starts at the first instant of a local    *)
(* day and meets the next one (dailyPeriod()).                             *)
PeriodsMeet ==
  LET period == Period(after)
  IN /\ period.start <= after /\ after < period.end
     /\ LocalDay(period.start - 1) < LocalDay(period.start)
     /\ Period(period.end).start = period.end

(* An observation looks back over no more local days than it says, up to   *)
(* the end of the period (observationPeriod()).                            *)
ObservationIsWithin ==
  \A days \in {1, 3} :
    LET window == Observation(after, days)
        shown == {LocalDay(u) : u \in window.start..(window.end - 1)}
    IN /\ Cardinality(shown) \in 1..days
       /\ LocalDay(window.end - 1) \in shown /\ window.end > after
==============================================================================

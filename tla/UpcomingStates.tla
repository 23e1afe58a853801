--------------------------- MODULE UpcomingStates ---------------------------
(* The timeline of the monitor page, which derives from the definitions of  *)
(* the schedules when an output will change, beside what the scheduler of   *)
(* the Control Service does at its ticks.                                   *)
EXTENDS Naturals, FiniteSets

CONSTANTS
  Slots, Plans,         \* schedules, numbered as they are listed, and what
                        \* they may be defined as
  DayLength, Days,      \* the clock counts in units, a week has Days days
  MaxTime,              \* bound: the clock
  Limit                 \* entries of the timeline

ClockAssumption ==
  /\ {DayLength, Days, Limit} \subseteq Nat \ {0}
  /\ MaxTime \in Nat /\ DayLength * Days <= MaxTime + 1
  /\ IsFiniteSet(Slots) /\ Slots \subseteq Nat
  /\ \A p \in Plans :
       /\ p.kind \in {"schedule", "cycle", "duration"}
       /\ {p.on, p.off} \subseteq Nat /\ p.days \subseteq 0..Days - 1
       /\ p.kind = "schedule" => p.on < DayLength /\ p.off < DayLength
       /\ p.kind = "cycle" => p.on > 0 /\ p.off > 0

VARIABLES
  plan, enabled,     \* of each schedule
  now,
  last               \* what the runner of a schedule dispatched last

timelineVars == <<plan, enabled, now, last>>

TypeOK ==
  /\ plan \in [Slots -> Plans] /\ enabled \in [Slots -> BOOLEAN]
  /\ now \in 0..MaxTime
  /\ last \in [Slots -> {"none", "on", "off"}]

-----------------------------------------------------------------------------
(* The engine. *)

DayActive(p, day) == p.days = {} \/ day % Days \in p.days

InWindow(p, time) ==
  \/ p.on < p.off /\ time >= p.on /\ time < p.off
  \/ p.on > p.off /\ (time >= p.on \/ time < p.off)

\* On a day that is not of the schedule its runner does nothing.
Eval(p, t, before) ==
  IF p.kind # "schedule" \/ ~DayActive(p, t \div DayLength) THEN before
  ELSE IF InWindow(p, t % DayLength) THEN "on" ELSE "off"

-----------------------------------------------------------------------------
(* The page. *)

\* Mutant: the time of day at which it is now counts as the next one.
NowOrNextHHMM(time, days) ==
  LET today == now \div DayLength
      at == {(today + add) * DayLength + time :
               add \in {a \in 0..Days : days = {} \/ (today + a) % Days \in days}}
  IN {t \in at : t >= now /\ \A u \in at : u >= now => t <= u}

\* The next time that a day of the schedule has this time of day.
NextHHMM(time, days) ==
  LET today == now \div DayLength
      at == {(today + add) * DayLength + time :
               add \in {a \in 0..Days : days = {} \/ (today + a) % Days \in days}}
  IN {t \in at : t > now /\ \A u \in at : u > now => t <= u}

\* A cycle is taken to have begun with the clock, a duration with the call.
ComputeTransitions(s) ==
  LET p == plan[s]
      Change(to, at) == [of |-> s, to |-> to, at |-> at]
      cycle == p.on + p.off
      pos == now % cycle
  IN CASE p.kind = "cycle" /\ pos < p.on ->
            {Change("off", now + p.on - pos), Change("on", now + cycle - pos)}
       [] p.kind = "cycle" /\ pos >= p.on ->
            {Change("on", now + cycle - pos),
             Change("off", now + cycle - pos + p.on)}
       [] p.kind = "schedule" ->
            {Change("on", t) : t \in NextHHMM(p.on, p.days)}
              \cup {Change("off", t) : t \in NextHHMM(p.off, p.days)}
       [] p.kind = "duration" -> {Change("off", now + p.on)}

\* The order of the timeline: by time, then as the schedules are listed.
Earlier(c, d) ==
  \/ c.at < d.at
  \/ /\ c.at = d.at
     /\ c.of < d.of \/ (c.of = d.of /\ c.to = "on" /\ d.to = "off")

\* The soonest changes of the enabled schedules.
LoadSchedules ==
  LET all == UNION {ComputeTransitions(s) : s \in {s \in Slots : enabled[s]}}
  IN {c \in all : Cardinality({d \in all : Earlier(d, c)}) < Limit}

-----------------------------------------------------------------------------
Init ==
  /\ plan \in [Slots -> Plans]
  /\ enabled = [s \in Slots |-> TRUE]
  /\ now \in 0..DayLength * Days - 1
  /\ last = [s \in Slots |-> Eval(plan[s], now, "none")]

Tick ==
  /\ now < MaxTime
  /\ now' = now + 1
  /\ last' = [s \in Slots |-> IF enabled[s] THEN Eval(plan[s], now', last[s])
                              ELSE last[s]]
  /\ UNCHANGED <<plan, enabled>>

\* A schedule that is enabled gets a new runner.
Toggle(s) ==
  /\ enabled' = [enabled EXCEPT ![s] = ~@]
  /\ last' = [last EXCEPT ![s] = IF enabled[s] THEN "none"
                                 ELSE Eval(plan[s], now, "none")]
  /\ UNCHANGED <<plan, now>>

Next == Tick \/ \E s \in Slots : Toggle(s)

Spec == Init /\ [][Next]_timelineVars

-----------------------------------------------------------------------------
(* Properties. *)

\* What the timeline shows first of a time-of-day schedule that has started
\* is the next change that the engine makes, over days without the schedule
\* and windows across midnight too, unless sooner changes fill the timeline
\* or the window is empty (Monitor.jsx:161-204, scheduler.go:207).
ForecastIsTheNextChange ==
  Tick =>
    \A s \in {t \in Slots : /\ enabled[t] /\ plan[t].kind = "schedule"
                            /\ plan[t].on # plan[t].off /\ last[t] # "none"} :
      LET own == {c \in LoadSchedules : c.of = s}
          first == {c \in own : \A d \in own : c.at <= d.at}
      IN IF last'[s] = last[s] THEN \A c \in own : c.at # now'
         ELSE IF own = {} THEN \A c \in LoadSchedules : c.at <= now'
         ELSE first = {[of |-> s, to |-> last'[s], at |-> now']}

\* What makes it true: a runner that has dispatched anything has dispatched
\* what the window says now, or what it said at the end of the last day of
\* the schedule.
Due(p) ==
  LET time == IF DayActive(p, now \div DayLength) THEN now % DayLength
              ELSE DayLength - 1
  IN IF InWindow(p, time) THEN "on" ELSE "off"

LastIsDue ==
  \A s \in Slots :
    (enabled[s] /\ plan[s].kind = "schedule" /\ last[s] # "none")
      => last[s] = Due(plan[s])

TimelineInv == TypeOK /\ LastIsDue
=============================================================================

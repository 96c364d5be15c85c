------------------------------- MODULE Windows -------------------------------
(***************************************************************************)
(* Rate-limit windows, internal/algorithm/common/common.go.  A window is   *)
(* either a duration, aligned by truncation, or a calendar period ("month" *)
(* or "week") whose first instants are CalendarStarts.  Duration is what   *)
(* WindowDuration returns: the length of an aligned window, and for a      *)
(* calendar period a fixed number of hours (30 days for any month).        *)
(* Instants are natural numbers, at any resolution the instance chooses.   *)
(***************************************************************************)
EXTENDS Integers, FiniteSetsExt

CONSTANTS Instant, Duration, CalendarStarts

ASSUME WindowAssumption ==
  /\ Instant \subseteq Nat \ {0}
  /\ Duration \in Nat \ {0}
  /\ CalendarStarts \subseteq Nat

\* Every instant lies in exactly one calendar period.
ASSUME CalendarAssumption ==
  CalendarStarts # {} =>
    \A t \in Instant : \E s, e \in CalendarStarts :
      s <= t /\ t < e /\ \A m \in CalendarStarts : m <= s \/ e <= m

WindowStart(t) ==
  IF CalendarStarts = {} THEN t - (t % Duration)
                         ELSE Max({m \in CalendarStarts : m <= t})

WindowEnd(t) ==
  IF CalendarStarts = {} THEN WindowStart(t) + Duration
                         ELSE Min({m \in CalendarStarts : m > t})

\* The windows, each named by its first instant as in the counters' keys.
Window == {WindowStart(t) : t \in Instant}

\* The duration is at least the length of every window.  True of durations,
\* of "day" and of "week"; false of a month of 31 days, and of a week in which
\* the local clock is put back.
DurationCoversWindow == \A t \in Instant : WindowEnd(t) <= WindowStart(t) + Duration
=============================================================================

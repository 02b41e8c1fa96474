---------------------------- MODULE ScopedTimer ----------------------------
(***************************************************************************)
(* util/scoped_timer.hpp: timers that note time points and report the time *)
(* between them to a callback, at the latest when they are destroyed.  The *)
(* clock may be set back.  Memory may run out, and callbacks may throw; an *)
(* exception that leaves the destructor ends the program.  Names are left  *)
(* out.  A timer has a destructor and therefore no move of its own: it is  *)
(* copied.                                                                 *)
(***************************************************************************)
EXTENDS Integers, Sequences

CONSTANTS Timers,
          Times,       \* what clock::now() may return
          Width,       \* durations are unsigned, modulo Width
          Sizes,       \* numbers of time points to reserve memory for
          MaxPoints    \* bound: a timer with so many takes no more steps

ASSUME TimerAssumption == /\ Times \subseteq Int /\ Width \in Nat \ {0}
                          /\ Sizes \subseteq Nat \ {0} /\ MaxPoints \in Nat

VARIABLES
  timer,   \* the timers
  report,  \* what a callback was given in the last step, or nothing
  ended    \* "no", "terminated", or "undefined" after undefined behaviour

timerVars == <<timer, report, ended>>

\* points: timepoints_with_description; capacity: of that vector; enabled and entry:
\* enabled_in_dtor and add_dtor_entry.  History: whether the measurement was
\* dismissed since init, what init reserved, whether it failed, whether the timer
\* is a copy.
None == [alive |-> FALSE, points |-> <<>>, capacity |-> 0, enabled |-> FALSE,
         entry |-> FALSE, dismissed |-> FALSE, size |-> 0, failed |-> FALSE,
         copy |-> FALSE]

Larger(a, b) == IF a < b THEN b ELSE a

Alive(o) == ended = "no" /\ timer[o].alive

Silently(o, r) == timer' = [timer EXCEPT ![o] = r] /\ report' = <<>> /\ UNCHANGED ended

Undefined == ended' = "undefined" /\ report' = <<>> /\ UNCHANGED timer

TimerInit == timer = [o \in Timers |-> None] /\ report = <<>> /\ ended = "no"

get_time_diff(t0, t1) == (t1 - t0) % Width

\* Mutant: every step is measured from the first time point.
FromFirst(points) ==
  <<get_time_diff(points[1], points[Len(points)])>>
    \o [i \in 1 .. Len(points) - 1 |-> get_time_diff(points[1], points[i + 1])]

calculate(points) ==
  <<get_time_diff(points[1], points[Len(points)])>>
    \o [i \in 1 .. Len(points) - 1 |-> get_time_diff(points[i], points[i + 1])]

\* emplace_back
HasRoom(r) == Len(r.points) < r.capacity

Push(r, now) ==
  [r EXCEPT !.points = Append(@, now),
            !.capacity = IF HasRoom(r) THEN @ ELSE Larger(1, 2 * @)]

\* Mutants: init does not enable the destructor again; it reserves no memory.
RearmedOnce(r, now, n) ==
  [r EXCEPT !.alive = TRUE, !.points = <<now>>, !.capacity = Larger(@, n),
            !.enabled = @ \/ ~r.alive, !.entry = TRUE, !.dismissed = FALSE, !.size = n,
            !.failed = FALSE, !.copy = FALSE]

Unreserved(r, now, n) ==
  [r EXCEPT !.alive = TRUE, !.points = <<now>>, !.capacity = Larger(@, 1),
            !.enabled = TRUE, !.entry = TRUE, !.dismissed = FALSE, !.size = n,
            !.failed = FALSE, !.copy = FALSE]

Started(r, now, n) ==
  [r EXCEPT !.alive = TRUE, !.points = <<now>>, !.capacity = Larger(@, n),
            !.enabled = TRUE, !.entry = TRUE, !.dismissed = FALSE, !.size = n,
            !.failed = FALSE, !.copy = FALSE]

\* The constructors, where a failing init leaves no timer, and init.
Construct(o) ==
  /\ ended = "no" /\ ~timer[o].alive
  /\ \E now \in Times, n \in Sizes : Silently(o, Started(None, now, n))

init(o) ==
  /\ Alive(o)
  /\ \E now \in Times, n \in Sizes : Silently(o, Started(timer[o], now, n))

\* The vector refuses the size, or there is no memory for it or the name: the time
\* points are cleared already.
InitFails(o) ==
  /\ Alive(o)
  /\ Silently(o, [timer[o] EXCEPT !.points = <<>>, !.enabled = TRUE, !.entry = TRUE,
                                  !.dismissed = FALSE, !.failed = TRUE])

add_step(o) ==
  /\ Alive(o) /\ Len(timer[o].points) < MaxPoints
  /\ \E now \in Times : Silently(o, Push(timer[o], now))

\* The name of the first time point.
set_name(o) ==
  /\ Alive(o)
  /\ IF timer[o].points = <<>> THEN Undefined ELSE Silently(o, timer[o])

Dismissed(r) == [r EXCEPT !.enabled = FALSE, !.dismissed = TRUE]

dismiss(o) == Alive(o) /\ Silently(o, Dismissed(timer[o]))

disable_dtor_entry(o) == Alive(o) /\ Silently(o, [timer[o] EXCEPT !.entry = FALSE])

\* run and run_external: dismissed first, whatever then throws.  (to_string would be
\* the same, but does not compile when it is used.)
run(o, disable) ==
  /\ Alive(o)
  /\ LET r == IF disable THEN Dismissed(timer[o]) ELSE timer[o]
     IN IF r.points = <<>>
        THEN Undefined
        ELSE /\ timer' = [timer EXCEPT ![o] = r]
             /\ report' \in {calculate(r.points), <<>>}
             /\ UNCHANGED ended

\* The destructor's own entry, and what it reports.
AtEnd(r, now) == IF r.entry THEN Push(r, now) ELSE r

Destroy(o) ==
  /\ Alive(o)
  /\ \E now \in Times :
       LET r == AtEnd(timer[o], now)
       IN CASE ~r.enabled        -> Silently(o, None)
            [] r.enabled /\ r.points = <<>> -> Undefined
            [] OTHER -> /\ timer' = [timer EXCEPT ![o] = None]
                        /\ report' = calculate(r.points)
                        /\ UNCHANGED ended

\* An exception in the destructor: no memory for its entry or for the report, or
\* one of the callback.
DtorThrows(o) ==
  /\ Alive(o)
  /\ \/ timer[o].entry /\ ~HasRoom(timer[o])
     \/ timer[o].enabled /\ (timer[o].entry \/ timer[o].points # <<>>)
  /\ ended' = "terminated" /\ report' = <<>>
  /\ UNCHANGED timer

\* A copy has no more memory than it needs.
CopyTimer(o, p) ==
  /\ Alive(p) /\ ~timer[o].alive
  /\ Silently(o, [timer[p] EXCEPT !.capacity = Len(timer[p].points), !.copy = TRUE])

Assign(o, p) ==
  /\ Alive(o) /\ Alive(p) /\ o # p
  /\ Silently(o, [timer[p] EXCEPT
                    !.capacity = Larger(timer[o].capacity, Len(timer[p].points)),
                    !.copy = TRUE])

TimerNext ==
  \E o \in Timers :
    \/ Construct(o) \/ init(o) \/ InitFails(o) \/ add_step(o) \/ set_name(o)
    \/ dismiss(o) \/ disable_dtor_entry(o) \/ Destroy(o) \/ DtorThrows(o)
    \/ \E disable \in BOOLEAN : run(o, disable)
    \/ \E p \in Timers : CopyTimer(o, p) \/ Assign(o, p)

TimerSpec == TimerInit /\ [][TimerNext]_timerVars

-----------------------------------------------------------------------------
\* What holds of every timer: the destructor reports unless the measurement was
\* dismissed, and what init reserved is there unless the timer is a copy.
TimerRecords ==
  [alive : BOOLEAN, points : Seq(Times), capacity : Nat, enabled : BOOLEAN,
   entry : BOOLEAN, dismissed : BOOLEAN, size : Nat, failed : BOOLEAN, copy : BOOLEAN]

TimerOK(r) ==
  /\ r \in TimerRecords
  /\ r.alive => /\ r.enabled <=> ~r.dismissed
                /\ r.size <= r.capacity \/ r.copy

TimersOK == timer \in [Timers -> TimerRecords] /\ \A o \in Timers : TimerOK(timer[o])

\* What the steps of a report, which follow its total, add up to.
StepsOf(r) ==
  LET sum[k \in 1 .. Len(r)] == IF k = 1 THEN 0 ELSE (sum[k - 1] + r[k]) % Width
  IN sum[Len(r)]

\* The steps of a report add up to its total, also when the clock was set back;
\* only an init that failed leaves a timer without time points, and only then is
\* there undefined behaviour ("init pushes the first element").
TimerInv ==
  /\ TimersOK
  /\ ended \in {"no", "terminated", "undefined"}
  /\ report # <<>> => report[1] = StepsOf(report)
  /\ \A o \in Timers : timer[o].alive /\ timer[o].points = <<>> => timer[o].failed
  /\ ended = "undefined" => \E o \in Timers : timer[o].failed

\* "init pushes the first element, so times can never be empty": no function looks
\* for the first time point of a timer that has none.
FirstPointExists == ended # "undefined"

\* A measurement that was not dismissed is reported by the destructor, one that was
\* dismissed, by a run even if it threw, is not; init starts a new one.
DestructorReports ==
  [][\A o \in Timers : Alive(o) /\ ~timer'[o].alive =>
       report' = <<>> <=> timer[o].dismissed]_timerVars

\* A dismissed timer ends the program only if it took more steps than init made
\* room for, or is a copy.
EndsQuietly ==
  [][\A o \in Timers : DtorThrows(o) /\ timer[o].dismissed =>
       Len(timer[o].points) >= timer[o].size \/ timer[o].copy]_timerVars
=============================================================================

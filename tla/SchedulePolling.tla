-------------------------- MODULE SchedulePolling ---------------------------
(***************************************************************************)
(* The scheduled collection of one assignment (cli.py schedule run over    *)
(* scheduler.py): a runner emits an event at every due time, its worker    *)
(* threads take the events from a bounded queue, and each event collects   *)
(* the slot it is scheduled for (CollectionRuns, the slot is the run key)  *)
(* and then moves the durable cursor of the schedule.  Runners crash, are  *)
(* stopped, overlap and start again, and the operator edits the schedule   *)
(* under them.                                                             *)
(***************************************************************************)
EXTENDS CollectionRuns, Sequences, FiniteSetsExt

CONSTANTS
    Runners,     \* processes of `schedule run`
    Threads,     \* workers of each
    Policies,    \* catch-up policies a schedule is tried with
    Interval,
    QueueSize,
    MaxTime,     \* bound: the last moment
    MaxEdits,    \* bound: edits of the schedule
    MaxStarts    \* bound: starts of runners

VARIABLES
    now,
    schedule,  \* the schedules row
    runner,    \* the state of each runner process
    hand,      \* the event each worker thread handles and how far it is
    created,   \* history: when each slot's run was created
    edits, starts

scheduleVars == <<now, schedule, runner, hand, created, edits, starts>>
vars == <<collectVars, scheduleVars>>

\* An edit puts the cursor at time 0 or MaxTime, both on the grid of the slots.
ASSUME PollingAssumption ==
    /\ Interval \in Nat \ {0} /\ MaxTime \in Nat /\ QueueSize \in Nat \ {0}
    /\ MaxTime % Interval = 0
    /\ Policies \subseteq {"none", "latest", "all"}
    /\ Keys = 0..MaxTime
    /\ Callers = Runners \X Threads
    /\ {MaxEdits, MaxStarts} \subseteq Nat

Off == [state |-> "off", base |-> 0, started |-> 0, emitted |-> 0, queue |-> <<>>,
        next |-> 1, failed |-> FALSE, cursor |-> 0, version |-> 0, edits |-> 0]
Free == [at |-> "free", event |-> 0]
Never == MaxTime + 1

Init ==
    /\ CollectInit
    /\ now = 0
    /\ schedule \in [enabled : {TRUE}, cursor : {0}, policy : Policies, version : {1}]
    /\ runner = [p \in Runners |-> Off]
    /\ hand = [c \in Callers |-> Free]
    /\ created = [k \in Keys |-> Never]
    /\ edits = 0 /\ starts = 0

-----------------------------------------------------------------------------
\* Arithmetic of due times and slots.

Later(a, b) == IF a > b THEN a ELSE b
Floor(d) == (d \div Interval) * Interval
Ceiling(d) == Floor(d + Interval - 1)

\* _effective_schedule_base
Base(row) == LET late == now - row.cursor IN
    IF late <= 0 \/ row.policy = "all" THEN row.cursor
    ELSE IF row.policy = "latest" THEN row.cursor + Floor(late)
    ELSE row.cursor + Ceiling(late)

\* Mutant of Due: events that catch up are emitted at once.
DueAtOnce(p, e) == Later(runner[p].base, runner[p].started)

\* When the trigger of a runner emits event e.
Due(p, e) == LET q == runner[p]
                 first == Later(q.base, q.started) IN
    IF e > 1 /\ schedule.policy = "latest" /\ q.base <= q.started
    THEN q.base + (e - 1) * Interval
    ELSE first + (e - 1) * Interval

\* _event_scheduled_for
Slot(p, e) == runner[p].base + (e - 1) * Interval

-----------------------------------------------------------------------------
\* A runner process.

Start(p) ==
    /\ runner[p].state = "off" /\ schedule.enabled
    /\ starts < MaxStarts /\ starts' = starts + 1
    /\ runner' = [runner EXCEPT ![p] = [Off EXCEPT !.state = "running",
                    !.base = Base(schedule), !.started = now, !.cursor = schedule.cursor,
                    !.version = schedule.version, !.edits = edits]]
    /\ UNCHANGED <<collectVars, now, schedule, hand, created, edits>>

\* The sink never waits: a full queue ends the run after what it accepted.
Emit(p) == LET q == runner[p] IN
    /\ q.state = "running" /\ now >= Due(p, q.emitted + 1)
    /\ runner' = IF Len(q.queue) < QueueSize
                 THEN [runner EXCEPT ![p].emitted = @ + 1,
                                     ![p].queue = Append(@, q.emitted + 1)]
                 ELSE [runner EXCEPT ![p].state = "draining"]
    /\ UNCHANGED <<collectVars, now, schedule, hand, created, edits, starts>>

\* A signal, or the end of the duration.
Drain(p) ==
    /\ runner[p].state = "running" /\ Mishap
    /\ runner' = [runner EXCEPT ![p].state = "draining"]
    /\ UNCHANGED <<sourceVars, deskVars, tableVars, runLock, caller, seen, pushes,
                   now, schedule, hand, created, edits, starts>>

Exit(p) ==
    /\ runner[p].state = "draining" /\ runner[p].queue = <<>>
    /\ \A t \in Threads : hand[<<p, t>>] = Free
    /\ runner' = [runner EXCEPT ![p] = Off]
    /\ UNCHANGED <<collectVars, now, schedule, hand, created, edits, starts>>

\* The process is killed, or leaves threads behind after the shutdown timeout.
Kill(p) ==
    /\ runner[p].state # "off" /\ Mishap
    /\ Dies({p} \X Threads)
    /\ runner' = [runner EXCEPT ![p] = Off]
    /\ hand' = [c \in Callers |-> IF c[1] = p THEN Free ELSE hand[c]]
    /\ UNCHANGED <<now, schedule, created, edits, starts>>

-----------------------------------------------------------------------------
\* A worker thread c of runner c[1]: handle_due.

Take(c) == LET q == runner[c[1]] IN
    /\ hand[c] = Free /\ q.state # "off" /\ q.queue # <<>>
    /\ hand' = [hand EXCEPT ![c] = [at |-> "turn", event |-> Head(q.queue)]]
    /\ runner' = [runner EXCEPT ![c[1]].queue = Tail(@)]
    /\ UNCHANGED <<collectVars, now, schedule, created, edits, starts>>

\* The handler ends: the next event's turn.  A failure or a stop stops the runner.
Ends(c, failed, stops) ==
    /\ hand' = [hand EXCEPT ![c] = Free]
    /\ runner' = [runner EXCEPT ![c[1]].next = @ + 1,
                    ![c[1]].failed = @ \/ failed,
                    ![c[1]].state = IF failed \/ stops THEN "draining" ELSE @]

\* Mutant of HasTurn: workers do not wait.
HasTurnAlways(c) == hand[c].event > 0

HasTurn(c) == hand[c].event = runner[c[1]].next
Changed(q) == schedule.version # q.version \/ schedule.cursor # q.cursor
Poisoned(q) == q.failed

\* The checks before a collection.
Check(c) == LET q == runner[c[1]] IN
    /\ hand[c].at = "turn" /\ HasTurn(c)
    /\ IF Poisoned(q) THEN Ends(c, TRUE, TRUE)
       ELSE IF ~schedule.enabled THEN Ends(c, FALSE, TRUE)
       ELSE IF Changed(q) THEN Ends(c, TRUE, TRUE)
       ELSE hand' = [hand EXCEPT ![c].at = "collect"] /\ UNCHANGED runner
    /\ UNCHANGED <<collectVars, now, schedule, created, edits, starts>>

CollectSlot(c) == LET k == Slot(c[1], hand[c].event) IN
    /\ hand[c].at = "collect" /\ k \in Keys
    /\ Collect(c, k)
    /\ created' = IF run[k] = NoRun THEN [created EXCEPT ![k] = now] ELSE created
    /\ hand' = [hand EXCEPT ![c].at = "collecting"]
    /\ UNCHANGED <<now, schedule, runner, edits, starts>>

Collecting(c) ==
    /\ hand[c].at = "collecting"
    /\ CollectStep(c)
    /\ hand' = IF caller'[c].at # "idle" THEN hand
               ELSE [hand EXCEPT ![c].at = IF caller'[c].raised THEN "failed" ELSE "mark"]
    /\ UNCHANGED <<now, schedule, runner, created, edits, starts>>

CollectFailed(c) ==
    /\ hand[c].at = "failed"
    /\ Ends(c, TRUE, TRUE)
    /\ UNCHANGED <<collectVars, now, schedule, created, edits, starts>>

\* mark_schedule_fired moves the cursor of an enabled schedule forward only.
MayMark(next) == schedule.enabled /\ schedule.cursor < next
Marked(next) == IF MayMark(next) THEN [schedule EXCEPT !.cursor = next] ELSE schedule

Mark(c) == LET p == c[1]
               next == Slot(p, hand[c].event) + Interval IN
    /\ hand[c].at = "mark"
    /\ schedule' = Marked(next)
    /\ LET changed == schedule.enabled /\ schedule.version # runner[p].version IN
         /\ hand' = [hand EXCEPT ![c] = Free]
         /\ runner' = [runner EXCEPT ![p].next = @ + 1, ![p].cursor = schedule'.cursor,
                         ![p].failed = @ \/ changed,
                         ![p].state = IF changed \/ ~schedule.enabled THEN "draining" ELSE @]
    /\ UNCHANGED <<collectVars, now, created, edits, starts>>

\* mark_schedule_fired raises.
MarkFails(c) ==
    /\ hand[c].at = "mark" /\ Mishap
    /\ Ends(c, TRUE, TRUE)
    /\ UNCHANGED <<sourceVars, deskVars, tableVars, runLock, caller, seen, pushes,
                   now, schedule, created, edits, starts>>

-----------------------------------------------------------------------------
\* upsert_schedule: `schedule add` with the same key.
EditSchedule(on, cursor, changes) ==
    /\ edits < MaxEdits /\ edits' = edits + 1
    /\ schedule' = [schedule EXCEPT !.enabled = on, !.cursor = cursor,
                      !.version = IF changes THEN @ + 1 ELSE @]
    /\ schedule' # schedule
    /\ UNCHANGED <<collectVars, now, runner, hand, created, starts>>

Tick ==
    /\ now < MaxTime
    /\ now' = now + 1
    /\ UNCHANGED <<collectVars, schedule, runner, hand, created, edits, starts>>

RunnerNext == \E p \in Runners :
    \/ Start(p) \/ Emit(p) \/ Drain(p) \/ Exit(p) \/ Kill(p)

HandlerNext == \E c \in Callers :
    \/ Take(c) \/ Check(c) \/ CollectSlot(c) \/ Collecting(c) \/ CollectFailed(c)
    \/ Mark(c) \/ MarkFails(c)

Next ==
    \/ RunnerNext
    \/ HandlerNext
    \/ OutsideStep /\ UNCHANGED scheduleVars
    \/ \E on, changes \in BOOLEAN, cursor \in {0, MaxTime} : EditSchedule(on, cursor, changes)
    \/ Tick

Spec == Init /\ [][Next]_vars

-----------------------------------------------------------------------------
\* What the schedule promises.

\* No slot is collected before it is due, whatever catch-up policy a runner
\* starts with and however late it starts (_effective_schedule_base, the
\* initial and the aligning delay of PeriodicTrigger).
NothingEarly == \A k \in Keys : created[k] # Never => k <= created[k]

\* A collection is of its slot, and its runs and snapshots say what was found.
PollingIsHonest == CollectionIsHonest /\ NothingEarly

Edited == \E p \in Runners : runner[p].state # "off" /\ runner[p].edits # edits
PassedOver(k) == schedule.policy # "all" /\ \E p \in Runners :
    runner[p].state # "off" /\ k < runner[p].base

\* The durable cursor passes a slot only when its collection has a verdict or
\* the catch-up policy of a runner skipped it at its start, unless the operator
\* edits the schedule under the runner: not after a failure of an earlier slot,
\* not out of order by two worker threads, not by two runners at once.
CursorIsHonest == [][edits' = edits /\ ~Edited =>
    \A k \in Keys :
        /\ schedule.cursor <= k /\ k < schedule'.cursor
        /\ (k - schedule.cursor) % Interval = 0
        => run[k].state \in Terminal \/ PassedOver(k)]_vars
=============================================================================

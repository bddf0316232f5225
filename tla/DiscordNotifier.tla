--------------------------- MODULE DiscordNotifier ---------------------------
(***************************************************************************)
(* pkg/discord.Notifier: log events are posted to a webhook at once after  *)
(* a quiet period and batched otherwise, the batch being flushed by a      *)
(* time.AfterFunc timer.  Notify runs on the logging goroutine and         *)
(* flushPending on the timer's; each holds n.mu for the whole of its       *)
(* critical section, so each critical section is one action.  A timer that *)
(* has fired is a goroutine that may reach n.mu much later, and Stop does  *)
(* not stop it.                                                            *)
(*                                                                         *)
(* Time is relative: elapsed is time.Since(n.lastSent) and left is what    *)
(* remains of a timer, both cut off where nothing distinguishes more.      *)
(***************************************************************************)
EXTENDS Integers, Sequences, SequencesExt

CONSTANTS
    Events,         \* log entries at or above the minimum level, each logged once
    MinInterval,    \* n.minInterval
    TimerIds,       \* timers that may exist at a time
    NoTimer         \* nil

ASSUME MinIntervalAssumption == MinInterval \in Nat \ {0}
ASSUME NoTimerAssumption == NoTimer \notin TimerIds

VARIABLES
    logged,         \* events Notify was called with
    pending,        \* n.pending
    elapsed,        \* time.Since(n.lastSent), at most MinInterval
    timer,          \* n.timer
    timers,         \* the runtime's timers
    posting,        \* batches with a goroutine in send
    posted,         \* events whose post has ended, delivered or not
    exited          \* the process has ended

vars == <<logged, pending, elapsed, timer, timers, posting, posted, exited>>

Timer == [state : {"free", "armed", "fired"}, left : 0 .. MinInterval]
Free == [state |-> "free", left |-> 0]

Init ==
    /\ logged = {}
    /\ pending = <<>>
    /\ elapsed = MinInterval        \* the zero time is long ago
    /\ timer = NoTimer
    /\ timers = [t \in TimerIds |-> Free]
    /\ posting = {}
    /\ posted = {}
    /\ exited = FALSE

\* Both senders take the batch, restart the window and forget the timer.
TakeBatch(batch) ==
    /\ posting' = posting \cup {batch}
    /\ pending' = <<>>
    /\ elapsed' = 0
    /\ timer' = NoTimer

\* n.timer.Stop(): too late for a timer that has fired.
Stopped ==
    IF timer # NoTimer /\ timers[timer].state = "armed"
    THEN [timers EXCEPT ![timer] = Free]
    ELSE timers

\* Notify after a quiet period.
NotifyNow(e) ==
    /\ ~exited
    /\ e \notin logged
    /\ elapsed >= MinInterval
    /\ logged' = logged \cup {e}
    /\ TakeBatch(Append(pending, e))
    /\ timers' = Stopped
    /\ UNCHANGED <<posted, exited>>

\* Mutants: the operands of the subtraction swapped, and one forgotten.
ArmSwapped(t) ==
    /\ timers[t].state = "free"
    /\ timers' = [timers EXCEPT ![t] = [state |-> "armed", left |-> elapsed - MinInterval]]
    /\ timer' = t
ArmElapsed(t) ==
    /\ timers[t].state = "free"
    /\ timers' = [timers EXCEPT ![t] = [state |-> "armed", left |-> elapsed]]
    /\ timer' = t

\* time.AfterFunc(n.minInterval - elapsed, n.flushPending)
Arm(t) ==
    /\ timers[t].state = "free"
    /\ timers' = [timers EXCEPT ![t] = [state |-> "armed", left |-> MinInterval - elapsed]]
    /\ timer' = t

\* Notify within the window.
NotifyLater(e) ==
    /\ ~exited
    /\ e \notin logged
    /\ elapsed < MinInterval
    /\ logged' = logged \cup {e}
    /\ pending' = Append(pending, e)
    /\ IF timer = NoTimer THEN \E t \in TimerIds : Arm(t)
                          ELSE UNCHANGED <<timer, timers>>
    /\ UNCHANGED <<elapsed, posting, posted, exited>>

\* The runtime starts the timer's goroutine; it has yet to take n.mu.
Fire(t) ==
    /\ ~exited
    /\ timers[t] = [state |-> "armed", left |-> 0]
    /\ timers' = [timers EXCEPT ![t].state = "fired"]
    /\ UNCHANGED <<logged, pending, elapsed, timer, posting, posted, exited>>

\* Mutants: the batch is posted but not cleared; a flush leaves n.timer as it is.
FlushKeeps(t) ==
    /\ ~exited
    /\ timers[t].state = "fired"
    /\ timers' = [timers EXCEPT ![t] = Free]
    /\ timer' = NoTimer
    /\ IF pending = <<>>
       THEN UNCHANGED <<posting, elapsed>>
       ELSE posting' = posting \cup {pending} /\ elapsed' = 0
    /\ UNCHANGED <<pending, logged, posted, exited>>
FlushForgetsTimer(t) ==
    /\ ~exited
    /\ timers[t].state = "fired"
    /\ timers' = [timers EXCEPT ![t] = Free]
    /\ posting' = IF pending = <<>> THEN posting ELSE posting \cup {pending}
    /\ elapsed' = IF pending = <<>> THEN elapsed ELSE 0
    /\ pending' = <<>>
    /\ UNCHANGED <<timer, logged, posted, exited>>

\* flushPending on the goroutine of t, whichever timer n.timer is by then.
Flush(t) ==
    /\ ~exited
    /\ timers[t].state = "fired"
    /\ timers' = [timers EXCEPT ![t] = Free]
    /\ IF pending = <<>>
       THEN timer' = NoTimer /\ UNCHANGED <<pending, elapsed, posting>>
       ELSE TakeBatch(pending)
    /\ UNCHANGED <<logged, posted, exited>>

\* send ends, in whatever order; a failed post is dropped silently.
Post(batch) ==
    /\ ~exited
    /\ batch \in posting
    /\ posting' = posting \ {batch}
    /\ posted' = posted \cup ToSet(batch)
    /\ UNCHANGED <<logged, pending, elapsed, timer, timers, exited>>

Tick ==
    /\ ~exited
    /\ elapsed < MinInterval
    /\ elapsed' = elapsed + 1
    /\ timers' = [t \in TimerIds |->
          IF timers[t].left > 0 THEN [timers[t] EXCEPT !.left = @ - 1] ELSE timers[t]]
    /\ UNCHANGED <<logged, pending, timer, posting, posted, exited>>

\* main returns or logger.Fatal exits, after logger.Sync: discordCore.Sync
\* does nothing.
Exit ==
    /\ ~exited
    /\ exited' = TRUE
    /\ UNCHANGED <<logged, pending, elapsed, timer, timers, posting, posted>>

Next ==
    \/ \E e \in Events : NotifyNow(e) \/ NotifyLater(e)
    \/ \E t \in TimerIds : Fire(t) \/ Flush(t)
    \/ \E batch \in posting : Post(batch)
    \/ Tick
    \/ Exit

Spec == Init /\ [][Next]_vars

(***************************************************************************)
(* Time passes, the runtime starts due timers and runs their goroutines,   *)
(* and every post ends (the client times out after ten seconds).  Nothing  *)
(* obliges anybody to log or the process to end.                           *)
(***************************************************************************)
Fairness ==
    /\ WF_vars(Tick)
    /\ \A t \in TimerIds : WF_vars(Fire(t)) /\ WF_vars(Flush(t))
    /\ WF_vars(\E batch \in posting : Post(batch))

FairSpec == Spec /\ Fairness

-----------------------------------------------------------------------------
TypeOK ==
    /\ logged \subseteq Events
    /\ pending \in Seq(Events)
    /\ elapsed \in 0 .. MinInterval
    /\ timer \in TimerIds \cup {NoTimer}
    /\ timers \in [TimerIds -> Timer]
    /\ posting \subseteq Seq(Events)
    /\ posted \subseteq Events
    /\ exited \in BOOLEAN

(***************************************************************************)
(* No log event is lost or posted twice inside the notifier: each is in    *)
(* exactly one of the pending batch, one batch being posted, and the       *)
(* posted events, and only once in its batch.                              *)
(***************************************************************************)
InPost == {e \in Events : \E b \in posting : e \in ToSet(b)}
EventsKept ==
    /\ logged = ToSet(pending) \cup InPost \cup posted
    /\ \A b \in posting \cup {pending} : IsInjective(b) /\ ToSet(b) \cap posted = {}
    /\ \A b \in posting : b # <<>> /\ ToSet(b) \cap ToSet(pending) = {}
    /\ \A b, c \in posting : b # c => ToSet(b) \cap ToSet(c) = {}

(***************************************************************************)
(* A pending batch is never stranded: n.timer is set, is a live timer, and *)
(* is due exactly when the window since the last post closes, although     *)
(* flushes of timers that could not be stopped overwrite n.timer.          *)
(***************************************************************************)
TimerClosesWindow ==
    /\ pending # <<>> => timer # NoTimer
    /\ timer # NoTimer =>
          \/ timers[timer].state = "armed" /\ timers[timer].left = MinInterval - elapsed
          \/ timers[timer].state = "fired" /\ elapsed = MinInterval

(***************************************************************************)
(* Only the flush of a timer that n.timer no longer names posts within     *)
(* MinInterval of the post before.  (NewNotifier promises "the minimum gap *)
(* between webhook posts" without the exception, which is real: Stop comes *)
(* too late for a timer that has fired.)                                   *)
(***************************************************************************)
EarlyOnlyByOrphan ==
    [][posting \subseteq posting' /\ posting' # posting =>
          \/ elapsed = MinInterval
          \/ \E t \in TimerIds \ {timer} : timers[t].state = "fired"]_vars

(***************************************************************************)
(* Every logged event is posted in the end, unless the process ends first. *)
(***************************************************************************)
EveryEventPosted == \A e \in Events : e \in logged ~> (e \in posted \/ exited)

=============================================================================

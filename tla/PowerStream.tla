----------------------------- MODULE PowerStream -----------------------------
(***************************************************************************)
(* The power stream of pvs-monitor (pvs/monitor.go) together with what it  *)
(* depends on: a PVS6 that reboots and forgets to send, a connection that  *)
(* may be dead without anybody noticing, and the device poller, which asks *)
(* the PVS6 to send on every tick of its own (pvs/device_poller.go).       *)
(*                                                                         *)
(* Time passes in ticks: the PVS6 sends about one power frame in each.  A  *)
(* program's steps take no time, and a timer that has run out is acted on  *)
(* before the next tick.  Whatever does take time (a slow dial, a locked   *)
(* database, an enabling call that hangs) is a disturbance like a reboot.  *)
(*                                                                         *)
(* Simplifications: what a frame says and the rows it makes are the matter *)
(* of Backfill; the poller's part is its enabling call; a failed save is   *)
(* only logged, and shows here no more than one that succeeds.             *)
(***************************************************************************)
EXTENDS Naturals

CONSTANTS
  ReadTimeout,       \* of a single read, in ticks
  ReconnectInitial,  \* the first wait before a connection is tried again
  ReconnectMax,      \* the longest wait
  Interval,          \* of the poller's ticker
  MaxFrames          \* bound: how many frames one process reads

ASSUME StreamAssumption ==
  /\ {ReadTimeout, ReconnectInitial, ReconnectMax, Interval} \subseteq Nat \ {0}
  /\ MaxFrames \in Nat

Larger(a, b)  == IF a > b THEN a ELSE b
Smaller(a, b) == IF a < b THEN a ELSE b

\* How long the daemon may take to find its way back to the stream: one wait
\* that is under way, or a read that has to time out, or a stream that has to
\* be enabled, and the wait after that.
LongestWait == Larger(ReconnectInitial, ReconnectMax)
Recovery    ==
  Larger(LongestWait, Larger(ReadTimeout, Interval) + ReconnectInitial) + 1

VARIABLES
  \* the PVS6
  up,         \* it answers
  telemetry,  \* /sys/telemetryws/enable
  \* the connection: "none", "live", "dead" (open here, nothing will come),
  \* "closed" (the next read fails)
  conn,
  arrived,    \* what the next read returns: "power", "other" or "none"
  \* Monitor.Run
  pc,         \* "dial", "read", "publish", "total", "interval", "save", "wait", "stopped"
  timer,      \* the ticks of the present read or wait
  backoff,    \* the local of Run
  total,      \* totalAdded
  interval,   \* intervalAdded
  \* Monitor.runStats
  stats,      \* "idle" or "load"
  got,        \* its local: the interval it has swapped out
  \* the poller
  polling,    \* Run has not returned, or never started for want of a password
  pollIn,     \* the ticks until its next tick
  \* not in the code: histories
  reported,   \* the sum of the intervals that were logged
  calm,       \* the ticks since the last disturbance
  fresh       \* a reading has come since the last tick

pvs6   == <<up, telemetry>>
link   == <<conn, arrived>>
run    == <<pc, timer, backoff>>
counts == <<total, interval, stats, got, reported>>
poller == <<polling, pollIn>>
vars   == <<up, telemetry, conn, arrived, pc, timer, backoff, total, interval,
            stats, got, polling, pollIn, reported, calm, fresh>>

TypeOK ==
  /\ up \in BOOLEAN /\ telemetry \in BOOLEAN
  /\ conn \in {"none", "live", "dead", "closed"}
  /\ arrived \in {"none", "power", "other"}
  /\ pc \in {"dial", "read", "publish", "total", "interval", "save", "wait", "stopped"}
  /\ timer \in 0 .. Larger(ReadTimeout, LongestWait)
  /\ backoff \in 1 .. LongestWait
  /\ total \in Nat /\ interval \in Nat /\ got \in Nat /\ reported \in Nat
  /\ stats \in {"idle", "load"}
  /\ polling \in BOOLEAN
  /\ pollIn \in 0 .. Interval
  /\ calm \in 0 .. Recovery
  /\ fresh \in BOOLEAN

Init ==
  /\ up \in BOOLEAN /\ telemetry = FALSE
  /\ conn = "none" /\ arrived = "none"
  /\ pc = "stopped" /\ timer = 0 /\ backoff = ReconnectInitial
  /\ total = 0 /\ interval = 0 /\ stats = "idle" /\ got = 0 /\ reported = 0
  /\ polling = FALSE /\ pollIn = 0
  /\ calm = 0 /\ fresh = FALSE

-----------------------------------------------------------------------------
(* The daemon and its surroundings.                                        *)

\* The daemon starts, with a poller if it has a password: both Runs at once.
Start ==
  /\ pc = "stopped"
  /\ pc' = "dial" /\ timer' = 0 /\ backoff' = ReconnectInitial
  /\ polling' \in BOOLEAN /\ pollIn' = 0
  /\ UNCHANGED <<pvs6, link, counts, calm, fresh>>

\* It ends, wherever it is, and its connection with it.
Stop ==
  /\ pc # "stopped"
  /\ pc' = "stopped" /\ timer' = 0 /\ backoff' = ReconnectInitial
  /\ conn' = "none" /\ arrived' = "none"
  /\ total' = 0 /\ interval' = 0 /\ stats' = "idle" /\ got' = 0 /\ reported' = 0
  /\ polling' = FALSE /\ pollIn' = 0
  /\ calm' = 0
  /\ UNCHANGED <<pvs6, fresh>>

\* How a connection breaks: nobody notices, or the next read fails once what
\* has arrived is read.
Broken == IF conn = "live" THEN {"dead", "closed"} ELSE {conn}

\* The PVS6 goes down, and knows neither of its connection nor of telemetry
\* when it is back.
Reboot ==
  /\ up' = FALSE /\ telemetry' = FALSE
  /\ conn' \in Broken
  /\ calm' = 0
  /\ UNCHANGED <<arrived, run, counts, poller, fresh>>

BootDone ==
  /\ ~up
  /\ up' = TRUE
  /\ calm' = 0
  /\ UNCHANGED <<telemetry, link, run, counts, poller, fresh>>

\* The network drops the connection.
Drop ==
  /\ conn' \in Broken
  /\ calm' = 0
  /\ UNCHANGED <<pvs6, arrived, run, counts, poller, fresh>>

-----------------------------------------------------------------------------
(* Monitor.Run and connect.                                                *)

\* The dial succeeds.
DialOK ==
  /\ pc = "dial" /\ up
  /\ conn' = "live" /\ arrived' = "none"
  /\ pc' = "read" /\ timer' = 0
  /\ UNCHANGED <<pvs6, backoff, counts, poller, calm, fresh>>

\* It fails; the wait is as long as the last one has left it.
DialFail ==
  /\ pc = "dial"
  /\ pc' = "wait" /\ timer' = 0
  /\ calm' = 0
  /\ UNCHANGED <<pvs6, link, backoff, counts, poller, fresh>>

\* Mutant: the backoff goes on from where it was.
SameBackoff == backoff

\* The backoff after a connection that was established.
ResetBackoff == ReconnectInitial

\* A read has failed or timed out.  The dial had succeeded, so the wait is
\* short again.
Lost ==
  /\ pc = "read" /\ arrived = "none"
  /\ conn = "closed" \/ timer = ReadTimeout
  /\ conn' = "none" /\ arrived' = "none"
  /\ pc' = "wait" /\ timer' = 0 /\ backoff' = ResetBackoff
  /\ UNCHANGED <<pvs6, counts, poller, calm, fresh>>

\* Mutant: without a limit.
NoLimit(b) == 2 * b

\* The next wait is twice as long.
NextBackoff(b) == Smaller(2 * b, ReconnectMax)

\* The wait is over.
Reconnect ==
  /\ pc = "wait" /\ timer = backoff
  /\ pc' = "dial" /\ timer' = 0
  /\ backoff' = NextBackoff(backoff)
  /\ UNCHANGED <<pvs6, link, counts, poller, calm, fresh>>

-----------------------------------------------------------------------------
(* runLoop.                                                                *)

\* A notification that is not of power is ignored, and the next read has the
\* whole timeout again.
Ignore ==
  /\ pc = "read" /\ arrived = "other"
  /\ arrived' = "none" /\ timer' = 0
  /\ UNCHANGED <<pvs6, conn, pc, backoff, counts, poller, calm, fresh>>

Receive ==
  /\ pc = "read" /\ arrived = "power"
  /\ arrived' = "none" /\ timer' = 0
  /\ pc' = "publish"
  /\ UNCHANGED <<pvs6, conn, backoff, counts, poller, calm, fresh>>

\* The reading becomes the current one.
Publish ==
  /\ pc = "publish"
  /\ fresh' = TRUE
  /\ pc' = "total"
  /\ UNCHANGED <<pvs6, link, timer, backoff, counts, poller, calm>>

\* It is counted twice.
AddTotal ==
  /\ pc = "total"
  /\ total' = total + 1
  /\ pc' = "interval"
  /\ UNCHANGED <<pvs6, link, timer, backoff, interval, stats, got, reported,
                 poller, calm, fresh>>

AddInterval ==
  /\ pc = "interval"
  /\ interval' = interval + 1
  /\ pc' = "save"
  /\ UNCHANGED <<pvs6, link, timer, backoff, total, stats, got, reported,
                 poller, calm, fresh>>

\* SaveReading has returned, in whichever way.
Saved ==
  /\ pc = "save"
  /\ pc' = "read"
  /\ UNCHANGED <<pvs6, link, timer, backoff, counts, poller, calm, fresh>>

-----------------------------------------------------------------------------
(* runStats, on a ticker of its own.                                       *)

\* Mutant: what has been reported stays in the counter.
AfterLoad(n) == n

\* What a swap leaves in the counter.
AfterSwap(n) == 0

SwapInterval ==
  /\ pc # "stopped" /\ stats = "idle"
  /\ got' = interval
  /\ interval' = AfterSwap(interval)
  /\ stats' = "load"
  /\ UNCHANGED <<pvs6, link, run, total, reported, poller, calm, fresh>>

Report ==
  /\ stats = "load"
  /\ reported' = reported + got
  /\ got' = 0
  /\ stats' = "idle"
  /\ UNCHANGED <<pvs6, link, run, total, interval, poller, calm, fresh>>

-----------------------------------------------------------------------------
(* The poller.                                                             *)

\* The ticker of the poller, which comes round again and again.
NextPoll == Interval

EnableTelemetryOK ==
  /\ polling /\ pollIn = 0 /\ up
  /\ telemetry' = TRUE
  /\ pollIn' = NextPoll
  /\ UNCHANGED <<up, link, run, counts, polling, calm, fresh>>

EnableTelemetryFail ==
  /\ polling /\ pollIn = 0
  /\ pollIn' = NextPoll
  /\ calm' = 0
  /\ UNCHANGED <<pvs6, link, run, counts, polling, fresh>>

\* Its Run returns.
PollerEnds ==
  /\ polling
  /\ polling' = FALSE /\ pollIn' = 0
  /\ calm' = 0
  /\ UNCHANGED <<pvs6, link, run, counts, fresh>>

-----------------------------------------------------------------------------
(* Time.                                                                   *)

\* A power frame arrives in every tick when the PVS6 sends at all; what else it
\* may send comes or not.
Arriving ==
  IF conn # "live" THEN {"none"}
  ELSE IF telemetry THEN {"power"}
  ELSE {"none", "other"}

\* Nothing is due that takes no time.
Quiet ==
  /\ pc = "read" => arrived = "none" /\ conn # "closed" /\ timer < ReadTimeout
  /\ pc = "wait" => timer < backoff
  /\ pc \notin {"publish", "total", "interval"}

\* A call is taking its time, or nobody is there.
Hanging == pc \in {"dial", "save", "stopped"} \/ (polling /\ pollIn = 0)

Tick ==
  /\ Quiet
  /\ timer' = IF pc \in {"read", "wait"} THEN timer + 1 ELSE timer
  /\ pollIn' = IF pollIn > 0 THEN pollIn - 1 ELSE 0
  /\ arrived' \in IF arrived = "none" THEN Arriving ELSE {arrived}
  /\ calm' = IF up /\ ~Hanging THEN Smaller(calm + 1, Recovery) ELSE 0
  /\ fresh' = FALSE
  /\ total < MaxFrames
  /\ UNCHANGED <<pvs6, conn, pc, backoff, counts, polling>>

Next ==
  \/ Start \/ Stop \/ Reboot \/ BootDone \/ Drop
  \/ DialOK \/ DialFail \/ Lost \/ Reconnect
  \/ Ignore \/ Receive \/ Publish \/ AddTotal \/ AddInterval \/ Saved
  \/ SwapInterval \/ Report
  \/ EnableTelemetryOK \/ EnableTelemetryFail \/ PollerEnds
  \/ Tick

Spec == Init /\ [][Next]_vars

-----------------------------------------------------------------------------
(* Safety.                                                                 *)

\* The stream comes back by itself: when nothing has gone wrong for Recovery
\* ticks, and the poller lives or has done its work, every tick has a reading,
\* whatever state the PVS6, the connection, the backoff and both programs were
\* left in before (Run, runLoop, the poller's ticker).
StreamComesBack ==
  calm = Recovery /\ (polling \/ telemetry) /\ Quiet => fresh

\* No reading is missed or counted twice by the statistics, though the stream
\* and the ticker touch the counters in whatever order: what was reported, what
\* is being reported and what is still to be reported make up the total, but
\* for a reading that is just being counted (runLoop, runStats).
StatsAddUp ==
  total = reported + got + interval + IF pc = "interval" THEN 1 ELSE 0
=============================================================================

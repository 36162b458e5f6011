-------------------------- MODULE PowerStreamProofs --------------------------
(***************************************************************************)
(* Theorems about PowerStream, for any timeouts, waits and intervals.      *)
(***************************************************************************)
EXTENDS PowerStream, TLAPS

\* What the timers and the bound on the recovery have to do with each other.
LEMMA Timers ==
  /\ ReadTimeout \in Nat \ {0} /\ Interval \in Nat \ {0}
  /\ ReconnectInitial \in Nat \ {0} /\ ReconnectMax \in Nat \ {0}
  /\ LongestWait \in Nat \ {0}
  /\ ReconnectInitial <= LongestWait /\ ReconnectMax <= LongestWait
  /\ Recovery \in Nat \ {0}
  /\ LongestWait < Recovery
  /\ ReadTimeout + ReconnectInitial < Recovery
  /\ Interval + ReconnectInitial < Recovery
  BY StreamAssumption DEF LongestWait, Recovery, Larger

LEMMA BackoffType ==
  ASSUME NEW b \in 1 .. LongestWait
  PROVE  NextBackoff(b) \in 1 .. LongestWait
  BY Timers DEF NextBackoff, Smaller

LEMMA CalmType ==
  ASSUME NEW c \in 0 .. Recovery
  PROVE  /\ Smaller(c + 1, Recovery) \in 0 .. Recovery
         /\ Smaller(c + 1, Recovery) <= c + 1
  BY Timers DEF Smaller

LEMMA TimerType ==
  /\ 0 \in 0 .. Larger(ReadTimeout, LongestWait)
  /\ 0 \in 0 .. Interval /\ Interval \in 0 .. Interval
  /\ 0 \in 0 .. Recovery /\ ReconnectInitial \in 1 .. LongestWait
  /\ 0 .. ReadTimeout \subseteq 0 .. Larger(ReadTimeout, LongestWait)
  /\ 0 .. LongestWait \subseteq 0 .. Larger(ReadTimeout, LongestWait)
  BY Timers DEF Larger

-----------------------------------------------------------------------------
(* Type.                                                                   *)

LEMMA TypeInit == Init => TypeOK
<1>1. Init => /\ up \in BOOLEAN /\ telemetry \in BOOLEAN
              /\ polling \in BOOLEAN /\ fresh \in BOOLEAN
  BY Zenon DEF Init
<1>2. QED
  BY <1>1, TimerType DEF Init, TypeOK

\* A tick moves a timer that has not run out.
LEMMA TypeTick == TypeOK /\ Tick => TypeOK'
<1> SUFFICES ASSUME TypeOK, Tick PROVE TypeOK'
  OBVIOUS
<1>1. timer' \in 0 .. Larger(ReadTimeout, LongestWait)
  <2>1. CASE pc = "read"
    <3>1. timer' = timer + 1 /\ timer < ReadTimeout /\ timer \in Nat
      BY <2>1 DEF Tick, Quiet, TypeOK
    <3>2. timer' \in 0 .. ReadTimeout
      BY <3>1, Timers
    <3>3. QED
      BY <3>2, TimerType
  <2>2. CASE pc = "wait"
    <3>1. timer' = timer + 1 /\ timer < backoff /\ timer \in Nat /\ backoff \in 1 .. LongestWait
      BY <2>2 DEF Tick, Quiet, TypeOK
    <3>2. timer' \in 0 .. LongestWait
      BY <3>1, Timers
    <3>3. QED
      BY <3>2, TimerType
  <2>3. CASE pc \notin {"read", "wait"}
    BY <2>3 DEF Tick, TypeOK
  <2>4. QED
    BY <2>1, <2>2, <2>3
<1>2. pollIn' \in 0 .. Interval
  BY Timers DEF Tick, TypeOK
<1>3. arrived' \in {"none", "power", "other"}
  BY DEF Tick, Arriving, TypeOK
<1>4. calm' \in 0 .. Recovery
  BY CalmType, Timers DEF Tick, TypeOK
<1>5. fresh' \in BOOLEAN
  BY DEF Tick
<1>6. QED
  BY <1>1, <1>2, <1>3, <1>4, <1>5 DEF Tick, TypeOK, pvs6, counts

LEMMA TypeStep == TypeOK /\ [Next]_vars => TypeOK'
<1> SUFFICES ASSUME TypeOK, [Next]_vars PROVE TypeOK'
  OBVIOUS
<1> USE TimerType
<1>1. CASE Start \/ Stop
  <2>1. up' \in BOOLEAN /\ telemetry' \in BOOLEAN /\ polling' \in BOOLEAN /\ fresh' \in BOOLEAN
    BY <1>1, Zenon DEF Start, Stop, TypeOK, pvs6
  <2>2. QED
    BY <1>1, <2>1 DEF Start, Stop, TypeOK, pvs6, link, counts
<1>2. CASE Reboot \/ BootDone \/ Drop
  <2>1. up' \in BOOLEAN /\ telemetry' \in BOOLEAN /\ polling' \in BOOLEAN /\ fresh' \in BOOLEAN
    BY <1>2, Zenon DEF Reboot, BootDone, Drop, TypeOK, pvs6, poller
  <2>2. conn' \in {"none", "live", "dead", "closed"} /\ arrived' = arrived
    BY <1>2 DEF Reboot, BootDone, Drop, Broken, TypeOK, link
  <2>3. QED
    BY <1>2, <2>1, <2>2 DEF Reboot, BootDone, Drop, TypeOK, pvs6, run, counts, poller
<1>3. CASE DialOK \/ DialFail \/ Lost
  BY <1>3 DEF DialOK, DialFail, Lost, ResetBackoff, TypeOK, pvs6, link, counts, poller
<1>4. CASE Reconnect
  BY <1>4, BackoffType DEF Reconnect, TypeOK, pvs6, link, counts, poller
<1>5. CASE Ignore \/ Receive \/ Publish \/ Saved
  BY <1>5 DEF Ignore, Receive, Publish, Saved, TypeOK, pvs6, link, counts, poller
<1>6. CASE AddTotal \/ AddInterval
  BY <1>6 DEF AddTotal, AddInterval, TypeOK, pvs6, link, poller
<1>7. CASE SwapInterval \/ Report
  BY <1>7 DEF SwapInterval, AfterSwap, Report, TypeOK, pvs6, link, run, poller
<1>8. CASE EnableTelemetryOK \/ EnableTelemetryFail \/ PollerEnds
  <2>1. up' \in BOOLEAN /\ telemetry' \in BOOLEAN /\ polling' \in BOOLEAN /\ fresh' \in BOOLEAN
    BY <1>8, Zenon DEF EnableTelemetryOK, EnableTelemetryFail, PollerEnds, TypeOK, pvs6
  <2>2. QED
    BY <1>8, <2>1 DEF EnableTelemetryOK, EnableTelemetryFail, PollerEnds, NextPoll,
                      TypeOK, pvs6, link, run, counts
<1>9. CASE Tick
  BY <1>9, TypeTick
<1>10. CASE UNCHANGED vars
  BY <1>10 DEF vars, TypeOK
<1>11. QED
  BY <1>1, <1>2, <1>3, <1>4, <1>5, <1>6, <1>7, <1>8, <1>9, <1>10 DEF Next

\* The stream's state has its type, whatever happens in whatever order.
THEOREM TypeCorrect == Spec => []TypeOK
<1>1. QED
  BY TypeInit, TypeStep, PTL DEF Spec

-----------------------------------------------------------------------------
(* The statistics.                                                         *)

StatsInv == TypeOK /\ StatsAddUp /\ (stats = "idle" => got = 0)

LEMMA StatsStep == StatsInv /\ [Next]_vars => StatsInv'
<1> SUFFICES ASSUME StatsInv, [Next]_vars PROVE StatsAddUp' /\ (stats = "idle" => got = 0)'
  BY TypeStep DEF StatsInv
<1> USE DEF StatsInv, StatsAddUp, TypeOK
<1>1. CASE Start \/ Stop
  BY <1>1 DEF Start, Stop, counts
<1>2. CASE Reboot \/ BootDone \/ Drop
  BY <1>2 DEF Reboot, BootDone, Drop, run, counts
<1>3. CASE DialOK \/ DialFail \/ Lost \/ Reconnect
  BY <1>3 DEF DialOK, DialFail, Lost, Reconnect, counts
<1>4. CASE Ignore \/ Receive \/ Publish \/ Saved
  BY <1>4 DEF Ignore, Receive, Publish, Saved, counts
<1>5. CASE AddTotal \/ AddInterval
  BY <1>5 DEF AddTotal, AddInterval
<1>6. CASE SwapInterval
  BY <1>6 DEF SwapInterval, AfterSwap, run
<1>7. CASE Report
  BY <1>7 DEF Report, run
<1>8. CASE EnableTelemetryOK \/ EnableTelemetryFail \/ PollerEnds
  BY <1>8 DEF EnableTelemetryOK, EnableTelemetryFail, PollerEnds, run, counts
<1>9. CASE Tick
  BY <1>9 DEF Tick, counts
<1>10. CASE UNCHANGED vars
  BY <1>10 DEF vars
<1>11. QED
  BY <1>1, <1>2, <1>3, <1>4, <1>5, <1>6, <1>7, <1>8, <1>9, <1>10 DEF Next

\* However the stream and the statistics interleave, every reading is reported
\* once (runLoop, runStats).
THEOREM EveryReadingIsReported == Spec => []StatsAddUp
<1>1. Init => StatsInv
  BY TypeInit DEF Init, StatsInv, StatsAddUp
<1>2. StatsInv => StatsAddUp
  BY DEF StatsInv
<1>3. QED
  BY <1>1, <1>2, StatsStep, PTL DEF Spec

-----------------------------------------------------------------------------
(* The stream comes back.                                                  *)

\* The stream can be had: somebody has enabled it, or somebody will.
Wanted == polling \/ telemetry

\* The slower of the two things that bring the stream back.
Slower == Larger(ReadTimeout, Interval)

\* Nothing runs when the daemon does not.
StoppedInv == pc = "stopped" => calm = 0 /\ ~polling

\* There is a connection just when runLoop runs.
ConnInv ==
  /\ conn = "none" <=> pc \in {"stopped", "dial", "wait"}
  /\ conn = "none" => arrived = "none"
  /\ pc \in {"publish", "total", "interval", "save"} =>
       timer = 0 /\ (arrived = "none" \/ calm = 0)

\* A connection that has broken is noticed ReadTimeout ticks later.
BrokenInv ==
  conn \in {"dead", "closed"} =>
    /\ arrived # "none" \/ pc # "read" => calm = 0
    /\ calm <= timer

\* A stream that is off is enabled Interval ticks later.
OffInv ==
  /\ polling /\ ~telemetry => calm + pollIn <= Interval
  /\ Wanted /\ conn = "live" /\ pc = "read" =>
       /\ arrived = "other" => calm <= Interval
       /\ arrived = "none" /\ timer > 0 => calm <= Interval

\* A wait is the first one after a connection, or the dial before it has failed.
WaitInv ==
  /\ pc = "wait" => timer <= backoff
  /\ pc = "read" => timer <= ReadTimeout
  /\ Wanted /\ pc = "wait" =>
       \/ calm <= timer
       \/ backoff = ReconnectInitial /\ calm <= Slower + timer
  /\ Wanted /\ pc = "dial" => calm < Recovery

\* After Recovery ticks there is a reading, or a frame that is about to be one.
BackInv ==
  Wanted /\ calm = Recovery =>
    /\ conn = "live"
    /\ pc \in {"read", "publish", "total", "interval", "save"}
    /\ pc = "read" => arrived = "power" \/ (arrived = "none" /\ timer = 0 /\ fresh)
    /\ pc # "read" => arrived = "none" /\ timer = 0
    /\ pc \in {"total", "interval", "save"} => fresh

StreamInv == StoppedInv /\ ConnInv /\ BrokenInv /\ OffInv /\ WaitInv /\ BackInv

LEMMA SlowerFacts ==
  /\ Slower \in Nat
  /\ ReadTimeout <= Slower /\ Interval <= Slower
  /\ Slower + ReconnectInitial < Recovery
  BY Timers DEF Slower, Larger

\* The wait after the connection is found lost ends in time.
LEMMA InTime ==
  ASSUME NEW c \in Nat, NEW t \in Nat, t <= ReconnectInitial, c <= Slower + t
  PROVE  c < Recovery
  BY Timers, SlowerFacts

\* The types that the arithmetic needs.
LEMMA Numbers ==
  ASSUME TypeOK
  PROVE  /\ timer \in Nat /\ backoff \in Nat /\ backoff <= LongestWait
         /\ pollIn \in Nat /\ pollIn <= Interval
         /\ calm \in Nat /\ calm <= Recovery
  BY Timers DEF TypeOK

LEMMA StreamInit == Init => StreamInv
  BY Timers DEF Init, StreamInv, StoppedInv, ConnInv, BrokenInv, OffInv, WaitInv, BackInv, Wanted

\* A disturbance starts the count again, and what it breaks has its time from
\* then on.
LEMMA DisturbanceStep ==
  ASSUME TypeOK, StreamInv,
         Stop \/ Reboot \/ BootDone \/ Drop \/ DialFail \/ EnableTelemetryFail \/ PollerEnds
  PROVE  StreamInv'
<1> USE Timers, SlowerFacts, Numbers
<1> USE DEF StreamInv
<1>1. CASE Stop
  BY <1>1 DEF Stop, pvs6, StoppedInv, ConnInv, BrokenInv, OffInv, WaitInv, BackInv, Wanted
<1>2. CASE Reboot
  BY <1>2 DEF Reboot, Broken, run, poller, StoppedInv, ConnInv, BrokenInv, OffInv, WaitInv, BackInv, Wanted, TypeOK
<1>3. CASE BootDone
  BY <1>3 DEF BootDone, link, run, poller, StoppedInv, ConnInv, BrokenInv, OffInv, WaitInv, BackInv, Wanted
<1>4. CASE Drop
  BY <1>4 DEF Drop, Broken, pvs6, run, poller, StoppedInv, ConnInv, BrokenInv, OffInv, WaitInv, BackInv, Wanted, TypeOK
<1>5. CASE DialFail
  BY <1>5 DEF DialFail, pvs6, link, poller, StoppedInv, ConnInv, BrokenInv, OffInv, WaitInv, BackInv, Wanted
<1>6. CASE EnableTelemetryFail
  BY <1>6 DEF EnableTelemetryFail, NextPoll, pvs6, link, run, StoppedInv, ConnInv, BrokenInv, OffInv, WaitInv, BackInv, Wanted
<1>7. CASE PollerEnds
  BY <1>7 DEF PollerEnds, pvs6, link, run, StoppedInv, ConnInv, BrokenInv, OffInv, WaitInv, BackInv, Wanted
<1>8. QED
  BY <1>1, <1>2, <1>3, <1>4, <1>5, <1>6, <1>7

\* What the programs do in between takes no time.
LEMMA ProgramStep ==
  ASSUME TypeOK, StreamInv,
         \/ Start \/ DialOK \/ Lost \/ Reconnect \/ EnableTelemetryOK
         \/ Ignore \/ Receive \/ Publish \/ AddTotal \/ AddInterval \/ Saved
         \/ SwapInterval \/ Report
  PROVE  StreamInv'
<1> USE Timers, SlowerFacts, Numbers
<1> USE DEF StreamInv
<1>1. CASE Start
  BY <1>1 DEF Start, pvs6, link, StoppedInv, ConnInv, BrokenInv, OffInv, WaitInv, BackInv, Wanted
<1>2. CASE DialOK
  BY <1>2 DEF DialOK, pvs6, poller, StoppedInv, ConnInv, BrokenInv, OffInv, WaitInv, BackInv, Wanted
<1>3. CASE Lost
  <2>1. calm <= timer \/ (Wanted => calm <= Interval)
    BY <1>3 DEF Lost, BrokenInv, ConnInv, OffInv, TypeOK
  <2>2. Wanted => calm <= Slower
    BY <1>3, <2>1 DEF Lost, WaitInv
  <2>3. Wanted' = Wanted
    BY <1>3 DEF Lost, Wanted, pvs6, poller
  <2>4. WaitInv' /\ BackInv'
    BY <1>3, <2>2, <2>3 DEF Lost, ResetBackoff, WaitInv, BackInv
  <2>5. QED
    BY <1>3, <2>4 DEF Lost, pvs6, poller, StoppedInv, ConnInv, BrokenInv, OffInv
<1>4. CASE Reconnect
  BY <1>4 DEF Reconnect, pvs6, link, poller, StoppedInv, ConnInv, BrokenInv, OffInv, WaitInv, BackInv, Wanted
<1>5. CASE EnableTelemetryOK
  BY <1>5 DEF EnableTelemetryOK, link, run, StoppedInv, ConnInv, BrokenInv, OffInv, WaitInv, BackInv, Wanted
<1>6. CASE Ignore \/ Receive
  BY <1>6 DEF Ignore, Receive, pvs6, poller, StoppedInv, ConnInv, BrokenInv, OffInv, WaitInv, BackInv, Wanted
<1>7. CASE Publish \/ Saved
  BY <1>7 DEF Publish, Saved, pvs6, link, poller, StoppedInv, ConnInv, BrokenInv, OffInv, WaitInv, BackInv, Wanted
<1>8. CASE AddTotal \/ AddInterval
  BY <1>8 DEF AddTotal, AddInterval, pvs6, link, poller, StoppedInv, ConnInv, BrokenInv, OffInv, WaitInv, BackInv, Wanted
<1>9. CASE SwapInterval \/ Report
  BY <1>9 DEF SwapInterval, Report, pvs6, link, run, poller, StoppedInv, ConnInv, BrokenInv, OffInv, WaitInv, BackInv, Wanted
<1>10. QED
  BY <1>1, <1>2, <1>3, <1>4, <1>5, <1>6, <1>7, <1>8, <1>9

\* A tick counts when nothing hangs, and then something is nearer.
LEMMA TickStep == TypeOK /\ StreamInv /\ Tick => StreamInv'
<1> SUFFICES ASSUME TypeOK, StreamInv, Tick PROVE StreamInv'
  OBVIOUS
<1> USE Timers, SlowerFacts, Numbers
<1>1. /\ calm' = 0 \/ calm' <= calm + 1
      /\ calm' # 0 => pc \in {"read", "wait"} /\ (polling => pollIn > 0)
      /\ calm' \in Nat /\ timer' \in Nat
  <2> timer' \in Nat
    BY DEF Tick
  <2>1. CASE up /\ ~Hanging
    <3>1. calm' <= calm + 1 /\ calm' \in Nat
      BY <2>1, CalmType DEF Tick, TypeOK
    <3>2. pc \in {"read", "wait"} /\ (polling => pollIn > 0)
      BY <2>1 DEF Tick, Quiet, Hanging, TypeOK
    <3>3. QED
      BY <3>1, <3>2
  <2>2. CASE ~(up /\ ~Hanging)
    BY <2>2 DEF Tick
  <2>3. QED
    BY <2>1, <2>2
<1>2. /\ pc' = pc /\ conn' = conn /\ backoff' = backoff
      /\ telemetry' = telemetry /\ polling' = polling
      /\ Wanted' = Wanted
  BY DEF Tick, pvs6, Wanted
<1>3. StoppedInv'
  BY <1>1, <1>2 DEF StreamInv, StoppedInv
<1>4. ConnInv'
  BY <1>1, <1>2 DEF Tick, Arriving, StreamInv, ConnInv
<1>5. BrokenInv'
  BY <1>1, <1>2 DEF Tick, Quiet, Arriving, StreamInv, BrokenInv, ConnInv
<1>6. polling' /\ ~telemetry' => calm' + pollIn' <= Interval
  BY <1>1, <1>2 DEF Tick, StreamInv, OffInv
<1>7. OffInv'
  <2>1. ASSUME Wanted, conn = "live", arrived' # "power" \/ pc # "read" PROVE calm' <= Interval \/ pc # "read"
    BY <2>1, <1>1, <1>2, <1>6 DEF Tick, Quiet, Arriving, Wanted
  <2>2. QED
    BY <1>2, <1>6, <2>1 DEF OffInv
<1>8. WaitInv'
  BY <1>1, <1>2 DEF Tick, Quiet, StreamInv, WaitInv
<1>9. BackInv'
  <2>1. SUFFICES ASSUME Wanted, calm' = Recovery PROVE BackInv'
    BY <1>2 DEF BackInv
  <2>2. pc = "read"
    <3>1. pc \in {"read", "wait"}
      BY <1>1, <2>1
    <3>2. ASSUME pc = "wait" PROVE FALSE
      <4>1. pc' = "wait" /\ Wanted'
        BY <1>2, <2>1, <3>2
      <4>2. timer' <= backoff
        BY <1>2, <1>8, <4>1 DEF WaitInv
      <4>3. calm' <= timer' \/ (backoff = ReconnectInitial /\ calm' <= Slower + timer')
        BY <1>2, <1>8, <4>1 DEF WaitInv
      <4>4. calm' \in Nat /\ timer' \in Nat /\ backoff \in 1 .. LongestWait
        BY <1>1 DEF TypeOK
      <4>5. ~(calm' <= timer')
        BY <2>1, <4>2, <4>4
      <4>6. ~(backoff = ReconnectInitial /\ calm' <= Slower + timer')
        <5> SUFFICES ASSUME backoff = ReconnectInitial, calm' <= Slower + timer'
                     PROVE  FALSE
          OBVIOUS
        <5>1. timer' <= ReconnectInitial
          BY <4>2
        <5>2. calm' < Recovery
          BY <4>4, <5>1, InTime
        <5>3. QED
          BY <2>1, <4>4, <5>2
      <4>7. QED
        BY <4>3, <4>5, <4>6, Zenon
    <3>3. QED
      BY <3>1, <3>2
  <2>3. conn = "live"
    BY <1>1, <1>2, <1>4, <1>5, <1>8, <2>1, <2>2 DEF ConnInv, BrokenInv, WaitInv, TypeOK
  <2>4. telemetry
    BY <1>2, <1>6, <2>1, Numbers DEF Wanted, Tick
  <2>5. arrived' = "power"
    BY <2>2, <2>3, <2>4 DEF Tick, Quiet, Arriving
  <2>6. QED
    BY <1>2, <2>2, <2>3, <2>5 DEF BackInv
<1>10. QED
  BY <1>3, <1>4, <1>5, <1>7, <1>8, <1>9 DEF StreamInv

LEMMA StreamStep == TypeOK /\ StreamInv /\ [Next]_vars => StreamInv'
<1> SUFFICES ASSUME TypeOK, StreamInv, [Next]_vars PROVE StreamInv'
  OBVIOUS
<1>1. CASE UNCHANGED vars
  BY <1>1 DEF vars, StreamInv, StoppedInv, ConnInv, BrokenInv, OffInv, WaitInv, BackInv, Wanted
<1>2. QED
  BY <1>1, DisturbanceStep, ProgramStep, TickStep DEF Next

\* For whatever timeouts and intervals the daemon is given, it is back at the
\* stream Recovery ticks after the last thing that went wrong, from whatever
\* state that has left behind.
THEOREM StreamRecovers == Spec => []StreamComesBack
<1>1. TypeOK /\ StreamInv => StreamComesBack
  BY Timers DEF StreamInv, BackInv, Wanted, StreamComesBack, Quiet
<1>2. QED
  BY <1>1, TypeInit, TypeStep, StreamInit, StreamStep, PTL DEF Spec
=============================================================================

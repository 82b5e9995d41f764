-------------------------------- MODULE Mimir --------------------------------
(***************************************************************************)
(* mimir: the loop of the bar (run_bar in main.rs) and its blocks          *)
(* (blocks/), between swaybar, which sends the clicks and shows the        *)
(* statuses, and the kernel, which counts. Blocks without a memory are     *)
(* one reading each.                                                       *)
(***************************************************************************)
EXTENDS Naturals, Sequences, FiniteSets, SequencesExt, Functions, TLC

CONSTANTS
  Order,       \* Config.order: the blocks, from left to right
  Lines,       \* the lines of /proc/stat, "cpu" first
  Ifaces,      \* the interfaces shown
  Readings,    \* what a block without a memory may read, with Nothing for a failure
  Bindings,    \* pairs of a block and a button that run a command
  Warn, Critical,   \* of each block
  Interval,    \* interval_ms
  MaxTime, MaxClicks,   \* bounds
  Nothing

VARIABLES
  now,
  jiffies,   \* [idle, total] of each line
  bytes,     \* what each interface carried, and whether it is there
  prev,      \* Cpu.prev and Net.prev; Nothing before the first tick
  expanded,  \* the blocks that show more; "net" is by interface
  lastTick,
  wait,      \* where the loop is, and what it was woken by
  rx,        \* clicks not handled
  clicks,    \* clicks so far
  status,    \* the last array written
  spawned    \* commands run

kernel == <<now, jiffies, bytes>>
bar == <<prev, expanded, lastTick, wait, status, spawned>>
vars == <<kernel, bar, rx, clicks>>

Plain == Range(Order) \ {"cpu", "net"}
Click == [name : Range(Order) \cup {Nothing}, instance : Ifaces \cup {Nothing}, button : {1, 3}]

-----------------------------------------------------------------------------
(* The blocks. *)

\* Level::from_high; the battery's from_low
Level(block, value) ==
  IF block = "battery"
  THEN IF value <= Critical[block] THEN "Critical" ELSE IF value <= Warn[block] THEN "Warn" ELSE "Normal"
  ELSE IF value >= Critical[block] THEN "Critical" ELSE IF value >= Warn[block] THEN "Warn" ELSE "Normal"

\* busy_pct: Nothing if the counters did not advance, or went back
Busy(line) ==
  LET dt == jiffies[line].total - prev.cpu[line].total
      di == jiffies[line].idle - prev.cpu[line].idle
  IN IF prev = Nothing THEN Nothing
     ELSE IF jiffies[line].total <= prev.cpu[line].total \/ jiffies[line].idle < prev.cpu[line].idle THEN Nothing
     ELSE IF di > dt THEN 0 ELSE (100 * (dt - di)) \div dt

CpuSegment(more) ==
  [pct |-> Busy("cpu"), level |-> IF Busy("cpu") = Nothing THEN "Normal" ELSE Level("cpu", Busy("cpu")),
   cores |-> IF "cpu" \in more THEN [l \in Lines \ {"cpu"} |-> Busy(l)] ELSE <<>>]

\* rates: a counter that went back reads as 0
Rate(iface, dt) ==
  IF prev = Nothing \/ dt = 0 \/ iface \notin DOMAIN prev.net THEN Nothing
  ELSE LET carried == IF iface \in DOMAIN bytes THEN bytes[iface] ELSE 0 IN
       IF carried < prev.net[iface] THEN 0 ELSE (carried - prev.net[iface]) \div dt

\* render of each block; value_color follows the level
Render(more, dt) == {[i \in DOMAIN Order |->
    CASE Order[i] = "cpu" -> CpuSegment(more)
      [] Order[i] = "net" -> [f \in Ifaces |-> IF f \in more THEN "address" ELSE Rate(f, dt)]
      [] OTHER -> IF reading[Order[i]] = Nothing THEN Nothing
                  ELSE [value |-> reading[Order[i]], level |-> Level(Order[i], reading[Order[i]]),
                        more |-> Order[i] \in more]] : reading \in [Plain -> Readings]}

Counters == [cpu |-> jiffies, net |-> bytes]

-----------------------------------------------------------------------------
(* The loop. *)

\* sample with advance, and write_status
Tick ==
  /\ wait.at = "Top"
  /\ status' \in Render(expanded, now - lastTick)
  /\ prev' = Counters /\ lastTick' = now
  /\ wait' = [wait EXCEPT !.at = "Wait"]
  /\ UNCHANGED <<kernel, expanded, rx, clicks, spawned>>

\* recv_timeout runs out
Timeout ==
  /\ wait.at = "Wait" /\ rx = <<>> /\ now >= lastTick + Interval
  /\ wait' = [at |-> "Top", by |-> "Timer"]
  /\ UNCHANGED <<kernel, prev, expanded, lastTick, status, spawned, rx, clicks>>

\* on_click of a block: only the left button does something, and a block
\* that keeps no more to show ignores it.
Toggled(ev) ==
  LET what == IF ev.button # 1 THEN {}
              ELSE IF ev.name = "net" THEN {ev.instance} \ {Nothing}
              ELSE {ev.name} \ {Nothing, "load", "thermal", "power"}
  IN (expanded \ what) \cup (what \ expanded)

\* A click is handled and shown at once.
Clicked ==
  /\ wait.at = "Wait" /\ rx # <<>>
  /\ LET ev == Head(rx)
         command == <<ev.name, ev.button>> \in Bindings
     IN /\ expanded' = IF command THEN expanded ELSE Toggled(ev)
        /\ spawned' = IF command THEN spawned + 1 ELSE spawned
  /\ status' \in Render(expanded', now - lastTick)
  /\ rx' = Tail(rx) /\ wait' = [at |-> "Top", by |-> "Click"]
  /\ UNCHANGED <<kernel, prev, lastTick, clicks>>

\* swaybar closes the pipe: the next write fails
Closed == wait.at # "Done" /\ wait' = [wait EXCEPT !.at = "Done"]
          /\ UNCHANGED <<kernel, prev, expanded, lastTick, status, spawned, rx, clicks>>

\* read_clicks; a line that is not a click is left out
Receive == \E ev \in Click :
  /\ clicks < MaxClicks /\ clicks' = clicks + 1
  /\ rx' = Append(rx, ev)
  /\ UNCHANGED <<kernel, bar>>

Count == \E busy \in 0..1, load \in 0..1 :
  /\ now < MaxTime /\ now' = now + 1
  /\ jiffies' = [l \in Lines |-> [idle |-> jiffies[l].idle + 1 - busy, total |-> jiffies[l].total + 1]]
  /\ bytes' = [f \in DOMAIN bytes |-> bytes[f] + load]
  /\ UNCHANGED <<bar, rx, clicks>>

\* An interface comes or goes, its counter starting again.
Replug == \E f \in Ifaces :
  /\ now < MaxTime
  /\ bytes' = IF f \in DOMAIN bytes THEN [g \in DOMAIN bytes \ {f} |-> bytes[g]] ELSE (f :> 0) @@ bytes
  /\ UNCHANGED <<now, jiffies, bar, rx, clicks>>

Init ==
  /\ now = 0 /\ jiffies = [l \in Lines |-> [idle |-> 0, total |-> 0]] /\ bytes = [f \in Ifaces |-> 0]
  /\ prev = Nothing /\ expanded = {} /\ lastTick = 0 /\ wait = [at |-> "Top", by |-> "Start"]
  /\ rx = <<>> /\ clicks = 0 /\ status = <<>> /\ spawned = 0

Next == Tick \/ Timeout \/ Clicked \/ Closed \/ Receive \/ Count \/ Replug

Spec == Init /\ [][Next]_vars

-----------------------------------------------------------------------------
(***************************************************************************)
(* What the comment on Ctx.advance promises: the counters a usage or a     *)
(* rate is measured from move on when the timer ticks, never because of a  *)
(* click, so that a click cannot make the next rate that of an instant.    *)
(***************************************************************************)
ClickKeepsBaseline == [][prev' # prev => wait.by # "Click"]_vars
=============================================================================

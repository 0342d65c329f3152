------------------------------ MODULE Collector ------------------------------
(* The overlay's sampling process (sysmon/collector.py): loads from the        *)
(* difference of two readings of counters that only the kernel writes. Disks   *)
(* come and go, a reading can fail, and two samples can have the same time.    *)
EXTENDS Integers

CONSTANTS Disks,     \* the disks it was configured with or found at its start
          Full,      \* a load of 100 %
          MaxWork, MaxTicks, MaxFaults

CollectorAssumption == Full \in Nat /\ MaxWork \in Nat /\ MaxTicks \in Nat /\ MaxFaults \in Nat

NA == -1
Nothing == -2   \* no earlier sample

VARIABLES counter,  \* [Disks -> sectors since the disk is there, NA without it]
          busy, total, \* the CPU's jiffies
          clock,
          lastDisks, lastCpu, lastTime, \* _diskstats, _cpu, _time
          load,     \* [Disks -> percent shown last, or NA]
          cpuLoad,  \* percent shown last, or NA
          moved,    \* [Disks -> sectors moved since the last sample]
          spent,    \* jiffies the CPU was busy since the last sample
          span,     \* [Disks -> sectors moved in the interval of the last sample]
          cpuSpan, interval, \* the same of the CPU, and how long it was
          faults
vars == <<counter, busy, total, clock, lastDisks, lastCpu, lastTime, load, cpuLoad, moved,
          spent, span, cpuSpan, interval, faults>>

Least(a, b) == IF a < b THEN a ELSE b
Most(a, b) == IF a > b THEN a ELSE b
Fault == faults < MaxFaults /\ faults' = faults + 1

(* disk_percent(): a counter that went backwards is no load.                   *)
DiskPercent(before, after, elapsed) ==
    IF elapsed <= 0 THEN 0 ELSE Least(Full, (Most(0, after - before) * Full) \div elapsed)

(* cpu_percent() of busy and total jiffies.                                    *)
CpuPercent(before, after) ==
    LET passed == after.total - before.total IN
    IF passed <= 0 THEN 0 ELSE Least(Full, (Most(0, after.busy - before.busy) * Full) \div passed)

NoCpu == [busy |-> Nothing, total |-> Nothing]
NoDisks == [d \in Disks |-> Nothing]

Init == /\ counter \in [Disks -> {NA, 0}] /\ busy = 0 /\ total = 0 /\ clock = 0
        /\ lastDisks = NoDisks /\ lastCpu = NoCpu /\ lastTime = Nothing
        /\ load = [d \in Disks |-> NA] /\ cpuLoad = NA
        /\ moved = [d \in Disks |-> 0] /\ spent = 0
        /\ span = moved /\ cpuSpan = 0 /\ interval = 0
        /\ faults = 0

Unsampled == UNCHANGED <<lastDisks, lastCpu, lastTime, load, cpuLoad, span, cpuSpan, interval>>

(* The machine: sectors are moved, time passes, disks are pulled and put in.   *)
Transfer(d) == /\ counter[d] \in 0..(MaxWork - 1)
               /\ counter' = [counter EXCEPT ![d] = @ + 1]
               /\ moved' = [moved EXCEPT ![d] = @ + 1]
               /\ Unsampled /\ UNCHANGED <<busy, total, clock, spent, faults>>
Tick(n) == /\ clock < MaxTicks
           /\ clock' = clock + 1
           /\ total' = total + 1 /\ busy' = busy + n /\ spent' = spent + n
           /\ Unsampled /\ UNCHANGED <<counter, moved, faults>>
Replug(d) == /\ Fault
             /\ counter' = [counter EXCEPT ![d] = IF @ = NA THEN 0 ELSE NA]
             /\ Unsampled /\ UNCHANGED <<busy, total, clock, moved, spent>>

(* (mutant) The last good reading is kept over one that failed.                *)
ReadingKept(ok) == [d \in Disks |-> IF ~ok THEN lastDisks[d]
                                    ELSE IF counter[d] # NA THEN counter[d] ELSE Nothing]

(* read_diskstats(): disks that are not there have no line.                    *)
Reading(ok) == [d \in Disks |-> IF ok /\ counter[d] # NA THEN counter[d] ELSE Nothing]

(* _disk_segment()                                                             *)
DiskLoad(d, reading, elapsed) ==
    IF reading[d] = Nothing THEN NA
    ELSE IF lastDisks[d] = Nothing \/ elapsed = Nothing THEN 0
    ELSE DiskPercent(lastDisks[d], reading[d], elapsed)

(* segments(): one sample, in which either file may not be readable.           *)
Sample(disksOk, cpuOk) ==
    LET elapsed == IF lastTime = Nothing THEN Nothing ELSE clock - lastTime
        cpu == IF cpuOk THEN [busy |-> busy, total |-> total] ELSE NoCpu
    IN /\ lastTime' = clock
       /\ lastDisks' = Reading(disksOk)
       /\ load' = [d \in Disks |-> DiskLoad(d, lastDisks', elapsed)]
       /\ lastCpu' = cpu
       /\ cpuLoad' = IF ~cpuOk THEN NA ELSE IF lastCpu = NoCpu THEN 0 ELSE CpuPercent(lastCpu, cpu)
       /\ IF disksOk /\ cpuOk THEN UNCHANGED faults ELSE Fault
       /\ span' = moved /\ cpuSpan' = spent
       /\ interval' = IF elapsed = Nothing THEN 0 ELSE elapsed
       /\ moved' = [d \in Disks |-> 0] /\ spent' = 0
       /\ UNCHANGED <<counter, busy, total, clock>>

Next == \/ \E d \in Disks : Transfer(d) \/ Replug(d)
        \/ \E n \in {0, 1} : Tick(n)
        \/ \E disksOk, cpuOk \in BOOLEAN : Sample(disksOk, cpuOk)

Spec == Init /\ [][Next]_vars

-----------------------------------------------------------------------------
(* The types: counters, spans and times are natural numbers, and what has not  *)
(* been read is marked, in the loads too.                                      *)
TypeOK ==
    /\ {busy, total, clock, spent, cpuSpan, interval, faults} \subseteq Nat
    /\ counter \in [Disks -> Nat \cup {NA}]
    /\ {moved, span} \subseteq [Disks -> Nat]
    /\ lastDisks \in [Disks -> Nat \cup {Nothing}]
    /\ lastTime \in Nat \cup {Nothing}
    /\ lastCpu \in [busy : Nat, total : Nat] \cup {NoCpu}
    /\ load \in [Disks -> Nat \cup {NA}] /\ cpuLoad \in Nat \cup {NA}

(* Every load that is shown is one of the interval before it: nothing that     *)
(* happened before the sample before is counted again, whatever was not        *)
(* readable or not there meanwhile, and no load leaves 0 to 100 %.             *)
LoadsAreRecent ==
    /\ \A d \in Disks : load[d] # NA =>
          load[d] \in 0..(IF interval = 0 THEN 0 ELSE Least(Full, (span[d] * Full) \div interval))
    /\ cpuLoad # NA => cpuLoad \in 0..(IF interval = 0 THEN 0 ELSE (cpuSpan * Full) \div interval)
=============================================================================

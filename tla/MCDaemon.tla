------------------------------ MODULE MCDaemon ------------------------------
(***************************************************************************)
(* Small instances of Daemon for TLC.  Sizes are in units of MiB = 4 and   *)
(* GiB = 64, so that 4G = 256 and 6G = 384.                                *)
(***************************************************************************)
EXTENDS DaemonProperties

MCSlice == {"browsers.slice", "heavy.slice", "rescue.slice", "work.slice"}

Spec4G6G == [slice |-> "browsers.slice", memory_high |-> 256, memory_max |-> 384]
Spec6G == [slice |-> "browsers.slice", memory_high |-> None, memory_max |-> 384]
SpecUnsized ==
  [slice |-> "browsers.slice", memory_high |-> None, memory_max |-> None]
HeavySpec == [slice |-> "heavy.slice", memory_high |-> None, memory_max |-> None]
RescueSpec ==
  [slice |-> "rescue.slice", memory_high |-> None, memory_max |-> 64]

\* What resguard setup writes: browsers with MemoryMax only.
AutoProfile == [browsers |-> Spec6G, heavy |-> HeavySpec, rescue |-> RescueSpec]
FullProfile == [browsers |-> Spec4G6G, heavy |-> HeavySpec, rescue |-> RescueSpec]
\* No heavy class, no rescue class.
BrowsersProfile == [browsers |-> Spec6G]
\* A browsers class without a size and a heavy class.
UnsizedProfile == [browsers |-> SpecUnsized, heavy |-> HeavySpec]

\* The heavy class has a slice of its own name.
WorkProfile ==
  [browsers |-> Spec4G6G, rescue |-> RescueSpec,
   heavy |-> [slice |-> "work.slice", memory_high |-> None, memory_max |-> None]]

FixedProfile == {FullProfile}
FullAndWork  == {FullProfile, WorkProfile}
LeanProfile  == {BrowsersProfile}
TwoProfiles  == {AutoProfile, UnsizedProfile}

Reading(mem, cpu, io) == [memory |-> mem, cpu |-> cpu, io |-> io]
CalmReading   == Reading(None, 29, 19)
MemoryReading == Reading(20, 0, None)
HeavyReading  == Reading(0, 30, 20)
FullReading   == Reading(90, 90, 0)

AllMetrics == {CalmReading, MemoryReading, HeavyReading, FullReading}
FewMetrics == {CalmReading, HeavyReading, FullReading}
HeavyMetrics == {CalmReading, HeavyReading, MemoryReading}

Applied(weight) ==
  [ s \in MCSlice |->
      CASE s = "browsers.slice" ->
             [memory_high |-> 256, memory_max |-> 384, cpu_weight |-> 80]
        [] s = "heavy.slice" ->
             [memory_high |-> Infinity, memory_max |-> 512,
              cpu_weight |-> weight]
        [] OTHER ->
             [memory_high |-> Infinity, memory_max |-> 64, cpu_weight |-> 100] ]

AppliedLimits == {Applied(90)}
MixedLimits   == {Applied(90), Applied(None)}

NoTuning  == {}
TwoTunings ==
  {[memory_high |-> Infinity, memory_max |-> Infinity, cpu_weight |-> None],
   [memory_high |-> 2, memory_max |-> 3, cpu_weight |-> 60]}
=============================================================================

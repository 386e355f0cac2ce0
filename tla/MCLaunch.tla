------------------------------ MODULE MCLaunch ------------------------------
(***************************************************************************)
(* Small instances of Launch for TLC.                                      *)
(***************************************************************************)
EXTENDS LaunchProperties

\* A small machine: 700 MiB is where rounding to GiB leaves nothing.
MCMachines == {[total_mem |-> 700, cpu_cores |-> 8]}

Class(slice_name, high, max) ==
  [slice_name |-> slice_name, memory_high |-> high, memory_max |-> max, cpu_weight |-> 100]
Profile(high, max, classes, slices) ==
  [ header_ok |-> TRUE, memory_low |-> NoSize, memory_high |-> high, memory_max |-> max,
    system_cpus |-> NoCpus, user_cpus |-> NoCpus, rules_ok |-> TRUE,
    classes |-> classes, slices |-> slices ]

\* rescue below both classes and slices, with different slices, and browsers
\* below slices only.
Mixed ==
  Profile(<<2, "G">>, <<3, "G">>,
    [rescue |-> Class(<<"my", ".", "slice">>, NoSize, <<1, "G">>)],
    [rescue |-> Class(NoName, NoSize, <<1, "G">>),
     browsers |-> Class(<<"web", ".", "slice">>, <<512, "M">>, <<1, "G">>)])
\* MemoryHigh above MemoryMax, in other units.
Invalid == Profile(<<2, "G">>, <<512, "M">>, <<>>, <<>>)
MCHandWritten == {Mixed, Invalid}
MCStores == {[auto |-> Absent, hand |-> Mixed]}

Setup(name, apply) == [NoJob EXCEPT !.op = "setup", !.name = name, !.apply = apply]
Apply(name, no_classes) ==
  [NoJob EXCEPT !.op = "apply", !.name = name, !.no_classes = no_classes]
Rollback == [NoJob EXCEPT !.op = "rollback"]
RunOf(mode, class, exec) ==
  [NoJob EXCEPT !.op = "run", !.run.mode = mode, !.run.class = class, !.run.exec = exec]
Rescue(mode, class, no_check) ==
  [NoJob EXCEPT !.op = "rescue", !.class = class, !.fallback = no_check,
                !.run.mode = mode, !.run.class = class]

\* One process changes profiles and slices, the other runs programs and may
\* roll back at any time.
MCCommands ==
  ("admin" :>
  { Setup("auto", TRUE), Setup("auto", FALSE), Setup("hand", TRUE), Apply("hand", FALSE), Apply("auto", TRUE),
    Rollback })
  @@ ("user" :>
  { RunOf("user", NoClass, <<<<"firefox">>>>), RunOf("system", NoClass, <<<<"grep">>, <<"code">>>>),
    [RunOf("user", "ide", <<>>) EXCEPT !.run.profile = "hand"],
    [RunOf("user", "ide", <<>>) EXCEPT !.run.slice = <<"my", ".", "slice">>, !.run.wait = TRUE],
    Rescue("user", "rescue", TRUE), Rescue("system", "rescue", FALSE), Rollback })
=============================================================================

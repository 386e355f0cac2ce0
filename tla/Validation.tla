----------------------------- MODULE Validation -----------------------------
(***************************************************************************)
(* validate_profile of resguard-core: the paths of what is wrong with a    *)
(* profile.  A profile has no errors when the set is empty.                *)
(***************************************************************************)
EXTENDS AutoProfile, SequencesExt

Units == [M |-> 1, G |-> Gb, T |-> Gb * Gb]

\* What parse_size_to_bytes can read: a known unit and no overflow.  MaxSize
\* stands for 2^64 bytes.
MaxSize == 1024 * Gb * Gb
Readable(size) == size[2] \in DOMAIN Units /\ size[1] <= MaxSize \div Units[size[2]]
parse_size_to_bytes(size) == size[1] * Units[size[2]]
SizeOk(size) == size = NoSize \/ Readable(size)

\* Mutant: only the order of the numbers counts.
validate_numbers(high, max) == high # NoSize /\ max # NoSize => max[1] >= high[1]

validate_memory(high, max) ==
  high # NoSize /\ max # NoSize =>
    Readable(high) /\ Readable(max) /\ parse_size_to_bytes(max) >= parse_size_to_bytes(high)

parse_cpuset(cpus) == \A range \in cpus : range[1] <= range[2]

IsSliceName(name) ==
  IsSuffix(<<".", "slice">>, name) /\ ~Contains(name, "/") /\ ~Contains(name, "..")

Wrong(ok, path) == IF ok THEN {} ELSE {path}

WeightOk(weight) == weight \in 1..10000

ClassErrors(class, root, c) ==
  Wrong(c # "", <<root>>)
  \cup Wrong(class.slice_name = NoName \/ IsSliceName(class.slice_name), <<root, c, "sliceName">>)
  \cup Wrong(SizeOk(class.memory_high), <<root, c, "memoryHigh">>)
  \cup Wrong(SizeOk(class.memory_max), <<root, c, "memoryMax">>)
  \cup Wrong(validate_memory(class.memory_high, class.memory_max), <<root, c>>)
  \cup Wrong(WeightOk(class.cpu_weight), <<root, c, "cpuWeight">>)

validate_classes(classes, root) == UNION {ClassErrors(classes[c], root, c) : c \in DOMAIN classes}

validate_profile(profile) ==
  Wrong(profile.header_ok, <<"header">>)
  \cup Wrong(SizeOk(profile.memory_low), <<"memory", "low">>)
  \cup Wrong(SizeOk(profile.memory_high), <<"memory", "high">>)
  \cup Wrong(SizeOk(profile.memory_max), <<"memory", "max">>)
  \cup Wrong(validate_memory(profile.memory_high, profile.memory_max), <<"memory", "user">>)
  \cup Wrong(parse_cpuset(profile.system_cpus), <<"cpu", "system">>)
  \cup Wrong(parse_cpuset(profile.user_cpus), <<"cpu", "user">>)
  \cup Wrong(profile.rules_ok, <<"suggest", "rules">>)
  \cup validate_classes(profile.classes, "classes")
  \cup validate_classes(profile.slices, "slices")
=============================================================================

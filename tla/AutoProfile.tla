----------------------------- MODULE AutoProfile ----------------------------
(***************************************************************************)
(* The profile that resguard init and resguard setup build from the memory *)
(* and the cores of the machine.  Memory is counted in MiB.  A size is a   *)
(* text <<number, unit>>, an absent one is NoSize.  A cpuset is a set of   *)
(* ranges <<first, last>>; NoCpus is the absent one.  A name is a sequence *)
(* of words, with - and . as words of their own.  The oomd settings and    *)
(* the names of profiles are left out.                                     *)
(***************************************************************************)
EXTENDS Integers, Sequences

Gb     == 1024
NoSize == <<>>
NoCpus == {}
NoName == <<>>

format_bytes_binary(mib) == IF mib >= Gb THEN <<mib \div Gb, "G">> ELSE <<mib, "M">>

default_reserve_bytes(total) ==
  IF total \div Gb <= 9 THEN Gb
  ELSE IF total \div Gb <= 19 THEN 2 * Gb
  ELSE IF total \div Gb <= 39 THEN 4 * Gb
  ELSE 6 * Gb

Smaller(a, b) == IF a <= b THEN a ELSE b
Larger(a, b)  == IF a >= b THEN a ELSE b
clamp(value, low, high) == Smaller(Larger(value, low), high)

round_down_to_step(value, step) == (value \div step) * step
round_up_to_step(value, step)   == ((value + step - 1) \div step) * step
reserve_rounding_step(reserve)  == IF reserve >= 2 * Gb THEN Gb ELSE 256

\* Rounded down to GiB, or by another rule where that leaves nothing.
WholeGb(value, otherwise) ==
  IF round_down_to_step(value, Gb) = 0 THEN otherwise ELSE round_down_to_step(value, Gb)

Reserve(total) ==
  LET base == Smaller(default_reserve_bytes(total), total)
  IN  Smaller(round_up_to_step(base, reserve_rounding_step(base)), total)
UserMax(total)  == WholeGb(total - Reserve(total), round_down_to_step(total, 256))
UserHigh(total) ==
  WholeGb(UserMax(total) - Smaller(UserMax(total) \div 10, 2 * Gb), UserMax(total))

\* Mutant: the hard cap is not held against the user's memory.
class_cap_uncapped(user_max, pct, hard_cap) ==
  clamp(round_up_to_step((user_max * pct) \div 100, Gb), Gb, hard_cap)
class_cap_percent(user_max, pct, hard_cap) ==
  clamp(round_up_to_step((user_max * pct) \div 100, Gb),
        Smaller(Gb, user_max), Smaller(hard_cap, user_max))

BrowsersMax(user_max) == class_cap_percent(user_max, 40, 6 * Gb)
IdeMax(user_max)      == class_cap_percent(user_max, 25, 4 * Gb)
HeavyMax(user_max) ==
  LET rest == Larger(user_max - (BrowsersMax(user_max) + IdeMax(user_max)), 0)
      cap  == IF rest = 0 THEN Smaller(Gb, user_max)
              ELSE WholeGb(rest, round_down_to_step(rest, 256))
  IN  Smaller(Smaller(cap, 8 * Gb), user_max)

default_slice(class) == <<"resguard", "-", class, ".", "slice">>

ClassSpec(slice_name, memory_max, cpu_weight) ==
  [ slice_name |-> slice_name, memory_high |-> NoSize, memory_max |-> memory_max,
    cpu_weight |-> cpu_weight ]
AutoClasses == {"browsers", "ide", "heavy", "rescue"}
AutoClass(class, user_max) ==
  ClassSpec(default_slice(class),
            CASE class = "browsers" -> format_bytes_binary(BrowsersMax(user_max))
              [] class = "ide"      -> format_bytes_binary(IdeMax(user_max))
              [] class = "heavy"    -> format_bytes_binary(HeavyMax(user_max))
              [] class = "rescue"   -> <<1, "G">>,
            CASE class = "browsers" -> 80 [] class = "ide" -> 70
              [] class = "heavy" -> 90 [] class = "rescue" -> 100)

build_auto_profile(machine) ==
  LET total == machine.total_mem isolated == machine.cpu_cores >= 4 IN
  [ header_ok |-> TRUE,
    memory_low |-> format_bytes_binary(Reserve(total)),
    memory_high |-> format_bytes_binary(UserHigh(total)),
    memory_max |-> format_bytes_binary(UserMax(total)),
    system_cpus |-> IF isolated THEN {<<0, 0>>} ELSE NoCpus,
    user_cpus |-> IF isolated THEN {<<1, machine.cpu_cores - 1>>} ELSE NoCpus,
    rules_ok |-> TRUE,
    classes |-> [class \in AutoClasses |-> AutoClass(class, UserMax(total))],
    slices |-> <<>> ]
=============================================================================

------------------------ MODULE AutoProfileProperties -----------------------
(***************************************************************************)
(* How the sizes of an automatic profile fit the machine and each other.   *)
(***************************************************************************)
EXTENDS Validation

InMiB(size) == parse_size_to_bytes(size)

\* The limit of a class alone never makes all of user.slice throttle; rescue
\* has a fixed size and is excepted (class_cap_percent, round_down_to_step).
ClassesBelowHigh(profile) ==
  \A class \in AutoClasses \ {"rescue"} :
    InMiB(profile.classes[class].memory_max) <= InMiB(profile.memory_high)

\* MemoryHigh is not above MemoryMax, as validate_memory asks for.
HighBelowMax(profile) == InMiB(profile.memory_high) <= InMiB(profile.memory_max)

\* No limit is above the memory of the machine, and from 2 GiB on what is kept
\* for the system is not promised to the users as well.
ReserveIsKept(profile, total) ==
  /\ InMiB(profile.memory_low) <= total /\ InMiB(profile.memory_max) <= total
  /\ total >= 2 * Gb => InMiB(profile.memory_low) + InMiB(profile.memory_max) <= total

LimitsFit(profile, total) ==
  ClassesBelowHigh(profile) /\ HighBelowMax(profile) /\ ReserveIsKept(profile, total)
=============================================================================

-------------------------- MODULE AutoProfileProofs -------------------------
(***************************************************************************)
(* The sizes of automatic profiles, for every machine.                     *)
(***************************************************************************)
EXTENDS AutoProfileProperties, TLAPS

\* What a printed size is read as: whole GiB, or MiB below one GiB.
LEMMA PrintedSize ==
  ASSUME NEW m \in Nat
  PROVE  InMiB(format_bytes_binary(m)) = IF m >= 1024 THEN (m \div 1024) * 1024 ELSE m
BY DEF InMiB, format_bytes_binary, parse_size_to_bytes, Units, Gb

\* Printing never makes a size larger.
LEMMA PrintingRoundsDown ==
  ASSUME NEW m \in Nat
  PROVE  InMiB(format_bytes_binary(m)) \in Nat /\ InMiB(format_bytes_binary(m)) <= m
BY PrintedSize

\* A larger size is not printed as a smaller one.
LEMMA PrintingIsMonotone ==
  ASSUME NEW m \in Nat, NEW n \in Nat, m <= n
  PROVE  InMiB(format_bytes_binary(m)) <= InMiB(format_bytes_binary(n))
BY PrintedSize

\* The reserve fits the machine, and from 2 GiB on leaves the users a GiB.
LEMMA ReserveBounds ==
  ASSUME NEW total \in Nat
  PROVE  /\ Reserve(total) \in Nat /\ Reserve(total) <= total
         /\ total >= 2048 => Reserve(total) + 1024 <= total
BY SMTT(60) DEF Reserve, default_reserve_bytes, Smaller, Larger, round_up_to_step, reserve_rounding_step, Gb

\* What the users get, with the granularity that the caps of the classes rely on.
LEMMA UserMaxBounds ==
  ASSUME NEW total \in Nat
  PROVE  /\ UserMax(total) \in Nat /\ UserMax(total) <= total
         /\ total >= 2048 => Reserve(total) + UserMax(total) <= total
         /\ (UserMax(total) % 1024 = 0 \/ UserMax(total) < 2048)
         /\ UserMax(total) % 256 = 0
BY ReserveBounds, SMTT(60) DEF UserMax, WholeGb, round_down_to_step, Gb

\* MemoryHigh of the users as a function of their maximum.
HighFor(u) == WholeGb(u - Smaller(u \div 10, 2 * Gb), u)

\* The margin below the maximum is never negative.
LEMMA UserHighBounds ==
  ASSUME NEW u \in Nat
  PROVE  HighFor(u) \in Nat /\ HighFor(u) <= u
BY SMTT(60) DEF HighFor, WholeGb, round_down_to_step, Smaller, Gb

\* The cap of the browsers is rounded up, yet stays at or below MemoryHigh.
LEMMA BrowsersBelowHigh ==
  ASSUME NEW u \in Nat, u % 256 = 0, u % 1024 = 0 \/ u < 2048
  PROVE  BrowsersMax(u) \in Nat /\ BrowsersMax(u) <= HighFor(u)
BY SMTT(100) DEF BrowsersMax, class_cap_percent, clamp, Smaller, Larger, round_up_to_step, HighFor, WholeGb,
   round_down_to_step, Gb

\* And so does the cap of the programmers' tools.
LEMMA IdeBelowHigh ==
  ASSUME NEW u \in Nat, u % 256 = 0, u % 1024 = 0 \/ u < 2048
  PROVE  IdeMax(u) \in Nat /\ IdeMax(u) <= HighFor(u)
BY SMTT(100) DEF IdeMax, class_cap_percent, clamp, Smaller, Larger, round_up_to_step, HighFor, WholeGb,
   round_down_to_step, Gb

\* Each of the two caps takes a GiB, or all there is.
LEMMA CapsFillAGb ==
  ASSUME NEW u \in Nat
  PROVE  /\ BrowsersMax(u) \in Nat /\ IdeMax(u) \in Nat
         /\ BrowsersMax(u) >= Smaller(1024, u) /\ IdeMax(u) >= Smaller(1024, u)
BY SMTT(60) DEF BrowsersMax, IdeMax, class_cap_percent, clamp, Smaller, Larger, round_up_to_step, Gb

\* Heavy programs get what the other two caps leave, which is below MemoryHigh.
LEMMA HeavyBelowHigh ==
  ASSUME NEW u \in Nat, u % 256 = 0, u % 1024 = 0 \/ u < 2048
  PROVE  HeavyMax(u) \in Nat /\ HeavyMax(u) <= HighFor(u)
<1> DEFINE rest == Larger(u - (BrowsersMax(u) + IdeMax(u)), 0)
           cap  == IF rest = 0 THEN Smaller(1024, u) ELSE WholeGb(rest, round_down_to_step(rest, 256))
<1>1. rest \in Nat /\ (rest # 0 => rest <= u - 2048)
  BY CapsFillAGb DEF Smaller, Larger
<1>2. cap \in Nat /\ (rest = 0 => cap = Smaller(1024, u)) /\ (rest # 0 => cap <= rest)
  <2> HIDE DEF rest
  <2> QED BY <1>1 DEF WholeGb, round_down_to_step, Smaller, Gb
<1>3. HeavyMax(u) = Smaller(Smaller(cap, 8192), u)
  BY DEF HeavyMax, Gb
<1>4. HighFor(u) \in Nat /\ HighFor(u) >= Smaller(1024, u) /\ (u >= 2048 => HighFor(u) >= u - 2048)
  BY DEF HighFor, WholeGb, round_down_to_step, Smaller, Gb
<1> HIDE DEF rest, cap
<1> QED BY <1>1, <1>2, <1>3, <1>4 DEF Smaller

\* For every machine the limits of the automatic profile fit the machine and
\* each other (build_auto_profile).
THEOREM AutoLimitsFit ==
  ASSUME NEW total \in Nat, NEW cores \in Nat
  PROVE  LimitsFit(build_auto_profile([total_mem |-> total, cpu_cores |-> cores]), total)
<1> DEFINE u == UserMax(total)
           profile == build_auto_profile([total_mem |-> total, cpu_cores |-> cores])
<1>1. /\ u \in Nat /\ u <= total /\ u % 256 = 0
      /\ u % 1024 = 0 \/ u < 2048
      /\ total >= 2048 => Reserve(total) + u <= total
  BY UserMaxBounds
<1>2. UserHigh(total) = HighFor(u)
  BY DEF UserHigh, HighFor
<1>3. HighFor(u) \in Nat /\ HighFor(u) <= u
  BY <1>1, UserHighBounds
<1>4. ClassesBelowHigh(profile)
  <2>1. /\ profile.memory_high = format_bytes_binary(HighFor(u))
        /\ profile.classes["browsers"].memory_max = format_bytes_binary(BrowsersMax(u))
        /\ profile.classes["ide"].memory_max = format_bytes_binary(IdeMax(u))
        /\ profile.classes["heavy"].memory_max = format_bytes_binary(HeavyMax(u))
    BY <1>2 DEF build_auto_profile, AutoClasses, AutoClass, ClassSpec
  <2>2. /\ BrowsersMax(u) \in Nat /\ BrowsersMax(u) <= HighFor(u)
        /\ IdeMax(u) \in Nat /\ IdeMax(u) <= HighFor(u)
        /\ HeavyMax(u) \in Nat /\ HeavyMax(u) <= HighFor(u)
    BY <1>1, BrowsersBelowHigh, IdeBelowHigh, HeavyBelowHigh
  <2>3. /\ InMiB(format_bytes_binary(BrowsersMax(u))) <= InMiB(format_bytes_binary(HighFor(u)))
        /\ InMiB(format_bytes_binary(IdeMax(u))) <= InMiB(format_bytes_binary(HighFor(u)))
        /\ InMiB(format_bytes_binary(HeavyMax(u))) <= InMiB(format_bytes_binary(HighFor(u)))
    BY <1>3, <2>2, PrintingIsMonotone
  <2> HIDE DEF u, profile
  <2> QED BY <2>1, <2>3 DEF ClassesBelowHigh, AutoClasses
<1>5. HighBelowMax(profile)
  <2>1. /\ profile.memory_high = format_bytes_binary(HighFor(u))
        /\ profile.memory_max = format_bytes_binary(u)
    BY <1>2 DEF build_auto_profile
  <2> QED BY <1>1, <1>3, <2>1, PrintingIsMonotone DEF HighBelowMax
<1>6. ReserveIsKept(profile, total)
  <2>1. /\ profile.memory_low = format_bytes_binary(Reserve(total))
        /\ profile.memory_max = format_bytes_binary(u)
    BY DEF build_auto_profile
  <2>2. Reserve(total) \in Nat /\ Reserve(total) <= total
    BY ReserveBounds
  <2>3. /\ InMiB(format_bytes_binary(u)) \in Nat
        /\ InMiB(format_bytes_binary(u)) <= u
        /\ InMiB(format_bytes_binary(Reserve(total))) \in Nat
        /\ InMiB(format_bytes_binary(Reserve(total))) <= Reserve(total)
    BY <1>1, <2>2, PrintingRoundsDown
  <2> HIDE DEF u, profile
  <2> QED BY <1>1, <2>1, <2>2, <2>3 DEF ReserveIsKept, Gb
<1> QED BY <1>4, <1>5, <1>6 DEF LimitsFit
=============================================================================

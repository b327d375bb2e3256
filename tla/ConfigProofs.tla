---------------------------- MODULE ConfigProofs ----------------------------
(***************************************************************************)
(* Proofs about Config, for every command line, every reading of its words *)
(* as numbers, and every width of the two integer types.                   *)
(*                                                                         *)
(* The argument: the loop's index is always at an option's place, and the  *)
(* options behind it are valid (Parsed); when config() calls cgroup() the  *)
(* index is past the end, and the rules are those of the settings (Built). *)
(* What its turns have left is said by Settled and Counted: each setting   *)
(* is the latest, each --memlimit is in the slot of its number.            *)
(***************************************************************************)
EXTENDS Config, TLAPS, SequenceTheorems, FiniteSetTheorems

\* The part of the line behind the index is valid.
Parsed ==
  /\ i % 2 = 1
  /\ \A k \in Turns : k < i => Valid(k)

\* Rules are there when config() has called cgroup(), and only then.
Built ==
  IF outcome = "applied"
  THEN i > Len(argv) /\ rules = MemRules(mem) \o CpuRules(settings)
  ELSE rules = <<>>

\* An error is the fault of an argument.
Blamed == outcome \in {"rejected", "crashed"} => \E k \in Turns : ~Valid(k)

IInv == TypeOK /\ Parsed /\ Built /\ Blamed

-----------------------------------------------------------------------------
(* The ways a turn of the loop ends.                                       *)

\* Every argument has a natural number, 0 if it is no number.
LEMMA NumbersAreNaturals == \A word : number(word) \in Nat
BY ConfigAssumption DEF number

\* The argument at the index is at an option's place.
LEMMA IndexIsTurn ==
  ASSUME TypeOK, Parsed, i <= Len(argv)
  PROVE  i \in Turns
BY DEF TypeOK, Parsed, Turns

\* config() goes on to the next option.
LEMMA TurnTaken ==
  ASSUME TypeOK, Parsed, Valid(i), i' = i + 2, UNCHANGED argv
  PROVE  Parsed'
<1>1. Turns' = Turns
  BY DEF Turns
<1>2. i' % 2 = 1
  BY DEF TypeOK, Parsed
<1>3. ASSUME NEW k \in Turns, k < i' PROVE Valid(k)
  <2>1. k \in Nat /\ k % 2 = 1 /\ i \in Nat /\ i % 2 = 1
    BY DEF TypeOK, Parsed, Turns
  <2>2. k # i + 1
    BY <2>1
  <2>3. k < i \/ k = i
    BY <1>3, <2>1, <2>2
  <2> QED
    BY <2>3 DEF Parsed
<1> QED
  BY <1>1, <1>2, <1>3 DEF Parsed, Valid

\* config() ends without rules.
LEMMA LoopEnds ==
  ASSUME IInv, NEW how \in {"rejected", "crashed", "overrun"},
         outcome = "parsing", Ends(how),
         how # "overrun" => \E k \in Turns : ~Valid(k)
  PROVE  IInv'
<1>1. TypeOK'
  BY DEF IInv, TypeOK, Ends
<1>2. Parsed'
  BY DEF IInv, Parsed, Ends, Turns, Valid
<1>3. Built'
  BY DEF IInv, Built, Ends
<1>4. Blamed'
  BY DEF Ends, Blamed, Turns, Valid
<1> QED
  BY <1>1, <1>2, <1>3, <1>4 DEF IInv

\* An option with a number: either it is valid and changes one setting, or
\* config() ends.
LEMMA NumberTaken ==
  ASSUME IInv, TakeShares \/ TakePeriod \/ TakePercent \/ TakeCpus
  PROVE  IInv'
<1>1. /\ outcome = "parsing" /\ i <= Len(argv) /\ HasValue
      /\ i \in Nat \ {0} /\ argv[i] \in Options /\ argv[i] # "--memlimit"
  BY DEF IInv, TypeOK, TakeShares, TakePeriod, TakePercent, TakeCpus,
         TakeNumber, AtOption, Options
<1>2. PICK n \in Nat : n = number(argv[i + 1])
  BY NumbersAreNaturals
<1>3. Valid(i) <=> n > 0 /\ (argv[i] = "--percent" => n <= 100)
  BY <1>1, <1>2 DEF Valid, HasValue
<1>4. CASE Valid(i)
  <2>1. /\ i' = i + 2 /\ UNCHANGED <<argv, mem, outcome, rules>>
        /\ \/ settings' = [settings EXCEPT !["shares"] = n]
           \/ settings' = [settings EXCEPT !["period"] = n]
           \/ settings' = [settings EXCEPT !["percent"] = n] /\ n \in 1 .. 100
           \/ settings' = [settings EXCEPT !["cpus"] = n]
    <3> USE <1>2, <1>3, <1>4 DEF TakeNumber, AtOption
    <3>1. CASE TakeShares
      BY <3>1 DEF TakeShares, Positive
    <3>2. CASE TakePeriod
      BY <3>2 DEF TakePeriod, Positive
    <3>3. CASE TakePercent
      <4>0. n \in Percent <=> n > 0 /\ n <= 100
        BY DEF Percent
      <4>1. n > 0 /\ n <= 100
        BY <3>3 DEF TakePercent
      <4>2. settings' = [settings EXCEPT !["percent"] = n] /\ i' = i + 2
              /\ UNCHANGED <<argv, mem, outcome, rules>>
        BY <3>3, <4>0, <4>1 DEF TakePercent
      <4> QED
        BY <4>1, <4>2
    <3>4. CASE TakeCpus
      BY <3>4 DEF TakeCpus, Positive
    <3> QED
      BY <3>1, <3>2, <3>3, <3>4
  <2>2. settings' \in [shares : Nat, period : Nat, percent : 1 .. 100,
                       cpus : Nat]
    BY <2>1 DEF IInv, TypeOK
  <2>3. TypeOK'
    BY <2>1, <2>2 DEF IInv, TypeOK
  <2>4. Parsed'
    BY <2>1, <1>4, TurnTaken DEF IInv
  <2>5. Built' /\ Blamed'
    BY <1>1, <2>1 DEF IInv, Built, Blamed
  <2> QED
    BY <2>3, <2>4, <2>5 DEF IInv
<1>5. CASE ~Valid(i)
  <2>0. /\ n \in Positive <=> n > 0
        /\ n \in Percent <=> n > 0 /\ n <= 100
    BY DEF Positive, Percent
  <2>1. Ends("rejected")
    BY <1>2, <1>3, <1>5, <2>0
       DEF TakeShares, TakePeriod, TakePercent, TakeCpus, TakeNumber, AtOption
  <2>2. i \in Turns
    BY <1>1, IndexIsTurn DEF IInv
  <2> QED
    BY <1>1, <1>5, <2>1, <2>2, LoopEnds
<1> QED
  BY <1>4, <1>5

\* --memlimit: a slot more, or the end.
LEMMA MemlimitTaken ==
  ASSUME IInv, TakeMemlimit
  PROVE  IInv'
<1>1. /\ outcome = "parsing" /\ i <= Len(argv) /\ HasValue
      /\ i \in Nat \ {0} /\ argv[i] = "--memlimit"
  BY DEF IInv, TypeOK, TakeMemlimit, AtOption
<1>2. i \in Turns
  BY <1>1, IndexIsTurn DEF IInv
<1>3. Valid(i) <=> (ChecksMemory => number(argv[i + 1]) > 0)
  BY <1>1 DEF Valid, HasValue, Options
<1>4. CASE Ends("overrun")
  BY <1>1, <1>4, LoopEnds
<1>5. CASE Ends("rejected") /\ ~Valid(i)
  BY <1>1, <1>2, <1>5, LoopEnds
<1>6. CASE /\ Valid(i)
           /\ mem' = Append(mem, argv[i + 1])
           /\ i' = i + 2
           /\ UNCHANGED <<argv, settings, outcome, rules>>
  <2>1. argv[i + 1] \in Options \cup Words
    BY <1>1 DEF IInv, TypeOK, HasValue
  <2>2. TypeOK'
    BY <1>6, <2>1 DEF IInv, TypeOK
  <2>3. Parsed'
    BY <1>6, TurnTaken DEF IInv
  <2>4. Built' /\ Blamed'
    BY <1>1, <1>6 DEF IInv, Built, Blamed
  <2> QED
    BY <2>2, <2>3, <2>4 DEF IInv
<1> QED
  BY <1>3, <1>4, <1>5, <1>6 DEF TakeMemlimit

-----------------------------------------------------------------------------
(* The inductive invariant.                                                *)

\* It holds of every command line before the loop.
LEMMA InitIInv == Init => IInv
<1> SUFFICES ASSUME Init PROVE IInv
  OBVIOUS
<1>1. argv \in Seq(Options \cup Words)
  BY ConfigAssumption DEF Init
<1>2. TypeOK
  BY <1>1 DEF Init, TypeOK, Defaults
<1>3. Parsed
  BY DEF Init, Parsed, Turns
<1> QED
  BY <1>2, <1>3 DEF Init, IInv, Built, Blamed

\* Every turn of the loop and the end of config() preserve it.
LEMMA NextIInv == IInv /\ [Next]_vars => IInv'
<1> SUFFICES ASSUME IInv, [Next]_vars PROVE IInv'
  OBVIOUS
<1>1. CASE MissingValue
  <2>1. i \in Turns /\ ~Valid(i)
    BY <1>1, IndexIsTurn DEF MissingValue, IInv, TypeOK, Valid
  <2> QED
    BY <1>1, <2>1, LoopEnds DEF MissingValue
<1>2. CASE InvalidOption
  <2>1. i \in Turns /\ ~Valid(i)
    BY <1>2, IndexIsTurn DEF InvalidOption, IInv, TypeOK, Valid
  <2> QED
    BY <1>2, <2>1, LoopEnds DEF InvalidOption
<1>3. CASE Apply
  <2>1. CASE Ends("overrun")
    BY <1>3, <2>1, LoopEnds DEF Apply
  <2>2. CASE ~Ends("overrun")
    <3>1. /\ outcome' = "applied" /\ i > Len(argv)
          /\ rules' = MemRules(mem) \o CpuRules(settings)
          /\ UNCHANGED <<argv, i, settings, mem>>
      BY <1>3, <2>2 DEF Apply
    <3>2. TypeOK'
      BY <3>1 DEF IInv, TypeOK
    <3>3. Parsed'
      BY <3>1 DEF IInv, Parsed, Turns, Valid
    <3> QED
      BY <3>1, <3>2, <3>3 DEF IInv, Built, Blamed
  <2> QED
    BY <2>1, <2>2
<1>4. CASE UNCHANGED vars
  BY <1>4 DEF vars, IInv, TypeOK, Parsed, Built, Blamed, Turns, Valid
<1> QED
  BY <1>1, <1>2, <1>3, <1>4, NumberTaken, MemlimitTaken DEF Next

\* The inductive invariant holds throughout config().
THEOREM InvariantHolds == Spec => []IInv
<1>1. Init => IInv
  BY InitIInv
<1>2. IInv /\ [Next]_vars => IInv'
  BY NextIInv
<1> QED
  BY <1>1, <1>2, PTL DEF Spec

\* config()'s variables keep their types, --percent its range.
THEOREM TypeCorrect == Spec => []TypeOK
<1>1. IInv => TypeOK
  BY DEF IInv
<1> QED
  BY <1>1, InvariantHolds, PTL

\* config() calls cgroup() when all of the command line is valid, whatever
\* its length; otherwise an argument is to blame, and no rule is written.
THEOREM ConfigIsAllOrNothing == Spec => []AllOrNothing
<1>1. IInv => AllOrNothing
  BY DEF IInv, TypeOK, Parsed, Built, Blamed, AllOrNothing, Turns
<1> QED
  BY <1>1, InvariantHolds, PTL

\* The last two rules are the period and the quota.
LEMMA LastTwoRules ==
  ASSUME IInv, outcome = "applied"
  PROVE  /\ rules[Len(rules)].value = cpu_quota(settings)
         /\ rules[Len(rules) - 1].value = cfs_period(settings)
<1> DEFINE M == MemRules(mem)
           C == CpuRules(settings)
           T == {M[k] : k \in 1 .. Len(mem)} \cup {C[k] : k \in 1 .. 3}
<1>1. M \in Seq(T) /\ C \in Seq(T) /\ Len(C) = 3
  BY DEF IInv, TypeOK, MemRules, CpuRules
<1>2. rules = M \o C
  BY DEF IInv, Built
<1>3. /\ Len(rules) = Len(M) + 3
      /\ rules[Len(M) + 3] = C[3] /\ rules[Len(M) + 2] = C[2]
      /\ Len(M) \in Nat
  <2> HIDE DEF M, C, T
  <2>1. /\ Len(M \o C) = Len(M) + Len(C)
        /\ \A k \in 1 .. Len(M) + Len(C) :
             (M \o C)[k] = IF k <= Len(M) THEN M[k] ELSE C[k - Len(M)]
    BY <1>1, ConcatProperties
  <2>2. Len(M) \in Nat
    BY <1>1
  <2>3. /\ Len(M) + 3 \in 1 .. Len(M) + Len(C)
        /\ Len(M) + 2 \in 1 .. Len(M) + Len(C)
        /\ (Len(M) + 3) - Len(M) = 3 /\ (Len(M) + 2) - Len(M) = 2
        /\ ~(Len(M) + 3 <= Len(M)) /\ ~(Len(M) + 2 <= Len(M))
    BY <1>1, <2>2
  <2> QED
    BY <1>1, <1>2, <2>1, <2>2, <2>3
<1>4. C[3].value = cpu_quota(settings) /\ C[2].value = cfs_period(settings)
  BY DEF CpuRules, rule
<1> HIDE DEF M, C
<1> QED
  BY <1>3, <1>4

\* The period and the quota that config() writes grant no more than --cpus
\* processors, and no less than --percent of them, for every --period that
\* 100 divides and as long as nothing wraps (doqueru.cpp:87-90, 201-216).
THEOREM CpuIsInBounds == Spec => []CpuInBounds
<1>1. ASSUME IInv, outcome = "applied", settings.period % 100 = 0,
             settings.cpus < UChar,
             settings.period * settings.percent < ULong,
             settings.period * settings.percent * settings.cpus < ULong
      PROVE  /\ rules[Len(rules)].value
                  <= rules[Len(rules) - 1].value * settings.cpus
             /\ 100 * rules[Len(rules)].value
                  >= rules[Len(rules) - 1].value * settings.percent
                       * settings.cpus
  <2>0. settings \in [shares : Nat, period : Nat, percent : 1 .. 100,
                      cpus : Nat]
    BY <1>1 DEF IInv, TypeOK
  <2>1. PICK percent \in 1 .. 100, cpus \in Nat :
          percent = settings.percent /\ cpus = settings.cpus
    BY <2>0
  <2>2. PICK q \in Nat : settings.period = 100 * q
    BY <1>1, <2>0
  <2>3. 100 * q * percent < ULong /\ 100 * q * percent * cpus < ULong
    BY <1>1, <2>1, <2>2
  <2>4. ULong \in Nat \ {0} /\ UChar \in Nat \ {0} /\ cpus < UChar
    BY <1>1, <2>1, ConfigAssumption
  <2>5. PICK period, quota :
          period = cfs_period(settings) /\ quota = cpu_quota(settings)
    OBVIOUS
  <2>6. /\ quota = ((((100 * q * percent) % ULong) * (cpus % UChar)) % ULong)
                     \div 100
        /\ period = (((100 * q) \div 100) * percent) % ULong
    BY <2>1, <2>2, <2>5, Zenon DEF cpu_quota, cfs_period
  <2>7. quota <= period * cpus /\ 100 * quota >= period * percent * cpus
    <3> PICK W, C : W = ULong /\ C = UChar
      OBVIOUS
    <3>0. W \in Nat \ {0} /\ C \in Nat \ {0} /\ cpus < C
      BY <2>4
    <3>1. PICK m \in Nat : m = q * percent
      OBVIOUS
    <3>2. PICK p \in Nat : p = m * cpus
      OBVIOUS
    <3>3. 100 * q * percent = 100 * m /\ 100 * q * percent * cpus = 100 * p
      BY <3>1, <3>2
    <3>4. (100 * q) \div 100 = q /\ cpus % C = cpus
      BY <3>0
    <3>5. 100 * m < W /\ 100 * p < W
      BY <2>3, <3>3
    <3>6. m % W = m /\ (100 * m) % W = 100 * m
      BY <3>0, <3>5
    <3>7. (100 * p) % W = 100 * p /\ (100 * p) \div 100 = p
      BY <3>0, <3>5
    <3>8. (100 * m) * cpus = 100 * p
      BY <3>2
    <3>9. quota = ((((100 * m) % W) * (cpus % C)) % W) \div 100
      BY <2>6, <3>3, Zenon
    <3>10. quota = p
      BY <3>4, <3>6, <3>7, <3>8, <3>9, Zenon
    <3>11. period = m
      BY <2>6, <3>1, <3>4, <3>6, Zenon
    <3>12. m * percent * cpus = p * percent /\ p * percent <= p * 100
      BY <3>2
    <3>13. 100 * p >= m * percent * cpus
      BY <3>12
    <3>14. p <= m * cpus
      BY <3>2
    <3> QED
      BY <3>10, <3>11, <3>13, <3>14, Zenon
  <2>8. /\ rules[Len(rules)].value = quota
        /\ rules[Len(rules) - 1].value = period
    BY <1>1, <2>5, LastTwoRules
  <2> QED
    BY <2>1, <2>7, <2>8, Zenon
<1>2. IInv => CpuInBounds
  BY <1>1 DEF CpuInBounds
<1> QED
  BY <1>2, InvariantHolds, PTL
-----------------------------------------------------------------------------
(* What the turns taken so far have left.                                  *)

\* The places behind the index where opt is given.
Behind(opt) == {k \in Given(opt) : k < i}

\* value is that of the last of them, or else the default.
Latest(opt, value, default) ==
  \/ Behind(opt) = {} /\ value = default
  \/ \E k \in Behind(opt) : /\ value = number(argv[k + 1])
                            /\ \A l \in Behind(opt) : l <= k

Settled ==
  /\ Latest("--shares",  settings.shares,  1024)
  /\ Latest("--period",  settings.period,  100000)
  /\ Latest("--percent", settings.percent, 100)
  /\ Latest("--cpus",    settings.cpus,    1)

\* The slot of the --memlimit at k, if there are enough.
Slot(k) == Cardinality({l \in Given("--memlimit") : l <= k})

Counted ==
  /\ Len(mem) = Cardinality(Behind("--memlimit"))
  /\ \A k \in Behind("--memlimit") : mem[Slot(k)] = argv[k + 1]

TurnInv == IInv /\ Settled /\ Counted /\ SlotsSuffice

\* A turn of the loop that goes on to the next one.
Turn ==
  /\ outcome = "parsing" /\ i \in Turns
  /\ i' = i + 2
  /\ UNCHANGED <<argv, outcome, rules>>

LEMMA GivenIsFinite ==
  ASSUME TypeOK, NEW opt, NEW S \in SUBSET Given(opt)
  PROVE  IsFiniteSet(S) /\ Cardinality(S) \in Nat
<1>1. IsFiniteSet(1 .. Len(argv)) /\ S \subseteq 1 .. Len(argv)
  BY FS_Interval DEF TypeOK, Given, Turns
<1> QED
  BY <1>1, FS_Subset, FS_CardinalityType

\* A turn puts its own place behind the index, and no other.
LEMMA BehindTurn ==
  ASSUME TypeOK, Parsed, Turn, NEW opt
  PROVE  /\ Behind(opt)' = IF argv[i] = opt THEN Behind(opt) \cup {i}
                                            ELSE Behind(opt)
         /\ i \notin Behind(opt)
         /\ Given(opt)' = Given(opt)
         /\ \A k \in Behind(opt) : k \in Nat /\ k < i
<1>1. Given(opt)' = Given(opt)
  BY DEF Given, Turns, Turn
<1>2. \A k \in Turns : k < i + 2 <=> k < i \/ k = i
  <2> SUFFICES ASSUME NEW k \in Turns PROVE k < i + 2 <=> k < i \/ k = i
    OBVIOUS
  <2>1. k \in Nat /\ k % 2 = 1 /\ i \in Nat /\ i % 2 = 1
    BY DEF Turns, TypeOK, Parsed
  <2>2. k # i + 1
    BY <2>1
  <2> QED
    BY <2>1, <2>2
<1>3. Behind(opt)' = {k \in Given(opt) : k < i + 2}
  BY <1>1 DEF Behind, Turn
<1>4. i \in Given(opt) <=> argv[i] = opt
  BY DEF Given, Turn
<1>5. ASSUME NEW k
      PROVE  k \in Behind(opt)' <=> \/ k \in Behind(opt)
                                    \/ k = i /\ argv[i] = opt
  BY <1>2, <1>3, <1>4 DEF Behind, Given
<1>6. i \in Nat /\ Turns \subseteq Nat
  BY DEF Turns, TypeOK
<1>7. \A k \in Behind(opt) : k \in Nat /\ k < i
  BY <1>6 DEF Behind, Given
<1>8. i \notin Behind(opt)
  BY <1>6, <1>7
<1> QED
  BY <1>1, <1>5, <1>7, <1>8

\* The value of the turn's own option is the latest, those of others stay.
LEMMA LatestTurn ==
  ASSUME TypeOK, Parsed, Turn, NEW opt
  PROVE  IF argv[i] = opt
         THEN i \in Behind(opt)' /\ \A l \in Behind(opt)' : l <= i
         ELSE Behind(opt)' = Behind(opt)
<1>1. i \in Nat
  BY DEF TypeOK
<1>2. CASE argv[i] = opt
  <2>1. Behind(opt)' = Behind(opt) \cup {i}
    BY <1>2, BehindTurn
  <2>2. ASSUME NEW l \in Behind(opt)' PROVE l <= i
    <3>1. \A k \in Behind(opt) : k \in Nat /\ k < i
      BY BehindTurn
    <3>2. l = i \/ l \in Behind(opt)
      BY <2>1
    <3> QED
      BY <1>1, <3>1, <3>2
  <2> QED
    BY <1>2, <2>1, <2>2
<1>3. CASE argv[i] # opt
  BY <1>3, BehindTurn
<1> QED
  BY <1>2, <1>3

\* A turn with a number.
LEMMA NumberTurn ==
  ASSUME TurnInv, Turn, mem' = mem, argv[i] # "--memlimit",
         settings'.shares =
           IF argv[i] = "--shares" THEN number(argv[i + 1]) ELSE settings.shares,
         settings'.period =
           IF argv[i] = "--period" THEN number(argv[i + 1]) ELSE settings.period,
         settings'.percent =
           IF argv[i] = "--percent" THEN number(argv[i + 1])
                                    ELSE settings.percent,
         settings'.cpus =
           IF argv[i] = "--cpus" THEN number(argv[i + 1]) ELSE settings.cpus
  PROVE  Settled' /\ Counted'
<1>1. TypeOK /\ Parsed /\ Settled /\ Counted
  BY DEF TurnInv, IInv
<1>2. argv' = argv
  BY DEF Turn
<1>3. Latest("--shares", settings.shares, 1024)'
  <2>1. CASE argv[i] = "--shares"
    BY <1>1, <1>2, <2>1, LatestTurn DEF Latest
  <2>2. CASE argv[i] # "--shares"
    BY <1>1, <1>2, <2>2, LatestTurn DEF Settled, Latest
  <2> QED
    BY <2>1, <2>2
<1>4. Latest("--period", settings.period, 100000)'
  <2>1. CASE argv[i] = "--period"
    BY <1>1, <1>2, <2>1, LatestTurn DEF Latest
  <2>2. CASE argv[i] # "--period"
    BY <1>1, <1>2, <2>2, LatestTurn DEF Settled, Latest
  <2> QED
    BY <2>1, <2>2
<1>5. Latest("--percent", settings.percent, 100)'
  <2>1. CASE argv[i] = "--percent"
    BY <1>1, <1>2, <2>1, LatestTurn DEF Latest
  <2>2. CASE argv[i] # "--percent"
    BY <1>1, <1>2, <2>2, LatestTurn DEF Settled, Latest
  <2> QED
    BY <2>1, <2>2
<1>6. Latest("--cpus", settings.cpus, 1)'
  <2>1. CASE argv[i] = "--cpus"
    BY <1>1, <1>2, <2>1, LatestTurn DEF Latest
  <2>2. CASE argv[i] # "--cpus"
    BY <1>1, <1>2, <2>2, LatestTurn DEF Settled, Latest
  <2> QED
    BY <2>1, <2>2
<1>7. /\ Behind("--memlimit")' = Behind("--memlimit")
      /\ Given("--memlimit")' = Given("--memlimit")
  BY <1>1, BehindTurn
<1>8. Counted'
  BY <1>1, <1>2, <1>7 DEF Counted, Slot
<1> QED
  BY <1>3, <1>4, <1>5, <1>6, <1>8 DEF Settled

\* A turn with --memlimit.
LEMMA MemlimitTurn ==
  ASSUME TurnInv, Turn, settings' = settings, argv[i] = "--memlimit",
         mem' = Append(mem, argv[i + 1])
  PROVE  Settled' /\ Counted'
<1> DEFINE B == Behind("--memlimit")
           G == Given("--memlimit")
<1>1. TypeOK /\ Parsed /\ Settled /\ Counted
  BY DEF TurnInv, IInv
<1>2. Settled'
  <2>1. \A opt \in {"--shares", "--period", "--percent", "--cpus"} :
          Behind(opt)' = Behind(opt)
    BY <1>1, BehindTurn
  <2>2. argv' = argv
    BY DEF Turn
  <2> QED
    BY <1>1, <2>1, <2>2 DEF Settled, Latest
<1>3. /\ B' = B \cup {i} /\ i \notin B /\ G' = G /\ argv' = argv
      /\ \A k \in B : k \in Nat /\ k < i
      /\ i \in Nat
  BY <1>1, BehindTurn DEF Turn, TypeOK
<1>4. IsFiniteSet(B) /\ Cardinality(B) \in Nat
  BY <1>1, GivenIsFinite DEF Behind
<1>5. Cardinality(B') = Len(mem) + 1 /\ Len(mem) \in Nat
                      /\ Len(mem) = Cardinality(B)
  <2>1. Cardinality(B \cup {i}) = Cardinality(B) + 1
    BY <1>3, <1>4, FS_AddElement
  <2>2. Len(mem) = Cardinality(B)
    BY <1>1 DEF Counted
  <2> QED
    BY <1>3, <1>4, <2>1, <2>2
<1>6. Len(mem') = Len(mem) + 1 /\ mem'[Len(mem) + 1] = argv[i + 1]
        /\ \A k \in 1 .. Len(mem) : mem'[k] = mem[k]
  <2>1. mem \in Seq(Options \cup Words \cup {argv[i + 1]})
    BY <1>1 DEF TypeOK
  <2> QED
    BY <2>1, AppendProperties
<1>7. \A l : /\ l \in B <=> l \in G /\ l < i
             /\ l \in G => l \in Nat
  BY DEF Behind, Given, Turns
<1>8. ASSUME NEW k \in B' PROVE mem'[Slot(k)'] = argv'[k + 1]
  <2>1. Slot(k)' = Slot(k)
    BY <1>3 DEF Slot
  <2>2. CASE k = i
    <3>1. i \in G
      BY DEF Given, Turn
    <3>2. {l \in G : l <= i} = B \cup {i}
      <4> HIDE DEF B, G
      <4> SUFFICES ASSUME NEW l
                   PROVE  l \in G /\ l <= i <=> l \in B \/ l = i
        OBVIOUS
      <4>1. l \in G => (l <= i <=> l < i \/ l = i)
        BY <1>3, <1>7
      <4> QED
        BY <1>3, <1>7, <3>1, <4>1
    <3>3. Slot(i) = Len(mem) + 1
      BY <1>3, <1>5, <3>2 DEF Slot
    <3> QED
      BY <1>3, <1>6, <2>1, <2>2, <3>3
  <2>3. CASE k # i
    <3> DEFINE U == {l \in G : l <= k}
    <3>0. k \in B /\ k \in G /\ k \in Nat /\ k < i
      BY <1>3, <2>3 DEF Behind
    <3>1. k \in U /\ U \subseteq B
      <4> HIDE DEF B, G
      <4>1. ASSUME NEW l \in G, l <= k PROVE l \in B
        <5>1. l \in Nat
          BY <1>7
        <5>2. l < i
          BY <1>3, <3>0, <4>1, <5>1
        <5> QED
          BY <1>7, <5>2
      <4>2. k \in U
        BY <3>0
      <4>3. U \subseteq B
        BY <4>1
      <4> QED
        BY <4>2, <4>3
    <3>2. IsFiniteSet(U) /\ Cardinality(U) \in Nat
      BY <1>1, GivenIsFinite
    <3>3. Cardinality(U) <= Cardinality(B)
      BY <1>4, <3>1, FS_Subset
    <3>4. Cardinality(U) # 0
      BY <3>1, <3>2, FS_EmptySet
    <3>5. Slot(k) = Cardinality(U)
      BY DEF Slot
    <3>6. Slot(k) \in 1 .. Len(mem)
      BY <1>4, <1>5, <3>2, <3>3, <3>4, <3>5
    <3>7. mem[Slot(k)] = argv[k + 1]
      BY <1>1, <3>0 DEF Counted
    <3> QED
      BY <1>3, <1>6, <2>1, <3>6, <3>7
  <2> QED
    BY <2>2, <2>3
<1> QED
  BY <1>2, <1>3, <1>5, <1>6, <1>8 DEF Counted

\* config() ends, or does nothing.
LEMMA NoTurn ==
  ASSUME TurnInv, UNCHANGED <<argv, i, settings, mem>>
  PROVE  Settled' /\ Counted'
<1>1. \A opt : Given(opt)' = Given(opt)
  BY DEF Given, Turns
<1>2. \A opt : Behind(opt)' = Behind(opt)
  BY <1>1 DEF Behind
<1>3. Settled'
  BY <1>2 DEF TurnInv, Settled, Latest
<1>4. Counted'
  BY <1>1, <1>2 DEF TurnInv, Counted, Slot
<1> QED
  BY <1>3, <1>4

\* The array is overrun only behind too many --memlimit.
LEMMA OverrunIsBlamed ==
  ASSUME TurnInv, outcome = "parsing", Len(mem) + 3 > Slots
  PROVE  Cardinality(Given("--memlimit")) > Slots - 3
<1>1. TypeOK /\ Len(mem) = Cardinality(Behind("--memlimit")) /\ Len(mem) \in Nat
  BY DEF TurnInv, IInv, Counted, TypeOK
<1>2. Behind("--memlimit") \subseteq Given("--memlimit")
  BY DEF Behind
<1>3. /\ IsFiniteSet(Given("--memlimit"))
      /\ Cardinality(Given("--memlimit")) \in Nat
  BY <1>1, GivenIsFinite
<1>4. Cardinality(Behind("--memlimit")) <= Cardinality(Given("--memlimit"))
  BY <1>2, <1>3, FS_Subset
<1> QED
  BY <1>1, <1>3, <1>4, ConfigAssumption

\* A turn of the loop preserves what the turns before it have left.
LEMMA TurnsKept ==
  ASSUME TurnInv, [Next]_vars
  PROVE  Settled' /\ Counted'
<1>1. CASE UNCHANGED <<argv, i, settings, mem>>
  BY <1>1, NoTurn
<1>2. CASE /\ ~UNCHANGED <<argv, i, settings, mem>>
           /\ TakeShares \/ TakePeriod \/ TakePercent \/ TakeCpus
  <2>1. /\ Turn /\ mem' = mem /\ argv[i] # "--memlimit"
        /\ \/ /\ argv[i] = "--shares"
              /\ settings' = [settings EXCEPT !["shares"] = number(argv[i + 1])]
           \/ /\ argv[i] = "--period"
              /\ settings' = [settings EXCEPT !["period"] = number(argv[i + 1])]
           \/ /\ argv[i] = "--percent"
              /\ settings' = [settings EXCEPT !["percent"] = number(argv[i + 1])]
           \/ /\ argv[i] = "--cpus"
              /\ settings' = [settings EXCEPT !["cpus"] = number(argv[i + 1])]
    <3>1. i \in Turns
      BY <1>2, IndexIsTurn
         DEF TurnInv, IInv, TakeShares, TakePeriod, TakePercent, TakeCpus,
             TakeNumber, AtOption
    <3> QED
      BY <1>2, <3>1
         DEF TakeShares, TakePeriod, TakePercent, TakeCpus, TakeNumber,
             AtOption, Ends, Turn
  <2>2. settings \in [shares : Nat, period : Nat, percent : 1 .. 100,
                      cpus : Nat]
    BY DEF TurnInv, IInv, TypeOK
  <2>3. /\ settings'.shares = IF argv[i] = "--shares"
                              THEN number(argv[i + 1]) ELSE settings.shares
        /\ settings'.period = IF argv[i] = "--period"
                              THEN number(argv[i + 1]) ELSE settings.period
        /\ settings'.percent = IF argv[i] = "--percent"
                               THEN number(argv[i + 1]) ELSE settings.percent
        /\ settings'.cpus = IF argv[i] = "--cpus"
                            THEN number(argv[i + 1]) ELSE settings.cpus
    BY <2>1, <2>2
  <2> QED
    BY <2>1, <2>3, NumberTurn
<1>3. CASE TakeMemlimit /\ ~UNCHANGED <<argv, i, settings, mem>>
  <2>1. i \in Turns
    BY <1>3, IndexIsTurn DEF TurnInv, IInv, TakeMemlimit, AtOption
  <2>2. /\ Turn /\ settings' = settings /\ argv[i] = "--memlimit"
        /\ mem' = Append(mem, argv[i + 1])
    BY <1>3, <2>1 DEF TakeMemlimit, AtOption, Ends, Turn
  <2> QED
    BY <2>2, MemlimitTurn
<1>4. CASE MissingValue \/ InvalidOption \/ Apply \/ UNCHANGED vars
  BY <1>1, <1>4 DEF MissingValue, InvalidOption, Apply, Ends, vars
<1> QED
  BY <1>1, <1>2, <1>3, <1>4 DEF Next

\* The rules are too many for the array only if the options are.
LEMMA SlotsKept ==
  ASSUME TurnInv, [Next]_vars
  PROVE  SlotsSuffice'
<1>1. CASE outcome' = "overrun" /\ outcome # "overrun"
  <2>1. outcome = "parsing" /\ Len(mem) + 3 > Slots /\ argv' = argv
    BY <1>1, ConfigAssumption
       DEF Next, TakeShares, TakePeriod, TakePercent, TakeCpus, TakeNumber,
           TakeMemlimit, MissingValue, InvalidOption, Apply, AtOption, Ends,
           vars
  <2>2. Given("--memlimit")' = Given("--memlimit")
    BY <2>1 DEF Given, Turns
  <2> QED
    BY <2>1, <2>2, OverrunIsBlamed DEF SlotsSuffice
<1>2. CASE outcome' = "overrun" => outcome = "overrun"
  <2>1. argv' = argv
    BY DEF Next, TakeShares, TakePeriod, TakePercent, TakeCpus, TakeNumber,
           TakeMemlimit, MissingValue, InvalidOption, Apply, AtOption, Ends,
           vars
  <2>2. Given("--memlimit")' = Given("--memlimit")
    BY <2>1 DEF Given, Turns
  <2> QED
    BY <1>2, <2>2 DEF TurnInv, SlotsSuffice
<1> QED
  BY <1>1, <1>2

\* What the turns leave holds throughout config().
LEMMA TurnInvHolds == Spec => []TurnInv
<1>1. Init => TurnInv
  <2> SUFFICES ASSUME Init PROVE TurnInv
    OBVIOUS
  <2>1. i = 1 /\ outcome = "parsing" /\ mem = <<>> /\ settings = Defaults
    BY DEF Init
  <2>2. \A opt : Behind(opt) = {}
    BY <2>1 DEF Behind, Given, Turns
  <2>3. Settled
    BY <2>1, <2>2 DEF Settled, Latest, Defaults
  <2>4. Counted
    BY <2>1, <2>2, FS_EmptySet DEF Counted
  <2> QED
    BY <2>1, <2>3, <2>4, InitIInv DEF TurnInv, SlotsSuffice
<1>2. TurnInv /\ [Next]_vars => TurnInv'
  BY NextIInv, TurnsKept, SlotsKept DEF TurnInv
<1> QED
  BY <1>1, <1>2, PTL DEF Spec

\* The array of rules is large enough for every command line with at most
\* Slots - 3 --memlimit, whatever its other options are.
THEOREM SlotsAreEnough == Spec => []SlotsSuffice
<1>1. TurnInv => SlotsSuffice
  BY DEF TurnInv
<1> QED
  BY <1>1, TurnInvHolds, PTL

\* The rules for the memory come first, in the order of the slots.
LEMMA MemoryRulesFirst ==
  ASSUME IInv, outcome = "applied"
  PROVE  /\ Len(mem) \in Nat
         /\ Len(rules) = Len(mem) + 3
         /\ \A k \in 1 .. Len(mem) : rules[k].value = mem[k]
<1> DEFINE M == MemRules(mem)
           C == CpuRules(settings)
           T == {M[k] : k \in 1 .. Len(mem)} \cup {C[k] : k \in 1 .. 3}
<1>0. M \in Seq(T) /\ C \in Seq(T)
  BY DEF IInv, TypeOK, MemRules, CpuRules
<1>1. Len(C) = 3 /\ Len(M) = Len(mem) /\ Len(mem) \in Nat
  BY DEF IInv, TypeOK, MemRules, CpuRules
<1>2. rules = M \o C
  BY DEF IInv, Built
<1>3. \A k \in 1 .. Len(mem) : M[k].value = mem[k]
  BY DEF MemRules, rule
<1> HIDE DEF M, C, T
<1>4. /\ Len(M \o C) = Len(M) + Len(C)
      /\ \A k \in 1 .. Len(M) + Len(C) :
           (M \o C)[k] = IF k <= Len(M) THEN M[k] ELSE C[k - Len(M)]
  BY <1>0, ConcatProperties
<1>5. ASSUME NEW k \in 1 .. Len(mem) PROVE rules[k] = M[k]
  BY <1>1, <1>2, <1>4
<1> QED
  BY <1>1, <1>2, <1>3, <1>4, <1>5

\* Each setting is that of the option's last place on the line, and there is a
\* rule for each --memlimit, in their order, whatever the length of the line.
THEOREM LastOneWins == Spec => []LastOptionWins
<1>1. ASSUME TurnInv, outcome = "applied"
      PROVE  /\ \A opt : Behind(opt) = Given(opt)
             /\ Settled /\ Counted /\ IInv
  <2>1. TypeOK /\ i > Len(argv)
    BY <1>1 DEF TurnInv, IInv, Built
  <2>2. \A k \in Turns : k < i
    BY <2>1 DEF TypeOK, Turns
  <2>3. \A opt : Behind(opt) = Given(opt)
    BY <2>2 DEF Behind, Given
  <2> QED
    BY <1>1, <2>3 DEF TurnInv
<1>2. ASSUME TurnInv, outcome = "applied"
      PROVE  /\ Len(rules) = Cardinality(Given("--memlimit")) + 3
             /\ \A k \in Given("--memlimit") :
                  rules[Slot(k)].value = argv[k + 1]
  <2>1. /\ Len(mem) = Cardinality(Given("--memlimit"))
        /\ \A k \in Given("--memlimit") : mem[Slot(k)] = argv[k + 1]
    BY <1>1, <1>2 DEF Counted
  <2>2. ASSUME NEW k \in Given("--memlimit")
        PROVE  Slot(k) \in 1 .. Len(mem)
    <3> DEFINE G == Given("--memlimit")
               U == {l \in G : l <= k}
    <3>1. TypeOK /\ k \in Nat
      BY <1>2 DEF TurnInv, IInv, Given, Turns
    <3>2. k \in U /\ U \subseteq G
      BY <3>1
    <3>3. /\ IsFiniteSet(U) /\ Cardinality(U) \in Nat
          /\ IsFiniteSet(G) /\ Cardinality(G) \in Nat
      BY <3>1, GivenIsFinite
    <3>4. Cardinality(U) <= Cardinality(G) /\ Cardinality(U) # 0
      BY <3>2, <3>3, FS_Subset, FS_EmptySet
    <3> QED
      BY <2>1, <3>3, <3>4 DEF Slot
  <2> QED
    BY <1>1, <1>2, <2>1, <2>2, MemoryRulesFirst
<1>3. ASSUME TurnInv, outcome = "applied"
      PROVE  /\ IsLast("--shares",  settings.shares,  1024)
             /\ IsLast("--period",  settings.period,  100000)
             /\ IsLast("--percent", settings.percent, 100)
             /\ IsLast("--cpus",    settings.cpus,    1)
  BY <1>1, <1>3 DEF Settled, Latest, IsLast
<1>4. TurnInv => LastOptionWins
  BY <1>2, <1>3 DEF LastOptionWins, Slot
<1> QED
  BY <1>4, TurnInvHolds, PTL
=============================================================================

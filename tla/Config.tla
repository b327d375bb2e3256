------------------------------- MODULE Config -------------------------------
(***************************************************************************)
(* config() of doqueru.cpp and steps/cgroup.cpp: from the options of the   *)
(* command line to the list of cgroup rules handed to cgroup().            *)
(*                                                                         *)
(* One step is one turn of the option loop.  An argument is an option or   *)
(* one of Words, a text strtoul() makes a number of.  main() calls this    *)
(* function in neither program: what is checked here is what it does when  *)
(* it is called.                                                           *)
(***************************************************************************)
EXTENDS Naturals, Sequences, FiniteSets

CONSTANTS
  Words,        \* arguments that are no options
  strtoul,      \* [Words -> Nat]: their value, 0 for what is no number
  MaxArgs,      \* bound: arguments on the command line
  Slots,        \* rule configs[Slots]: 20 in the code
  ULong,        \* unsigned long is arithmetic modulo ULong: 2^64 in the code
  UChar,        \* and unsigned char modulo UChar: 2^8
  ChecksMemory  \* TRUE for doqueru.cpp; steps/cgroup.cpp:183 tests another
                \* variable and takes any --memlimit

Options == {"--shares", "--period", "--percent", "--cpus", "--memlimit"}

ASSUME ConfigAssumption ==
  /\ strtoul \in [Words -> 0 .. ULong - 1]
  /\ Words \cap Options = {}
  /\ MaxArgs \in Nat
  /\ Slots \in Nat /\ Slots >= 3
  /\ ULong \in Nat \ {0} /\ UChar \in Nat \ {0}
  /\ ChecksMemory \in BOOLEAN

VARIABLES
  argv,      \* the arguments after argv[0]
  i,         \* the loop's index
  settings,  \* cpu_shares, cpu_period, cpu_percent, cpu_cpus
  mem,       \* the --memlimit arguments, one slot of configs each
  outcome,   \* parsing, or how config() ended
  rules      \* what cgroup() is called with

vars == <<argv, i, settings, mem, outcome, rules>>

Defaults == [shares |-> 1024, period |-> 100000, percent |-> 100, cpus |-> 1]

number(word) == IF word \in Words THEN strtoul[word] ELSE 0

Init ==
  /\ argv \in UNION {[1 .. n -> Options \cup Words] : n \in 0 .. MaxArgs}
  /\ i = 1
  /\ settings = Defaults
  /\ mem = <<>>
  /\ outcome = "parsing"
  /\ rules = <<>>

-----------------------------------------------------------------------------
(* The option loop.                                                        *)

AtOption(opt) == outcome = "parsing" /\ i <= Len(argv) /\ argv[i] = opt
HasValue      == i < Len(argv)

Ends(how) == outcome' = how /\ UNCHANGED <<argv, i, settings, mem, rules>>

\* --shares, --period, --percent, --cpus: a number, then the ASSERT of
\* its range.
TakeNumber(opt, field, range) ==
  /\ AtOption(opt)
  /\ HasValue
  /\ LET n == number(argv[i + 1])
     IN  IF n \in range
         THEN /\ settings' = [settings EXCEPT ![field] = n]
              /\ i' = i + 2
              /\ UNCHANGED <<argv, mem, outcome, rules>>
         ELSE Ends("rejected")

Positive   == Nat \ {0}
\* Bug: no upper bound.
AnyPercent == Nat \ {0}
Percent    == 1 .. 100

TakeShares  == TakeNumber("--shares", "shares", Positive)
TakePeriod  == TakeNumber("--period", "period", Positive)
TakePercent == TakeNumber("--percent", "percent", Percent)
\* Bug: copied from --shares.
TakeCpusAsShares == TakeNumber("--cpus", "shares", Positive)
TakeCpus    == TakeNumber("--cpus", "cpus", Positive)

\* Bug: one --memlimit fills two slots (limit and memsw.limit, say).
TakeMemlimitTwice ==
  /\ AtOption("--memlimit")
  /\ HasValue
  /\ mem' = mem \o <<argv[i + 1], argv[i + 1]>>
  /\ i' = i + 2
  /\ UNCHANGED <<argv, settings, outcome, rules>>

\* --memlimit keeps the text, in the next slot.
TakeMemlimit ==
  /\ AtOption("--memlimit")
  /\ HasValue
  /\ IF Len(mem) = Slots THEN Ends("overrun")
     ELSE IF ChecksMemory => number(argv[i + 1]) > 0
     THEN /\ mem' = Append(mem, argv[i + 1])
          /\ i' = i + 2
          /\ UNCHANGED <<argv, settings, outcome, rules>>
     ELSE Ends("rejected")

\* argv[++i] is NULL: strtoul() reads it, std::string refuses it.
MissingValue ==
  /\ outcome = "parsing"
  /\ i = Len(argv)
  /\ argv[i] \in Options
  /\ Ends("crashed")

\* Bug: exit(1) is missing after the message.
SkipInvalidOption ==
  /\ outcome = "parsing"
  /\ i <= Len(argv)
  /\ argv[i] \notin Options
  /\ i' = i + 1
  /\ UNCHANGED <<argv, settings, mem, outcome, rules>>

InvalidOption ==
  /\ outcome = "parsing"
  /\ i <= Len(argv)
  /\ argv[i] \notin Options
  /\ Ends("rejected")

-----------------------------------------------------------------------------
(* The rules.                                                              *)

cfs_period(s) == ((s.period \div 100) * s.percent) % ULong

\* Bug: the quota of one processor.
cpu_quota_of_one(s) == ((s.period * s.percent) % ULong) \div 100

\* cpu_quota(); its third parameter is an unsigned char.
cpu_quota(s) ==
  ((((s.period * s.percent) % ULong) * (s.cpus % UChar)) % ULong) \div 100

rule(controller, name, value) ==
  [controller |-> controller, name |-> name, value |-> value]

CpuRules(s) == << rule("cpu", "cpu.shares", s.shares),
                  rule("cpu", "cpu.cfs_period_us", cfs_period(s)),
                  rule("cpu", "cpu.cfs_quota_us", cpu_quota(s)) >>

MemRules(words) == [k \in 1 .. Len(words) |->
  rule("memory", "memory.kmem.limit_in_bytes", words[k])]

Apply ==
  /\ outcome = "parsing"
  /\ i > Len(argv)
  /\ IF Len(mem) + 3 > Slots
     THEN Ends("overrun")
     ELSE /\ rules' = MemRules(mem) \o CpuRules(settings)
          /\ outcome' = "applied"
          /\ UNCHANGED <<argv, i, settings, mem>>

Next == \/ TakeShares \/ TakePeriod \/ TakePercent \/ TakeCpus
        \/ TakeMemlimit \/ MissingValue \/ InvalidOption \/ Apply

Spec == Init /\ [][Next]_vars

-----------------------------------------------------------------------------
(* Properties.                                                             *)

\* Every variable keeps its type.
TypeOK ==
  /\ argv \in Seq(Options \cup Words)
  /\ i \in Nat \ {0}
  /\ settings \in [shares : Nat, period : Nat, percent : 1 .. 100, cpus : Nat]
  /\ mem \in Seq(Options \cup Words)
  /\ outcome \in {"parsing", "applied", "rejected", "crashed", "overrun"}

\* The turns of the loop: an option at every other argument.
Turns == {k \in 1 .. Len(argv) : k % 2 = 1}

Given(opt) == {k \in Turns : argv[k] = opt}

\* The option at k is one, and has a value in its range.
Valid(k) ==
  /\ argv[k] \in Options
  /\ k < Len(argv)
  /\ LET n == number(argv[k + 1])
     IN  /\ argv[k] # "--memlimit" \/ ChecksMemory => n > 0
         /\ argv[k] = "--percent" => n <= 100

\* cgroup() is called only when every option of the line is valid; the first
\* one that is not ends config() before it has called anything.
AllOrNothing ==
  /\ rules # <<>> => outcome = "applied"
  /\ outcome = "applied" => \A k \in Turns : Valid(k)
  /\ outcome \in {"rejected", "crashed"} => \E k \in Turns : ~Valid(k)

\* value is the last one the line gives for opt, or else the default.
IsLast(opt, value, default) ==
  \/ Given(opt) = {} /\ value = default
  \/ \E k \in Given(opt) : /\ value = number(argv[k + 1])
                           /\ \A l \in Given(opt) : l <= k

\* An option given twice counts once, with its last value; --memlimit counts
\* every time, in the order of the line.
LastOptionWins == outcome = "applied" =>
  /\ IsLast("--shares",  settings.shares,  1024)
  /\ IsLast("--period",  settings.period,  100000)
  /\ IsLast("--percent", settings.percent, 100)
  /\ IsLast("--cpus",    settings.cpus,    1)
  /\ Len(rules) = Cardinality(Given("--memlimit")) + 3
  /\ \A k \in Given("--memlimit") :
       rules[Cardinality({l \in Given("--memlimit") : l <= k})].value
         = argv[k + 1]

\* The array of rules is large enough for all but Slots - 3 --memlimit.
SlotsSuffice ==
  outcome = "overrun" => Cardinality(Given("--memlimit")) > Slots - 3

\* What the pair of rules of lines 203 and 211 means to the kernel, when the
\* period divides and nothing wraps: --cpus processors at most, and no less
\* than --percent of them.
CpuInBounds ==
  LET s      == settings
      period == rules[Len(rules) - 1].value
      quota  == rules[Len(rules)].value
  IN  outcome = "applied" /\ s.period % 100 = 0 /\ s.cpus < UChar
        /\ s.period * s.percent < ULong
        /\ s.period * s.percent * s.cpus < ULong
      => /\ quota <= period * s.cpus
         /\ 100 * quota >= period * s.percent * s.cpus

-----------------------------------------------------------------------------
(* What the repository says and config() does not do.                      *)

\* README.md lists CPU control "Em %" and defines --percent as a number from
\* 1 to 100: the quota is at most that share of the processors asked for.
PercentLimitsCpu == outcome = "applied" /\ settings.period % 100 = 0 =>
  (100 * cpu_quota(settings)) \div cfs_period(settings)
    <= settings.cpus * settings.percent

\* ASSERT(cpu_cpus > 0) and the other ASSERTs of the loop: no quota of 0.
QuotaIsPositive == outcome = "applied" /\ settings.period >= 100 =>
  rules[Len(rules)].value > 0
=============================================================================

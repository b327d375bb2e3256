------------------------------- MODULE Cgroup -------------------------------
(***************************************************************************)
(* cgroup() and cgroup_rule() of doqueru.cpp and steps/cgroup.cpp: how     *)
(* launches write their rules into the one control group "doquerinho/" of  *)
(* each controller and enter it.                                           *)
(*                                                                         *)
(* The group outlives the launches and nothing removes it; launches run    *)
(* at any time, side by side or one after the other.  The ASSERTMSGs of    *)
(* cgroup_rule() compare with 0 and 1, not with -1, so that a system call  *)
(* that fails goes unnoticed there.                                        *)
(***************************************************************************)
EXTENDS Naturals, Sequences

CONSTANTS
  Launch,    \* launches
  Rules,     \* [Launch -> Seq(rule)]: the rules of each, see Config
  NoStdout,  \* launches started with file descriptor 1 closed
  Default    \* what the kernel puts into a new group, no value of a rule

ASSUME CgroupAssumption ==
  /\ \A l \in Launch : /\ Rules[l] \in Seq([controller : STRING,
                                            name : STRING, value : STRING])
                       /\ Rules[l] # <<>>
  /\ NoStdout \subseteq Launch
  /\ Default \in STRING

RuleSet == UNION {{Rules[l][n] : n \in DOMAIN Rules[l]} : l \in Launch}

Controllers == {r.controller : r \in RuleSet}
Files       == {<<r.controller, r.name>> : r \in RuleSet}

VARIABLES
  at,          \* [Launch -> ...]: where a launch is in cgroup()
  n,           \* [Launch -> Nat]: the rule it is at
  dirs,        \* controllers that have the group
  limit,       \* [Files -> value]
  procs,       \* [Controllers -> SUBSET Launch]: cgroup.procs
  latest,      \* launches that no later one has followed (history)
  overlapped,  \* launches that ran while another did (history)
  unnoticed    \* launches of which a call failed unnoticed (history)

history == <<latest, overlapped, unnoticed>>
vars    == <<at, n, dirs, limit, procs, history>>

Active  == {l \in Launch : at[l] \in {"mkdir", "limit", "procs"}}
Rule(l) == Rules[l][n[l]]
File(r) == <<r.controller, r.name>>

Goto(l, where) == at' = [at EXCEPT ![l] = where]

-----------------------------------------------------------------------------
Init ==
  /\ at     = [l \in Launch |-> "start"]
  /\ n      = [l \in Launch |-> 1]
  /\ dirs   = {}
  /\ limit  = [f \in Files |-> Default]
  /\ procs  = [c \in Controllers |-> {}]
  /\ latest = {}
  /\ overlapped = {}
  /\ unnoticed  = {}

\* cgroup() is called; the name ends in "/".
Start(l) ==
  /\ at[l] = "start"
  /\ Goto(l, "mkdir")
  /\ latest' = {l}
  /\ overlapped' = IF Active = {} THEN overlapped
                                  ELSE overlapped \cup Active \cup {l}
  /\ UNCHANGED <<n, dirs, limit, procs, unnoticed>>

\* mkdir(), where EEXIST is no failure
MakeGroup(l) ==
  /\ at[l] = "mkdir"
  /\ dirs' = dirs \cup {Rule(l).controller}
  /\ Goto(l, "limit")
  /\ UNCHANGED <<n, limit, procs, history>>

\* Any other failure of mkdir() is asserted.
MakeGroupFails(l) ==
  /\ at[l] = "mkdir"
  /\ Rule(l).controller \notin dirs
  /\ Goto(l, "exit1")
  /\ UNCHANGED <<n, dirs, limit, procs, history>>

\* open() and write() of the rule's file
WriteLimit(l) ==
  /\ at[l] = "limit"
  /\ Rule(l).value # ""
  /\ limit' = [limit EXCEPT ![File(Rule(l))] = Rule(l).value]
  /\ Goto(l, "procs")
  /\ UNCHANGED <<n, dirs, procs, history>>

\* One of them returns -1: ASSERTMSG(0 != write(...)) holds.
WriteLimitFails(l) ==
  /\ at[l] = "limit"
  /\ unnoticed' = unnoticed \cup {l}
  /\ Goto(l, "procs")
  /\ UNCHANGED <<n, dirs, limit, procs, latest, overlapped>>

\* write() returns 0, as for an empty value: both ASSERTMSGs exit.
WritesNothing(l) ==
  /\ at[l] \in {"limit", "procs"}
  /\ Goto(l, "exit1")
  /\ UNCHANGED <<n, dirs, limit, procs, history>>

\* Bug: ++i twice.
SkipRule(l) ==
  /\ Goto(l, IF n[l] = Len(Rules[l]) THEN "done" ELSE "mkdir")
  /\ n' = IF n[l] = Len(Rules[l]) THEN n ELSE [n EXCEPT ![l] = @ + 2]

NextRule(l) ==
  /\ Goto(l, IF n[l] = Len(Rules[l]) THEN "done" ELSE "mkdir")
  /\ n' = IF n[l] = Len(Rules[l]) THEN n ELSE [n EXCEPT ![l] = @ + 1]

\* Bug: the launcher enters the group of its first rule only.
RegisterOnce(l) ==
  /\ at[l] = "procs"
  /\ l \notin NoStdout
  /\ procs' = IF n[l] > 1 THEN procs
              ELSE [procs EXCEPT ![Rule(l).controller] = @ \cup {l}]
  /\ NextRule(l)
  /\ UNCHANGED <<dirs, limit, history>>

\* "0" is written into cgroup.procs: the launcher enters the group.
Register(l) ==
  /\ at[l] = "procs"
  /\ l \notin NoStdout
  /\ procs' = [procs EXCEPT ![Rule(l).controller] = @ \cup {l}]
  /\ NextRule(l)
  /\ UNCHANGED <<dirs, limit, history>>

RegisterFails(l) ==
  /\ at[l] = "procs"
  /\ unnoticed' = unnoticed \cup {l}
  /\ NextRule(l)
  /\ UNCHANGED <<dirs, limit, procs, latest, overlapped>>

\* open() succeeds and returns 1, which the ASSERTMSG takes for a failure.
OpensAsStdout(l) ==
  /\ at[l] = "procs"
  /\ l \in NoStdout
  /\ Goto(l, "exit1")
  /\ UNCHANGED <<n, dirs, limit, procs, history>>

Kill(l) ==
  /\ l \in Active
  /\ Goto(l, "killed")
  /\ UNCHANGED <<n, dirs, limit, procs, history>>

cgroup_rule(l) == WriteLimit(l) \/ WriteLimitFails(l) \/ Register(l)
                    \/ RegisterFails(l) \/ OpensAsStdout(l)
                    \/ WritesNothing(l)
cgroup(l)      == Start(l) \/ MakeGroup(l) \/ MakeGroupFails(l)
                    \/ cgroup_rule(l)

Next == \E l \in Launch : cgroup(l) \/ Kill(l)

Spec == Init /\ [][Next]_vars

-----------------------------------------------------------------------------
(* Properties.                                                             *)

\* Every variable keeps its type.
TypeOK ==
  /\ at \in [Launch -> {"start", "mkdir", "limit", "procs", "done", "exit1",
                        "killed"}]
  /\ n \in [Launch -> Nat \ {0}]
  /\ \A l \in Launch : n[l] <= Len(Rules[l])
  /\ dirs \subseteq Controllers
  /\ limit \in [Files -> {Default} \cup {r.value : r \in RuleSet}]
  /\ procs \in [Controllers -> SUBSET Launch]
  /\ latest \subseteq Launch
  /\ overlapped \subseteq Launch
  /\ unnoticed \subseteq Launch

\* The rule of l that is written last into the file of rule m.
LastFor(l, m) ==
  \A k \in DOMAIN Rules[l] : File(Rules[l][k]) = File(Rules[l][m]) => k <= m

\* The last launch to run cgroup() is in every group it has rules for and
\* has its own limits there, of a repeated rule the last, whatever earlier
\* launches wrote, failed to write or left half written: unless another one
\* ran at the same time or one of its own calls failed unnoticed.
LimitsInForce ==
  \A l \in latest \ (overlapped \cup unnoticed) : at[l] = "done" =>
    \A m \in DOMAIN Rules[l] :
      /\ l \in procs[Rules[l][m].controller]
      /\ LastFor(l, m) => limit[File(Rules[l][m])] = Rules[l][m].value

-----------------------------------------------------------------------------
(* What the repository says and cgroup_rule() does not do.                 *)

\* _assert() is there to "show error message and exit", and the assertion of
\* the last write has the message "error on registering groups": a launch
\* that passes it is registered.
RegisteredWhenDone ==
  \A l \in Launch : at[l] = "done" =>
    \A m \in DOMAIN Rules[l] : l \in procs[Rules[l][m].controller]
=============================================================================

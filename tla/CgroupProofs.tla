---------------------------- MODULE CgroupProofs ----------------------------
(***************************************************************************)
(* Proofs about Cgroup, for any launches, any lists of rules, and any      *)
(* number of calls that fail.                                              *)
(*                                                                         *)
(* The argument: what the launch that came last has behind it is in force  *)
(* (InForce), because whoever else is still at work has been noted as      *)
(* overlapping it (Alone), and a launch that is done has all of its rules  *)
(* behind it (AtLastRule).                                                 *)
(***************************************************************************)
EXTENDS Cgroup, TLAPS, SequenceTheorems

\* The rules of l whose limits it has written, and whose groups it has entered.
Written(l) == {m \in DOMAIN Rules[l] :
                 m < n[l] \/ (m = n[l] /\ at[l] \in {"procs", "done"})}
Entered(l) == {m \in DOMAIN Rules[l] :
                 m < n[l] \/ (m = n[l] /\ at[l] = "done")}

\* Rule m of l is the last of those to be written into its file.
LastSoFar(l, m) ==
  \A k \in Written(l) : File(Rules[l][k]) = File(Rules[l][m]) => k <= m

Going == {"mkdir", "limit", "procs", "done"}

Undisturbed == {l \in latest \ (overlapped \cup unnoticed) : at[l] \in Going}

InForce ==
  \A l \in Undisturbed :
    /\ \A m \in Entered(l) : l \in procs[Rules[l][m].controller]
    /\ \A m \in Written(l) :
         LastSoFar(l, m) => limit[File(Rules[l][m])] = Rules[l][m].value

Alone == \A l \in latest : \A k \in Active : k # l => l \in overlapped

AtLastRule == \A l \in Launch : /\ at[l] = "start" => n[l] = 1
                                /\ at[l] = "done" => n[l] = Len(Rules[l])

IInv == TypeOK /\ AtLastRule /\ Alone /\ InForce

-----------------------------------------------------------------------------
(* The rules of a launch.                                                  *)

LEMMA RulesAreSequences ==
  ASSUME NEW l \in Launch
  PROVE  /\ Rules[l] \in Seq([controller : STRING, name : STRING,
                              value : STRING])
         /\ Len(Rules[l]) \in Nat \ {0}
         /\ DOMAIN Rules[l] = 1 .. Len(Rules[l])
<1>1. Rules[l] \in Seq([controller : STRING, name : STRING, value : STRING])
        /\ Rules[l] # <<>>
  BY CgroupAssumption
<1> QED
  BY <1>1, EmptySeq, LenProperties

\* The file and the controller of a rule are known to the model.
LEMMA RuleIsKnown ==
  ASSUME NEW l \in Launch, NEW m \in DOMAIN Rules[l]
  PROVE  /\ Rules[l][m].controller \in Controllers
         /\ File(Rules[l][m]) \in Files
         /\ Rules[l][m].value \in {r.value : r \in RuleSet}
<1>1. Rules[l][m] \in RuleSet
  BY DEF RuleSet
<1> QED
  BY <1>1 DEF Controllers, Files, File

\* A launch is at one of its rules.
LEMMA AtARule ==
  ASSUME TypeOK, NEW l \in Launch
  PROVE  n[l] \in DOMAIN Rules[l]
BY RulesAreSequences DEF TypeOK

-----------------------------------------------------------------------------
(* Types.                                                                  *)

LEMMA TypeInit == Init => TypeOK
BY RulesAreSequences DEF Init, TypeOK

LEMMA TypeNextRule ==
  ASSUME TypeOK, NEW l \in Launch, NextRule(l)
  PROVE  /\ at' \in [Launch -> {"start", "mkdir", "limit", "procs", "done",
                                "exit1", "killed"}]
         /\ n' \in [Launch -> Nat \ {0}]
         /\ \A k \in Launch : n'[k] <= Len(Rules[k])
<1>1. Len(Rules[l]) \in Nat /\ n[l] \in Nat \ {0} /\ n[l] <= Len(Rules[l])
  BY RulesAreSequences DEF TypeOK
<1> QED
  BY <1>1 DEF TypeOK, NextRule, Goto

LEMMA TypeStep == TypeOK /\ [Next]_vars => TypeOK'
<1> SUFFICES ASSUME TypeOK, [Next]_vars PROVE TypeOK'
  OBVIOUS
<1>1. ASSUME NEW l \in Launch, cgroup(l) \/ Kill(l) PROVE TypeOK'
  <2>1. /\ n[l] \in DOMAIN Rules[l]
        /\ Rule(l).controller \in Controllers
        /\ File(Rule(l)) \in Files
        /\ Rule(l).value \in {r.value : r \in RuleSet}
    BY AtARule, RuleIsKnown DEF Rule
  <2>2. CASE Start(l)
    BY <2>2 DEF Start, Goto, TypeOK, Active
  <2>3. CASE MakeGroup(l)
    BY <2>1, <2>3 DEF MakeGroup, Goto, TypeOK, history
  <2>4. CASE MakeGroupFails(l)
    BY <2>4 DEF MakeGroupFails, Goto, TypeOK, history
  <2>5. CASE WriteLimit(l)
    BY <2>1, <2>5 DEF WriteLimit, Goto, TypeOK, history
  <2>6. CASE WriteLimitFails(l)
    BY <2>6 DEF WriteLimitFails, Goto, TypeOK
  <2>7. CASE Register(l)
    BY <2>1, <2>7, TypeNextRule DEF Register, TypeOK, history
  <2>8. CASE RegisterFails(l)
    BY <2>8, TypeNextRule DEF RegisterFails, TypeOK
  <2>9. CASE OpensAsStdout(l) \/ WritesNothing(l) \/ Kill(l)
    BY <2>9 DEF OpensAsStdout, WritesNothing, Kill, Goto, TypeOK, history
  <2> QED
    BY <1>1, <2>2, <2>3, <2>4, <2>5, <2>6, <2>7, <2>8, <2>9
    DEF cgroup, cgroup_rule
<1>2. CASE UNCHANGED vars
  BY <1>2 DEF vars, history, TypeOK
<1> QED
  BY <1>1, <1>2 DEF Next

\* Every variable of cgroup() keeps its type, and no launch goes past the last
\* of its rules (lines 120-128).
THEOREM TypeCorrect == Spec => []TypeOK
BY TypeInit, TypeStep, PTL DEF Spec
-----------------------------------------------------------------------------
(* Who is at work beside the last launch.                                  *)

LEMMA AtLastRuleStep ==
  ASSUME TypeOK, AtLastRule, [Next]_vars
  PROVE  AtLastRule'
<1>1. ASSUME NEW l \in Launch, cgroup(l) \/ Kill(l) PROVE AtLastRule'
  <2>1. CASE Register(l) \/ RegisterFails(l)
    BY <2>1 DEF Register, RegisterFails, NextRule, Goto, AtLastRule, TypeOK
  <2>2. CASE ~(Register(l) \/ RegisterFails(l))
    BY <1>1, <2>2 DEF cgroup, cgroup_rule, Start, MakeGroup, MakeGroupFails,
      WriteLimit, WriteLimitFails, OpensAsStdout, WritesNothing, Kill, Goto,
      AtLastRule, TypeOK
  <2> QED
    BY <2>1, <2>2
<1>2. CASE UNCHANGED vars
  BY <1>2 DEF vars, AtLastRule
<1> QED
  BY <1>1, <1>2 DEF Next

\* Every step but the first is that of an active launch, and starts no other.
LEMMA OnlyTheActive ==
  ASSUME TypeOK, NEW l \in Launch, cgroup(l) \/ Kill(l), ~Start(l)
  PROVE  /\ l \in Active
         /\ Active' \subseteq Active
         /\ latest' = latest
         /\ overlapped' = overlapped
         /\ unnoticed \subseteq unnoticed'
         /\ \A k \in Launch \ {l} : at'[k] = at[k] /\ n'[k] = n[k]
BY DEF cgroup, cgroup_rule, MakeGroup, MakeGroupFails, WriteLimit,
  WriteLimitFails, Register, RegisterFails, NextRule, OpensAsStdout,
  WritesNothing, Kill, Goto, Active, TypeOK, history

LEMMA AloneStep ==
  ASSUME TypeOK, Alone, [Next]_vars
  PROVE  Alone'
<1>1. ASSUME NEW l \in Launch, cgroup(l) \/ Kill(l) PROVE Alone'
  <2>1. CASE Start(l)
    <3>1. Active' \subseteq Active \cup {l}
      BY <2>1 DEF Start, Goto, Active, TypeOK
    <3>2. latest' = {l} /\ (Active = {} \/ l \in overlapped')
      BY <2>1 DEF Start
    <3> QED
      BY <3>1, <3>2 DEF Alone
  <2>2. CASE ~Start(l)
    BY <1>1, <2>2, OnlyTheActive DEF Alone
  <2> QED
    BY <2>1, <2>2
<1>2. CASE UNCHANGED vars
  BY <1>2 DEF vars, history, Alone, Active
<1> QED
  BY <1>1, <1>2 DEF Next

-----------------------------------------------------------------------------
(* What the last launch has in force.                                      *)

\* InForce, of one launch.
Holds(l) ==
  /\ \A m \in Entered(l) : l \in procs[Rules[l][m].controller]
  /\ \A m \in Written(l) :
       LastSoFar(l, m) => limit[File(Rules[l][m])] = Rules[l][m].value

\* The next rule replaces what earlier ones wrote into its file, and only that.
LEMMA WriteLimitHolds ==
  ASSUME IInv, NEW l \in Undisturbed, WriteLimit(l)
  PROVE  Holds(l)'
<1> DEFINE r == n[l]
<1>1. /\ l \in Launch /\ at[l] = "limit" /\ at'[l] = "procs" /\ n' = n
      /\ procs' = procs /\ limit' = [limit EXCEPT ![File(Rule(l))] = Rule(l).value]
  BY DEF WriteLimit, Goto, history, IInv, TypeOK, Undisturbed
<1>2. r \in DOMAIN Rules[l] /\ DOMAIN Rules[l] \subseteq Nat
  BY <1>1, AtARule, RulesAreSequences DEF IInv
<1>3. Written(l)' = Written(l) \cup {r} /\ r \notin Written(l)
  BY <1>1, <1>2 DEF Written
<1>4. Entered(l)' = Entered(l)
  BY <1>1, <1>2 DEF Entered
<1>5. Holds(l)
  BY DEF IInv, InForce, Holds
<1>6. \A m \in DOMAIN Rules[l] : File(Rules[l][m])' = File(Rules[l][m])
  BY DEF File
<1>7. ASSUME NEW m \in Written(l)', LastSoFar(l, m)'
      PROVE  limit'[File(Rules[l][m])] = Rules[l][m].value
  <2>1. CASE m = r
    BY <1>1, <1>2, <2>1, RuleIsKnown DEF Rule, IInv, TypeOK
  <2>2. CASE m # r
    <3>1. m \in Written(l) /\ m < r
      BY <1>1, <1>3, <2>2 DEF Written
    <3>2. r \in Written(l)'
      BY <1>3
    <3>3. File(Rules[l][m]) # File(Rules[l][r])
      BY <1>2, <1>7, <3>1, <3>2 DEF LastSoFar, File, Written
    <3>4. LastSoFar(l, m)
      BY <1>3, <1>7 DEF LastSoFar, File
    <3>5. m \in DOMAIN Rules[l]
      BY <3>1 DEF Written
    <3> QED
      BY <1>1, <1>2, <1>5, <3>1, <3>3, <3>4, <3>5, RuleIsKnown
      DEF Holds, Rule, IInv, TypeOK
  <2> QED
    BY <2>1, <2>2
<1>8. ASSUME NEW m \in Entered(l)' PROVE l \in procs'[Rules[l][m].controller]
  BY <1>1, <1>4, <1>5 DEF Holds
<1> QED
  BY <1>7, <1>8 DEF Holds, File

\* Entering the group leaves limits and members as they are.
LEMMA RegisterHolds ==
  ASSUME IInv, NEW l \in Undisturbed, Register(l)
  PROVE  Holds(l)'
<1> DEFINE r == n[l]
<1>1. /\ l \in Launch /\ at[l] = "procs" /\ limit' = limit
      /\ procs' = [procs EXCEPT ![Rule(l).controller] = @ \cup {l}]
  BY DEF Register, history, Undisturbed, IInv, TypeOK
<1>2. /\ r \in DOMAIN Rules[l]
      /\ DOMAIN Rules[l] = 1 .. Len(Rules[l]) /\ Len(Rules[l]) \in Nat
  BY <1>1, AtARule, RulesAreSequences DEF IInv
<1>3. \/ r = Len(Rules[l]) /\ at'[l] = "done" /\ n'[l] = r
      \/ r < Len(Rules[l]) /\ at'[l] = "mkdir" /\ n'[l] = r + 1
  BY <1>1, <1>2 DEF Register, NextRule, Goto, IInv, TypeOK
<1>4. Written(l)' = Written(l)
  BY <1>1, <1>2, <1>3 DEF Written
<1>5. Entered(l)' = Entered(l) \cup {r}
  BY <1>1, <1>2, <1>3 DEF Entered
<1>6. Holds(l)
  BY DEF IInv, InForce, Holds
<1>7. ASSUME NEW m \in Entered(l)' PROVE l \in procs'[Rules[l][m].controller]
  <2>1. Rules[l][m].controller \in Controllers
    BY <1>1, RuleIsKnown DEF Entered
  <2> QED
    BY <1>1, <1>5, <1>6, <2>1 DEF Holds, Rule, IInv, TypeOK
<1>8. ASSUME NEW m \in Written(l)', LastSoFar(l, m)'
      PROVE  limit'[File(Rules[l][m])] = Rules[l][m].value
  BY <1>1, <1>4, <1>6, <1>8 DEF Holds, LastSoFar, File
<1> QED
  BY <1>7, <1>8 DEF Holds, File

LEMMA InForceStep ==
  ASSUME IInv, [Next]_vars
  PROVE  InForce'
<1>1. ASSUME NEW k \in Launch, cgroup(k) \/ Kill(k), NEW l \in Undisturbed'
      PROVE  Holds(l)'
  <2>1. CASE Start(k)
    <3>1. l = k /\ l \in Launch
      BY <2>1 DEF Start, Undisturbed
    <3>2. at'[l] = "mkdir" /\ n'[l] = 1
      BY <2>1, <3>1 DEF Start, Goto, IInv, TypeOK, AtLastRule
    <3>3. DOMAIN Rules[l] = 1 .. Len(Rules[l])
      BY <3>1, RulesAreSequences
    <3>4. Written(l)' = {} /\ Entered(l)' = {}
      BY <3>2, <3>3 DEF Written, Entered
    <3> QED
      BY <3>4 DEF Holds
  <2>2. CASE ~Start(k)
    <3>1. /\ k \in Active /\ latest' = latest /\ overlapped' = overlapped
          /\ unnoticed \subseteq unnoticed'
          /\ \A j \in Launch \ {k} : at'[j] = at[j]
      BY <1>1, <2>2, OnlyTheActive DEF IInv
    <3>2. l \in Launch /\ l \in latest /\ l \notin overlapped
      BY <3>1 DEF Undisturbed, IInv, TypeOK
    <3>3. k = l
      BY <3>1, <3>2 DEF Alone, IInv
    <3>4. l \in Undisturbed
      BY <3>1, <3>2, <3>3 DEF Undisturbed, Active, Going
    <3>5. CASE MakeGroup(l)
      <4>1. /\ at[l] = "mkdir" /\ at'[l] = "limit" /\ n' = n
            /\ limit' = limit /\ procs' = procs
        BY <3>2, <3>5 DEF MakeGroup, Goto, history, IInv, TypeOK
      <4>2. Written(l)' = Written(l) /\ Entered(l)' = Entered(l)
        BY <4>1 DEF Written, Entered
      <4>3. Holds(l)
        BY <3>4 DEF IInv, InForce, Holds
      <4> QED
        BY <4>1, <4>2, <4>3 DEF Holds, LastSoFar, File
    <3>6. CASE MakeGroupFails(l) \/ OpensAsStdout(l) \/ WritesNothing(l) \/ Kill(l)
      <4>1. at'[l] \in {"exit1", "killed"}
        BY <3>2, <3>6
        DEF MakeGroupFails, OpensAsStdout, WritesNothing, Kill, Goto, IInv, TypeOK
      <4> QED
        BY <4>1 DEF Undisturbed, Going
    <3>7. CASE WriteLimitFails(l) \/ RegisterFails(l)
      BY <3>7 DEF WriteLimitFails, RegisterFails, Undisturbed
    <3>8. CASE WriteLimit(l)
      BY <3>4, <3>8, WriteLimitHolds
    <3>9. CASE Register(l)
      BY <3>4, <3>9, RegisterHolds
    <3> QED
      BY <1>1, <2>2, <3>3, <3>5, <3>6, <3>7, <3>8, <3>9
      DEF cgroup, cgroup_rule
  <2> QED
    BY <2>1, <2>2
<1>2. CASE UNCHANGED vars
  BY <1>2 DEF vars, history, IInv, InForce, Undisturbed, Written, Entered,
    LastSoFar, File
<1>3. CASE Next
  BY <1>1, <1>3 DEF Next, InForce, Holds
<1> QED
  BY <1>2, <1>3

-----------------------------------------------------------------------------
\* The inductive invariant, for any launches and rules.
THEOREM InvariantHolds == Spec => []IInv
<1>1. Init => IInv
  <2>1. Init => AtLastRule /\ Alone /\ InForce
    BY DEF Init, AtLastRule, Alone, InForce, Undisturbed
  <2> QED
    BY <2>1, TypeInit DEF IInv
<1>2. IInv /\ [Next]_vars => IInv'
  <2> SUFFICES ASSUME IInv, [Next]_vars PROVE IInv'
    OBVIOUS
  <2>1. TypeOK /\ AtLastRule /\ Alone
    BY DEF IInv
  <2> QED
    BY <2>1, TypeStep, AtLastRuleStep, AloneStep, InForceStep DEF IInv
<1> QED
  BY <1>1, <1>2, PTL DEF Spec

\* The last launch has its own limits and is in its groups, however many came
\* before it and wherever they stopped (lines 99-129).
THEOREM LimitsAreInForce == Spec => []LimitsInForce
<1>1. IInv => LimitsInForce
  <2> SUFFICES ASSUME IInv, NEW l \in latest \ (overlapped \cup unnoticed),
                      at[l] = "done", NEW m \in DOMAIN Rules[l]
               PROVE  /\ l \in procs[Rules[l][m].controller]
                      /\ LastFor(l, m) =>
                           limit[File(Rules[l][m])] = Rules[l][m].value
    BY DEF LimitsInForce
  <2>1. l \in Launch /\ l \in Undisturbed
    BY DEF IInv, TypeOK, Undisturbed, Going
  <2>2. n[l] = Len(Rules[l])
    BY <2>1 DEF IInv, AtLastRule
  <2>3. DOMAIN Rules[l] = 1 .. Len(Rules[l]) /\ Len(Rules[l]) \in Nat
    BY <2>1, RulesAreSequences
  <2>4. m \in Written(l) /\ m \in Entered(l) /\ Written(l) \subseteq DOMAIN Rules[l]
    BY <2>2, <2>3 DEF Written, Entered
  <2>5. LastFor(l, m) => LastSoFar(l, m)
    BY <2>4 DEF LastFor, LastSoFar
  <2> QED
    BY <2>1, <2>4, <2>5 DEF IInv, InForce
<1> QED
  BY <1>1, InvariantHolds, PTL
=============================================================================

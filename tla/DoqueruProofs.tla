--------------------------- MODULE DoqueruProofs ---------------------------
(***************************************************************************)
(* Proofs about Doqueru, for every MaxPid and every set Inherited.         *)
(*                                                                         *)
(* The argument: the processes of the namespace form a tree whose edges    *)
(* lead to smaller pids (NobodyOrphaned).  When wait() tells init it has   *)
(* no child, the member with the least pid would have a parent that is     *)
(* neither init nor smaller, so there is no member (AloneIfChildless).     *)
(* From then on nobody is left to fork, until the launcher returns.        *)
(***************************************************************************)
EXTENDS Doqueru, TLAPS, WellFoundedInduction

-----------------------------------------------------------------------------
(* Pids are well founded.                                                  *)

\* No descending chain of pids is endless.
LEMMA LessThanWellFounded == IsWellFoundedOn(OpToRel(<, Nat), Nat)
BY NatLessThanWellFounded

\* A set of pids that is not empty has a least one.
LEMMA LeastPid ==
  ASSUME NEW T, T \subseteq Nat, T # {}
  PROVE  \E x \in T : \A y \in T : ~(y < x)
<1>1. \E x \in T : \A y \in T : ~(<<y, x>> \in OpToRel(<, Nat))
  BY LessThanWellFounded, WFMin
<1>2. \A a, b \in Nat : a < b => <<a, b>> \in OpToRel(<, Nat)
  BY DEF OpToRel
<1>3. \E x \in T : \A y \in T : ~(x \in Nat /\ y \in Nat /\ y < x)
  BY <1>1, <1>2, Zenon
<1> QED
  BY <1>3

\* When wait() fails with ECHILD in init, init is alone in its namespace.
LEMMA AloneIfChildless ==
  ASSUME TypeOK, NobodyOrphaned, NoChild \in WaitResults(InitPid)
  PROVE  Members = {}
<1> SUFFICES ASSUME Members # {} PROVE FALSE
  OBVIOUS
<1>1. Members \subseteq Nat
  BY MaxPidAssumption DEF Members, Pid
<1>2. PICK p \in Members : \A q \in Members : ~(q < p)
  BY <1>1, LeastPid
<1>3. {c \in Members : parent[c] = InitPid} = {}
  BY MaxPidAssumption DEF WaitResults, Members, Pid, NoChild
<1>4. parent[p] < p /\ state[parent[p]] = "run"
  BY <1>3 DEF NobodyOrphaned
<1>5. parent[p] \in Members
  BY <1>3, <1>4, MaxPidAssumption DEF TypeOK, Members, Pid, InitPid
<1> QED
  BY <1>2, <1>4, <1>5

\* What wait() returns to a process is a zombie of the namespace.
LEMMA WaitReturnsZombies ==
  ASSUME NEW p, NEW c \in WaitResults(p), c # NoChild
  PROVE  c \in Pid /\ state[c] = "zombie"
BY DEF WaitResults, Members

-----------------------------------------------------------------------------
(* The three ways the tree changes keep it a tree.                         *)

Tree ==
  /\ state \in [Pid -> {"free", "exec", "run", "zombie", "reaped"}]
  /\ parent \in [Pid -> 1 .. MaxPid]
  /\ lastpid \in 1 .. MaxPid
  /\ NobodyOrphaned
  /\ FreshPids

\* What NobodyOrphaned says of one member.
Adopted(p) ==
  parent[p] = InitPid \/ (parent[p] < p /\ state[parent[p]] = "run")

\* reaping a zombie
LEMMA ReapKeepsTree ==
  ASSUME Tree, NEW c \in Pid, state[c] = "zombie",
         Reap(c), UNCHANGED <<parent, lastpid>>
  PROVE  Tree' /\ Members' \subseteq Members
BY DEF Tree, NobodyOrphaned, FreshPids, Members, Reap

\* a process ending
LEMMA EndsKeepsTree ==
  ASSUME Tree, NEW p \in Members,
         NEW how \in {"zombie", "reaped"}, Ends(p, how), UNCHANGED lastpid
  PROVE  Tree' /\ Members' \subseteq Members
<1>1. state' \in [Pid -> {"free", "exec", "run", "zombie", "reaped"}]
  BY DEF Tree, Ends
<1>2. parent' \in [Pid -> 1 .. MaxPid]
  BY MaxPidAssumption DEF Tree, Ends, InitPid
<1>3. Members' \subseteq Members
  BY DEF Tree, Members, Ends
<1>4. FreshPids'
  BY DEF Tree, FreshPids, Members, Ends
<1>5. ASSUME NEW q \in Members' PROVE Adopted(q)'
  <2>1. q \in Members /\ q \in Pid /\ Adopted(q)
    BY <1>3 DEF Tree, NobodyOrphaned, Adopted, Members
  <2>2. CASE parent[q] = p
    BY <2>1, <2>2 DEF Ends, Adopted
  <2>3. CASE parent[q] # p
    <3>1. parent'[q] = parent[q]
      BY <2>1, <2>3 DEF Ends
    <3>2. CASE parent[q] = InitPid
      BY <3>1, <3>2 DEF Adopted
    <3>3. CASE parent[q] # InitPid
      <4>1. parent[q] \in Pid
        BY <2>1, <3>3, MaxPidAssumption DEF Tree, Pid, InitPid
      <4>2. state'[parent[q]] = state[parent[q]]
        BY <2>3, <4>1 DEF Tree, Ends
      <4> QED
        BY <2>1, <3>1, <3>3, <4>2 DEF Adopted
    <3> QED
      BY <3>2, <3>3
  <2> QED
    BY <2>2, <2>3
<1> QED
  BY <1>1, <1>2, <1>3, <1>4, <1>5 DEF Tree, NobodyOrphaned, Adopted

\* a fork by pid 1 or by a running process
LEMMA ForkKeepsTree ==
  ASSUME Tree, NEW p \in 1 .. MaxPid, NEW stage \in {"exec", "run"},
         p = InitPid \/ (p \in Pid /\ state[p] = "run"), Fork(p, stage)
  PROVE  Tree'
<1>1. PICK new \in Nat : new = lastpid + 1
  BY MaxPidAssumption DEF Tree
<1>2. new \in Pid /\ p < new /\ state[new] = "free"
  BY <1>1, MaxPidAssumption DEF Tree, FreshPids, Fork, Pid, InitPid
<1>3. /\ state' = [state EXCEPT ![new] = stage]
      /\ parent' = [parent EXCEPT ![new] = p]
      /\ lastpid' = new
  BY <1>1 DEF Fork
<1>4. state' \in [Pid -> {"free", "exec", "run", "zombie", "reaped"}]
  BY <1>2, <1>3 DEF Tree
<1>5. parent' \in [Pid -> 1 .. MaxPid]
  BY <1>2, <1>3 DEF Tree
<1>6. lastpid' \in 1 .. MaxPid
  BY <1>2, <1>3, MaxPidAssumption DEF Pid
<1>7. FreshPids'
  <2> SUFFICES ASSUME NEW q \in Pid PROVE state'[q] = "free" <=> q > new
    BY <1>3 DEF FreshPids
  <2>1. CASE q = new
    BY <2>1, <1>2, <1>3, MaxPidAssumption DEF Tree, Pid
  <2>2. CASE q # new
    <3>1. state'[q] = state[q]
      BY <2>2, <1>3 DEF Tree
    <3> QED
      BY <3>1, <2>2, <1>1, MaxPidAssumption DEF Tree, FreshPids, Pid
  <2> QED
    BY <2>1, <2>2
<1>8. ASSUME NEW q \in Members' PROVE Adopted(q)'
  <2>1. q \in Pid
    BY DEF Members
  <2>2. CASE q = new
    <3>1. parent'[q] = p
      BY <2>1, <2>2, <1>3 DEF Tree
    <3>2. CASE p = InitPid
      BY <3>1, <3>2 DEF Adopted
    <3>3. CASE p # InitPid
      <4>1. p \in Pid /\ p # new /\ state[p] = "run"
        BY <3>3, <1>2
      <4>2. state'[p] = "run"
        BY <4>1, <1>3 DEF Tree
      <4> QED
        BY <3>1, <4>2, <2>2, <1>2 DEF Adopted
    <3> QED
      BY <3>2, <3>3
  <2>3. CASE q # new
    <3>1. state'[q] = state[q] /\ parent'[q] = parent[q]
      BY <2>1, <2>3, <1>3 DEF Tree
    <3>2. Adopted(q)
      BY <3>1, <2>1 DEF Tree, NobodyOrphaned, Adopted, Members
    <3>3. CASE parent[q] = InitPid
      BY <3>1, <3>3 DEF Adopted
    <3>4. CASE parent[q] # InitPid
      <4>1. parent[q] \in Pid
        BY <2>1, <3>4, MaxPidAssumption DEF Tree, Pid, InitPid
      <4>2. parent[q] # new
        BY <3>2, <3>4, <1>2 DEF Adopted
      <4>3. state'[parent[q]] = state[parent[q]]
        BY <4>1, <4>2, <1>3 DEF Tree
      <4> QED
        BY <3>1, <3>2, <3>4, <4>3 DEF Adopted
    <3> QED
      BY <3>3, <3>4
  <2> QED
    BY <2>2, <2>3
<1> QED
  BY <1>4, <1>5, <1>6, <1>7, <1>8 DEF Tree, NobodyOrphaned, Adopted

-----------------------------------------------------------------------------
(* The inductive invariant.                                                *)

\* What IInv says beyond Tree: the stages, and who is left when.
Stages ==
  /\ launcher \in {"setup", "fork", "wait", "exit0", "exit1", "killed"}
  /\ init \in {"unborn", "mkproc", "mountproc", "fork", "reap", "wait",
               "zap", "zombie", "gone"}
  /\ inherited \in [Inherited -> {"alive", "zombie", "reaped"}]
  /\ ExitLeavesNothing
  /\ InitLeavesLast
  /\ StagesAgree

\* IInv is the tree and the stages
LEMMA IInvParts == IInv <=> Tree /\ Stages
BY DEF IInv, TypeOK, Tree, Stages

\* a step that leaves the tree alone
LEMMA QuietKeepsTree ==
  ASSUME Tree, UNCHANGED <<state, parent, lastpid>>
  PROVE  Tree' /\ Members' = Members
BY DEF Tree, NobodyOrphaned, FreshPids, Members

\* a step that only shrinks the container keeps the stages
LEMMA ShrinkKeepsStages ==
  ASSUME Stages, Members' \subseteq Members,
         UNCHANGED <<launcher, init, lastpid, inherited>>
  PROVE  Stages'
BY DEF Stages, ExitLeavesNothing, InitLeavesLast, StagesAgree

\* a process that runs was forked by an init that has not left its loop
LEMMA WhoRuns ==
  ASSUME Tree, Stages, NEW p \in Members
  PROVE  init \in {"reap", "zap"}
<1>1. p \in Pid /\ state[p] # "free"
  BY DEF Members
<1>2. lastpid # InitPid
  <2> SUFFICES ASSUME lastpid = InitPid PROVE FALSE
    OBVIOUS
  <2>1. p > lastpid
    BY <1>1, MaxPidAssumption DEF Pid, InitPid
  <2> QED
    BY <1>1, <2>1 DEF Tree, FreshPids
<1> QED
  BY <1>2 DEF Stages, StagesAgree, InitLeavesLast

\* The inductive invariant holds initially.
LEMMA InitIInv == Init => IInv
<1> SUFFICES ASSUME Init PROVE Tree /\ Stages
  BY IInvParts
<1>1. Members = {}
  BY DEF Init, Members
<1>2. \A p \in Pid : p > InitPid
  BY MaxPidAssumption DEF Pid, InitPid
<1>3. Tree
  BY <1>1, <1>2, MaxPidAssumption
     DEF Init, Tree, NobodyOrphaned, FreshPids, InitPid
<1>4. Stages
  BY <1>1 DEF Init, Stages, ExitLeavesNothing, InitLeavesLast, StagesAgree
<1> QED
  BY <1>3, <1>4

\* Every step of the launcher, of init, of the user's program and of the
\* kernel preserves it.
LEMMA NextIInv == IInv /\ [Next]_vars => IInv'
<1> SUFFICES ASSUME Tree, Stages, [Next]_vars PROVE Tree' /\ Stages'
  BY DEF IInv, TypeOK, Tree, Stages
<1>parts. TypeOK /\ NobodyOrphaned
  BY DEF Tree, Stages, TypeOK
<1>1. CASE SetUp
  BY <1>1, QuietKeepsTree
     DEF SetUp, Stages, ExitLeavesNothing, InitLeavesLast, StagesAgree
<1>2. CASE LauncherAsserts
  <2>1. init = "unborn" /\ Members = {}
    BY <1>2, WhoRuns DEF LauncherAsserts, Stages, StagesAgree
  <2> QED
    BY <1>2, <2>1, QuietKeepsTree
       DEF LauncherAsserts, Stages, ExitLeavesNothing, InitLeavesLast,
           StagesAgree
<1>3. CASE ForkInit
  <2>1. lastpid = InitPid
    BY <1>3 DEF ForkInit, Stages, StagesAgree
  <2> QED
    BY <1>3, <2>1, QuietKeepsTree
       DEF ForkInit, Stages, ExitLeavesNothing, InitLeavesLast, StagesAgree
<1>4. CASE LauncherWait
  <2>1. CASE init = "zombie" /\ init' = "gone" /\ UNCHANGED inherited
    <3>1. Members = {}
      BY <2>1 DEF Stages, InitLeavesLast
    <3> QED
      BY <1>4, <2>1, <3>1, QuietKeepsTree
         DEF LauncherWait, Stages, ExitLeavesNothing, InitLeavesLast,
             StagesAgree
  <2>2. ASSUME NEW h \in Inherited,
               inherited' = [inherited EXCEPT ![h] = "reaped"],
               UNCHANGED init
        PROVE  Tree' /\ Stages'
    <3>1. inherited'[h] = "reaped"
      BY <2>2 DEF Stages
    <3>2. inherited' \in [Inherited -> {"alive", "zombie", "reaped"}]
      BY <2>2 DEF Stages
    <3> QED
      BY <1>4, <2>2, <3>1, <3>2, QuietKeepsTree
         DEF LauncherWait, Stages, ExitLeavesNothing, InitLeavesLast,
             StagesAgree
  <2> QED
    BY <1>4, <2>1, <2>2 DEF LauncherWait
<1>5. CASE MakeProcDir \/ MountProc \/ InitAsserts \/ KillInit
  BY <1>5, QuietKeepsTree
     DEF MakeProcDir, MountProc, InitAsserts, KillInit, Stages,
         ExitLeavesNothing, InitLeavesLast, StagesAgree
<1>6. CASE ForkApp
  <2>1. Tree'
    BY <1>6, ForkKeepsTree, MaxPidAssumption DEF ForkApp, InitPid
  <2> QED
    BY <1>6, <2>1
       DEF ForkApp, Stages, ExitLeavesNothing, InitLeavesLast, StagesAgree
<1>7. CASE InitReaps
  <2>1. PICK c \in WaitResults(InitPid) :
          IF c = NoChild THEN init' = "wait" /\ UNCHANGED state
                         ELSE Reap(c) /\ UNCHANGED init
    BY <1>7 DEF InitReaps
  <2>2. CASE c = NoChild
    <3>1. Members = {}
      BY <2>2, <1>parts, AloneIfChildless
    <3> QED
      BY <1>7, <2>1, <2>2, <3>1, QuietKeepsTree
         DEF InitReaps, Stages, ExitLeavesNothing, InitLeavesLast,
             StagesAgree
  <2>3. CASE c # NoChild
    BY <1>7, <2>1, <2>3, WaitReturnsZombies, ReapKeepsTree,
       ShrinkKeepsStages DEF InitReaps
  <2> QED
    BY <2>2, <2>3
<1>8. CASE InitExits
  <2>1. Members = {}
    BY <1>8 DEF InitExits, Stages, InitLeavesLast
  <2>2. WaitResults(InitPid) = {NoChild}
    BY <2>1 DEF WaitResults
  <2>3. UNCHANGED state
    BY <1>8, <2>2 DEF InitExits
  <2> QED
    BY <1>8, <2>1, <2>3, QuietKeepsTree
       DEF InitExits, Stages, ExitLeavesNothing, InitLeavesLast, StagesAgree
<1>9. ASSUME NEW p \in Pid, ExecApp(p)
      PROVE  Tree' /\ Stages'
  <2>1. Members' = Members
    BY <1>9 DEF ExecApp, Tree, Members
  <2>2. Tree'
    BY <1>9, <2>1
       DEF ExecApp, Tree, NobodyOrphaned, FreshPids, Members
  <2> QED
    BY <1>9, <2>1, <2>2, ShrinkKeepsStages DEF ExecApp
<1>10. ASSUME NEW p \in Pid, ExecAsserts(p) \/ UserEnds(p)
       PROVE  Tree' /\ Stages'
  <2>1. p \in Members
    BY <1>10 DEF ExecAsserts, UserEnds, Members
  <2> QED
    BY <1>10, <2>1, EndsKeepsTree, ShrinkKeepsStages
       DEF ExecAsserts, UserEnds
<1>11. ASSUME NEW p \in Pid, UserForks(p)
       PROVE  Tree' /\ Stages'
  <2>1. p \in Members /\ p \in 1 .. MaxPid
    BY <1>11, MaxPidAssumption DEF UserForks, Members, Pid
  <2>2. Tree'
    BY <1>11, <2>1, ForkKeepsTree DEF UserForks
  <2>3. init = "reap"
    BY <1>11, <2>1, WhoRuns DEF UserForks
  <2> QED
    BY <1>11, <2>1, <2>2, <2>3
       DEF UserForks, Stages, ExitLeavesNothing, InitLeavesLast, StagesAgree
<1>12. ASSUME NEW p \in Pid, UserWaits(p)
       PROVE  Tree' /\ Stages'
  BY <1>12, WaitReturnsZombies, ReapKeepsTree, ShrinkKeepsStages
     DEF UserWaits
<1>13. CASE ZapDone
  BY <1>13, QuietKeepsTree
     DEF ZapDone, Stages, ExitLeavesNothing, InitLeavesLast, StagesAgree
<1>14. CASE HostReaps
  <2>1. Members = {}
    BY <1>14 DEF HostReaps, Stages, InitLeavesLast
  <2> QED
    BY <1>14, <2>1, QuietKeepsTree
       DEF HostReaps, LauncherGone, Stages, ExitLeavesNothing,
           InitLeavesLast, StagesAgree
<1>15. ASSUME NEW p \in Pid, ZapMember(p)
       PROVE  Tree' /\ Stages'
  BY <1>15, EndsKeepsTree, ShrinkKeepsStages DEF ZapMember
<1>16. CASE KillLauncher
  BY <1>16, QuietKeepsTree
     DEF KillLauncher, Stages, ExitLeavesNothing, InitLeavesLast, StagesAgree
<1>17. ASSUME NEW h \in Inherited, InheritedEnds(h)
       PROVE  Tree' /\ Stages'
  <2>1. /\ inherited' \in [Inherited -> {"alive", "zombie", "reaped"}]
        /\ \A g \in Inherited : inherited[g] = "reaped" => inherited'[g] = "reaped"
    BY <1>17 DEF InheritedEnds, Stages
  <2> QED
    BY <1>17, <2>1, QuietKeepsTree
       DEF InheritedEnds, Stages, ExitLeavesNothing, InitLeavesLast,
           StagesAgree
<1>18. CASE UNCHANGED vars
  BY <1>18, QuietKeepsTree, ShrinkKeepsStages DEF vars
<1> QED
  BY <1>1, <1>2, <1>3, <1>4, <1>5, <1>6, <1>7, <1>8, <1>9, <1>10, <1>11,
     <1>12, <1>13, <1>14, <1>15, <1>16, <1>17, <1>18
     DEF Next, Launcher, InitProcess, App, Kernel, User

-----------------------------------------------------------------------------
(* The theorems.                                                           *)

\* The inductive invariant holds of every reachable state of the process
\* tree of main() and doqueru().
THEOREM InvariantHolds == Spec => []IInv
<1>1. Init => IInv
  BY InitIInv
<1>2. IInv /\ [Next]_vars => IInv'
  BY NextIInv
<1> QED
  BY <1>1, <1>2, PTL DEF Spec

\* doqueru()'s processes keep to their stages and to the pids handed out.
THEOREM TypeCorrect == Spec => []TypeOK
<1>1. IInv => TypeOK
  BY DEF IInv
<1> QED
  BY <1>1, InvariantHolds, PTL

\* A launcher that exits by itself leaves no process behind, unless the
\* wait() at line 242 collected a child it had before.
THEOREM ExitIsClean == Spec => []ExitLeavesNothing
<1>1. IInv => ExitLeavesNothing
  BY DEF IInv
<1> QED
  BY <1>1, InvariantHolds, PTL

\* Init outlives every process of its namespace, whatever tree the user's
\* program builds and in whatever order it dies.
THEOREM InitIsLast == Spec => []InitLeavesLast
<1>1. IInv => InitLeavesLast
  BY DEF IInv
<1> QED
  BY <1>1, InvariantHolds, PTL

\* A process of the namespace always has somebody to reap it: a running parent
\* that is older, or init, which adopts the children of every process that ends.
THEOREM NobodyIsOrphaned == Spec => []NobodyOrphaned
<1>1. IInv => NobodyOrphaned
  BY DEF IInv
<1> QED
  BY <1>1, InvariantHolds, PTL

-----------------------------------------------------------------------------
(* doqueru() implements Supervisor.                                        *)

\* Init counts as alive from its fork to the end of its exit.
LEMMA AliveSets ==
  /\ alive = IF init \in {"unborn", "zombie", "gone"} THEN Live
                                                      ELSE Live \cup {InitPid}
  /\ Live \subseteq Members
  /\ Members \subseteq Pid
  /\ InitPid \notin Pid
BY MaxPidAssumption DEF alive, Live, Members, Pid, InitPid

\* The initial states map to the initial state of Supervisor.
LEMMA InitRefines == Init => S!Init
BY DEF Init, S!Init, phase, alive, Live

\* Every step of the process tree maps to a step of Supervisor or a stutter.
LEMMA NextRefines == IInv /\ IInv' /\ [Next]_vars => [S!Next]_(S!vars)
<1> SUFFICES ASSUME Tree, Stages, Tree', Stages', [Next]_vars
             PROVE  [S!Next]_(S!vars)
  BY DEF IInv, TypeOK, Tree, Stages
<1> USE DEF S!vars
<1>alive. alive' = IF init' \in {"unborn", "zombie", "gone"}
                   THEN Live' ELSE Live' \cup {InitPid}
  BY DEF alive
<1>sets. /\ Live \subseteq Members /\ Live' \subseteq Members'
         /\ Members \subseteq Pid /\ Members' \subseteq Pid
         /\ Pid \subseteq 1 .. MaxPid /\ InitPid \in 1 .. MaxPid
         /\ InitPid \notin Pid
  BY MaxPidAssumption DEF Live, Members, Pid, InitPid
<1>same. UNCHANGED state => Live' = Live /\ Members' = Members
  BY DEF Live, Members
<1>enter. ASSUME NEW p \in 1 .. MaxPid, NEW stage \in {"exec", "run"},
                 Fork(p, stage), init \notin {"unborn", "zombie", "gone"},
                 init' \notin {"unborn", "zombie", "gone"},
                 UNCHANGED launcher
          PROVE  S!Next
  <2>1. PICK new \in Pid : /\ state[new] = "free"
                           /\ state' = [state EXCEPT ![new] = stage]
    <3>1. lastpid + 1 \in Pid /\ lastpid + 1 > lastpid
      BY <1>enter, MaxPidAssumption DEF Tree, Fork, Pid, InitPid
    <3> QED
      BY <3>1, <1>enter DEF Tree, FreshPids, Fork
  <2>2. Live' = Live \cup {new} /\ new \notin Live
    BY <2>1 DEF Tree, Live
  <2>3. alive' = alive \cup {new} /\ new \notin alive /\ InitPid \in alive
    BY <2>2, <1>enter, <1>alive, <1>sets, AliveSets
  <2>4. S!Enter(new) /\ new \in 1 .. MaxPid
    BY <2>3, <1>enter, <1>sets DEF S!Enter, phase
  <2> QED
    BY <2>4 DEF S!Next
<1>leave. ASSUME NEW p \in Members, NEW how \in {"zombie", "reaped"},
                 Ends(p, how), UNCHANGED <<launcher, init>>
          PROVE  [S!Next]_(S!vars)
  <2>1. Live' = Live \ {p}
    BY <1>leave DEF Tree, Members, Live, Ends
  <2>2. alive' = alive \ {p} /\ p # InitPid /\ p \in 1 .. MaxPid
    BY <2>1, <1>leave, <1>alive, <1>sets, AliveSets
  <2>3. CASE p \in alive
    <3>1. S!Leave(p)
      BY <2>2, <2>3, <1>leave DEF S!Leave, phase
    <3> QED
      BY <2>2, <3>1 DEF S!Next
  <2>4. CASE p \notin alive
    BY <2>2, <2>4, <1>leave DEF phase
  <2> QED
    BY <2>3, <2>4
<1>reap. ASSUME NEW c \in Pid, state[c] = "zombie", Reap(c),
                UNCHANGED <<launcher, init>>
         PROVE  UNCHANGED S!vars
  <2>1. Live' = Live
    BY <1>reap DEF Tree, Live, Reap
  <2> QED
    BY <2>1, <1>reap, <1>alive, AliveSets DEF phase
<1>1. CASE SetUp \/ MakeProcDir \/ MountProc \/ InitAsserts \/ KillInit
  BY <1>1, <1>same, <1>alive, AliveSets
     DEF SetUp, MakeProcDir, MountProc, InitAsserts, KillInit, phase
<1>2. CASE LauncherAsserts
  <2>1. S!Refuse
    BY <1>2, <1>same, <1>alive, AliveSets
       DEF LauncherAsserts, S!Refuse, phase
  <2> QED
    BY <2>1 DEF S!Next
<1>3. CASE ForkInit
  <2>1. init = "unborn" /\ Members = {}
    BY <1>3, WhoRuns DEF ForkInit, Stages, StagesAgree
  <2>2. S!Start
    BY <1>3, <2>1, <1>same, <1>alive, <1>sets, AliveSets
       DEF ForkInit, S!Start, phase
  <2> QED
    BY <2>2 DEF S!Next
<1>4. CASE LauncherWait
  <2>1. UNCHANGED alive
    BY <1>4, <1>same, <1>alive, AliveSets DEF LauncherWait
  <2>2. alive = {} \/ Inherited # {}
    <3>1. init = "zombie" => alive = {}
      BY <1>sets, AliveSets DEF Stages, InitLeavesLast
    <3> QED
      BY <3>1, <1>4 DEF LauncherWait
  <2>3. S!Return
    BY <1>4, <2>1, <2>2 DEF LauncherWait, S!Return, phase
  <2> QED
    BY <2>3 DEF S!Next
<1>5. CASE ForkApp
  <2>1. Fork(InitPid, "exec") /\ UNCHANGED launcher
    BY <1>5 DEF ForkApp
  <2>2. init = "fork" /\ init' = "reap"
    BY <1>5 DEF ForkApp
  <2> QED
    BY <2>1, <2>2, <1>enter, <1>sets
<1>6. CASE InitReaps \/ InitExits
  <2>1. PICK c \in WaitResults(InitPid) :
          \/ c = NoChild /\ UNCHANGED state
          \/ c # NoChild /\ Reap(c)
    BY <1>6 DEF InitReaps, InitExits
  <2>2. /\ UNCHANGED launcher
        /\ init  \notin {"unborn", "zombie", "gone"}
        /\ init' \notin {"unborn", "zombie", "gone"}
    BY <1>6 DEF InitReaps, InitExits
  <2>3. Live' = Live
    <3>1. CASE c = NoChild /\ UNCHANGED state
      BY <3>1, <1>same
    <3>2. CASE c # NoChild /\ Reap(c)
      <4>1. c \in Pid /\ state[c] = "zombie"
        BY <3>2, WaitReturnsZombies
      <4> QED
        BY <3>2, <4>1 DEF Tree, Live, Reap
    <3> QED
      BY <2>1, <3>1, <3>2
  <2> QED
    BY <2>2, <2>3, <1>alive, AliveSets DEF phase
<1>7. ASSUME NEW p \in Pid, ExecApp(p)
      PROVE  UNCHANGED S!vars
  <2>1. Live' = Live
    BY <1>7 DEF ExecApp, Tree, Live
  <2> QED
    BY <2>1, <1>7, <1>alive, AliveSets DEF ExecApp, phase
<1>8. ASSUME NEW p \in Pid, ExecAsserts(p) \/ UserEnds(p) \/ ZapMember(p)
      PROVE  [S!Next]_(S!vars)
  <2>1. p \in Members /\ UNCHANGED <<launcher, init>>
    BY <1>8 DEF ExecAsserts, UserEnds, ZapMember, Members
  <2>2. Ends(p, "zombie") \/ Ends(p, "reaped")
    BY <1>8 DEF ExecAsserts, UserEnds, ZapMember
  <2> QED
    BY <2>1, <2>2, <1>leave
<1>9. ASSUME NEW p \in Pid, UserForks(p)
      PROVE  S!Next
  <2>1. Fork(p, "run") /\ UNCHANGED <<launcher, init>> /\ p \in 1 .. MaxPid
    BY <1>9, <1>sets DEF UserForks
  <2>2. init = "reap"
    BY <1>9, WhoRuns DEF UserForks, Members
  <2> QED
    BY <2>1, <2>2, <1>enter
<1>10. ASSUME NEW p \in Pid, UserWaits(p)
       PROVE  UNCHANGED S!vars
  <2>1. PICK c \in WaitResults(p) \ {NoChild} : Reap(c)
    BY <1>10 DEF UserWaits
  <2>2. c \in Pid /\ state[c] = "zombie"
    BY WaitReturnsZombies
  <2> QED
    BY <1>10, <2>1, <2>2, <1>reap DEF UserWaits
<1>11. CASE ZapDone
  <2>1. Live = {} /\ Live' = {}
    BY <1>11, <1>same, <1>sets DEF ZapDone
  <2>2. alive = {InitPid} /\ alive' = {}
    BY <1>11, <2>1, <1>alive, AliveSets DEF ZapDone
  <2>3. S!Leave(InitPid)
    BY <1>11, <2>2 DEF ZapDone, S!Leave, phase
  <2> QED
    BY <2>3, <1>sets DEF S!Next
<1>12. CASE HostReaps \/ \E h \in Inherited : InheritedEnds(h)
  BY <1>12, <1>same, <1>alive, AliveSets DEF HostReaps, InheritedEnds, phase
<1>13. CASE KillLauncher
  <2>1. S!Kill
    BY <1>13, <1>same, <1>alive, AliveSets DEF KillLauncher, S!Kill, phase
  <2> QED
    BY <2>1 DEF S!Next
<1>14. CASE UNCHANGED vars
  BY <1>14, <1>same, <1>alive, AliveSets DEF vars, phase
<1> QED
  BY <1>1, <1>2, <1>3, <1>4, <1>5, <1>6, <1>7, <1>8, <1>9, <1>10, <1>11,
     <1>12, <1>13, <1>14
     DEF Next, Launcher, InitProcess, App, Kernel, User

\* doqueru() implements Supervisor: whoever calls the launcher may forget
\* its processes.
THEOREM ImplementsSupervisor == Spec => Supervises
<1>1. Init => S!Init
  BY InitRefines
<1>2. IInv /\ IInv' /\ [Next]_vars => [S!Next]_(S!vars)
  BY NextRefines
<1> QED
  BY <1>1, <1>2, InvariantHolds, PTL DEF Spec, Supervises, S!Spec
=============================================================================

------------------------------ MODULE Doqueru ------------------------------
(***************************************************************************)
(* The process tree of one container: doqueru() and main() of              *)
(* doqueru.cpp.  steps/pivot_root.cpp, steps/mnt.cpp and steps/cgroup.cpp  *)
(* end in the same text, steps/pid.cpp in the same without mount_proc().   *)
(*                                                                         *)
(* The launcher is the process that runs main().  It unshares a pid        *)
(* namespace, so the child it forks is pid 1 of that namespace ("init").   *)
(* Init mounts /proc, forks the process that execs the user's program, and *)
(* reaps children until it has none; the launcher waits once and exits.    *)
(* What the user's program does (fork, wait, exit, leave orphans behind)   *)
(* and what the kernel does to processes are the environment.              *)
(***************************************************************************)
EXTENDS Naturals

CONSTANTS
  MaxPid,     \* bound: largest pid the namespace hands out
  Inherited   \* children the launcher already had when it was exec'ed

ASSUME MaxPidAssumption == MaxPid \in Nat /\ MaxPid >= 2

InitPid == 1
Pid     == 2 .. MaxPid      \* every process of the namespace but init
NoChild == 0                \* wait() failed with ECHILD

VARIABLES
  launcher,   \* where the launcher is in main()
  init,       \* where pid 1 is in doqueru()
  state,      \* [Pid -> ...]: life of the other processes of the namespace
  parent,     \* [Pid -> ...]: getppid() of those processes
  lastpid,    \* the pid the namespace handed out last
  inherited   \* [Inherited -> ...]: life of the launcher's older children

vars == <<launcher, init, state, parent, lastpid, inherited>>

Live    == {p \in Pid : state[p] \in {"exec", "run"}}
Members == {p \in Pid : state[p] \in {"exec", "run", "zombie"}}

-----------------------------------------------------------------------------
(* System calls and kernel rules.                                          *)

\* wait(&status) called by p inside the namespace: the children it can
\* return, NoChild when p has none, nothing at all when the call blocks.
WaitResults(p) ==
  LET children == {c \in Members : parent[c] = p}
  IN  IF children = {} THEN {NoChild}
                       ELSE {c \in children : state[c] = "zombie"}

Reap(c) == state' = [state EXCEPT ![c] = "reaped"]

\* p ends; pid 1 of its namespace adopts its children.
Ends(p, how) ==
  /\ state'  = [state EXCEPT ![p] = how]
  /\ parent' = [c \in Pid |-> IF parent[c] = p THEN InitPid ELSE parent[c]]

\* fork() by p: the child gets the next pid and starts at stage.
Fork(p, stage) ==
  /\ lastpid < MaxPid
  /\ lastpid' = lastpid + 1
  /\ state'   = [state  EXCEPT ![lastpid + 1] = stage]
  /\ parent'  = [parent EXCEPT ![lastpid + 1] = p]

-----------------------------------------------------------------------------
Init ==
  /\ launcher  = "setup"
  /\ init      = "unborn"
  /\ state     = [p \in Pid |-> "free"]
  /\ parent    = [p \in Pid |-> InitPid]
  /\ lastpid   = InitPid
  /\ inherited = [h \in Inherited |-> "alive"]

(* The launcher.                                                           *)

\* unsharenamespaces() and pivot_root_routine() return.
SetUp ==
  /\ launcher  = "setup"
  /\ launcher' = "fork"
  /\ UNCHANGED <<init, state, parent, lastpid, inherited>>

\* Bug: wait() too is wrapped in ASSERTMSG, and a signal interrupts it.
LauncherAssertsWait ==
  /\ launcher \in {"setup", "fork", "wait"}
  /\ launcher' = "exit1"
  /\ UNCHANGED <<init, state, parent, lastpid, inherited>>

\* A call inside ASSERTMSG failed: _assert() prints and calls exit(1).
LauncherAsserts ==
  /\ launcher \in {"setup", "fork"}
  /\ launcher' = "exit1"
  /\ UNCHANGED <<init, state, parent, lastpid, inherited>>

ForkInit ==
  /\ launcher  = "fork"
  /\ launcher' = "wait"
  /\ init'     = "mkproc"
  /\ UNCHANGED <<state, parent, lastpid, inherited>>

\* Bug: wait() is called with WNOHANG, or not at all.
LauncherLeaves ==
  /\ launcher  = "wait"
  /\ launcher' = "exit0"
  /\ UNCHANGED <<init, state, parent, lastpid, inherited>>

\* The launcher's only wait(): it reaps whichever child is a zombie, then
\* doqueru() returns and main() exits with 0 whatever the status was.
LauncherWait ==
  /\ launcher  = "wait"
  /\ launcher' = "exit0"
  /\ \/ /\ init  = "zombie"
        /\ init' = "gone"
        /\ UNCHANGED inherited
     \/ \E h \in Inherited :
          /\ inherited[h] = "zombie"
          /\ inherited' = [inherited EXCEPT ![h] = "reaped"]
          /\ UNCHANGED init
  /\ UNCHANGED <<state, parent, lastpid>>

-----------------------------------------------------------------------------
(* Init, pid 1 of the namespace.                                           *)

\* mkdir("/proc"), created now or left there by an earlier container.
MakeProcDir ==
  /\ init  = "mkproc"
  /\ init' = "mountproc"
  /\ UNCHANGED <<launcher, state, parent, lastpid, inherited>>

MountProc ==
  /\ init  = "mountproc"
  /\ init' = "fork"
  /\ UNCHANGED <<launcher, state, parent, lastpid, inherited>>

\* _assert() in init: exit(1), after which the kernel empties the namespace.
InitAsserts ==
  /\ init \in {"mkproc", "mountproc", "fork"}
  /\ init' = "zap"
  /\ UNCHANGED <<launcher, state, parent, lastpid, inherited>>

\* Bug: init starts the program again and again.
ForkAppAgain ==
  /\ init  = "fork"
  /\ init' \in {"fork", "reap"}
  /\ Fork(InitPid, "exec")
  /\ UNCHANGED <<launcher, inherited>>

ForkApp ==
  /\ init  = "fork"
  /\ init' = "reap"
  /\ Fork(InitPid, "exec")
  /\ UNCHANGED <<launcher, inherited>>

\* Bug: one wait() instead of the loop.
InitReapsOnce ==
  /\ init = "reap"
  /\ \E c \in WaitResults(InitPid) :
       IF c = NoChild THEN UNCHANGED state ELSE Reap(c)
  /\ init' = "wait"
  /\ UNCHANGED <<launcher, parent, lastpid, inherited>>

\* Bug: the loop tests errno == ECHILD the wrong way round.
InitReapsForEver ==
  /\ init = "reap"
  /\ \E c \in WaitResults(InitPid) \ {NoChild} : Reap(c)
  /\ UNCHANGED <<launcher, init, parent, lastpid, inherited>>

\* Bug: the loop is waitpid(child_pid): the program, not its orphans.
InitReapsApp ==
  /\ init = "reap"
  /\ IF state[2] = "zombie" THEN Reap(2) /\ UNCHANGED init
                            ELSE state[2] = "reaped" /\ init' = "wait"
                                                     /\ UNCHANGED state
  /\ UNCHANGED <<launcher, parent, lastpid, inherited>>

\* while (wait(&status) != -1 || errno != ECHILD);
InitReaps ==
  /\ init = "reap"
  /\ \E c \in WaitResults(InitPid) :
       IF c = NoChild
       THEN init' = "wait" /\ UNCHANGED state
       ELSE Reap(c) /\ UNCHANGED init
  /\ UNCHANGED <<launcher, parent, lastpid, inherited>>

\* Init falls out of its branch into the launcher's wait(), then exits.
InitExits ==
  /\ init = "wait"
  /\ \E c \in WaitResults(InitPid) :
       IF c = NoChild THEN UNCHANGED state ELSE Reap(c)
  /\ init' = "zap"
  /\ UNCHANGED <<launcher, parent, lastpid, inherited>>

-----------------------------------------------------------------------------
(* The child of init, up to its execvp().                                  *)

ExecApp(p) ==
  /\ state[p] = "exec"
  /\ state' = [state EXCEPT ![p] = "run"]
  /\ UNCHANGED <<launcher, init, parent, lastpid, inherited>>

\* execvp() returned: _assert() exits, so the child never reaches the loop.
ExecAsserts(p) ==
  /\ state[p] = "exec"
  /\ Ends(p, "zombie")
  /\ UNCHANGED <<launcher, init, lastpid, inherited>>

-----------------------------------------------------------------------------
(* The environment.                                                        *)

UserForks(p) ==
  /\ state[p] = "run"
  /\ init # "zap"           \* a dying namespace hands out no more pids
  /\ Fork(p, "run")
  /\ UNCHANGED <<launcher, init, inherited>>

UserWaits(p) ==
  /\ state[p] = "run"
  /\ \E c \in WaitResults(p) \ {NoChild} : Reap(c)
  /\ UNCHANGED <<launcher, init, parent, lastpid, inherited>>

\* A process of the namespace exits, or any signal kills it.
UserEnds(p) ==
  /\ state[p] \in {"exec", "run"}
  /\ Ends(p, "zombie")
  /\ UNCHANGED <<launcher, init, lastpid, inherited>>

\* Pid 1 is immune to what its own namespace sends, not to the host's KILL.
KillInit ==
  /\ init \in {"mkproc", "mountproc", "fork", "reap", "wait"}
  /\ init' = "zap"
  /\ UNCHANGED <<launcher, state, parent, lastpid, inherited>>

\* Pid 1 is exiting: the kernel kills and reaps the rest of the namespace.
ZapMember(p) ==
  /\ init = "zap"
  /\ p \in Members
  /\ Ends(p, "reaped")
  /\ UNCHANGED <<launcher, init, lastpid, inherited>>

ZapDone ==
  /\ init  = "zap"
  /\ Members = {}
  /\ init' = "zombie"
  /\ UNCHANGED <<launcher, state, parent, lastpid, inherited>>

\* SIGINT, SIGTERM, SIGKILL...: the launcher installs no handler, and
\* nothing tells init that its parent has died.
KillLauncher ==
  /\ launcher \in {"setup", "fork", "wait"}
  /\ launcher' = "killed"
  /\ UNCHANGED <<init, state, parent, lastpid, inherited>>

LauncherGone == launcher \in {"exit0", "exit1", "killed"}

\* The host's own init adopts and reaps what a dead launcher left.
HostReaps ==
  /\ LauncherGone
  /\ init  = "zombie"
  /\ init' = "gone"
  /\ UNCHANGED <<launcher, state, parent, lastpid, inherited>>

InheritedEnds(h) ==
  /\ inherited[h] = "alive"
  /\ inherited' = [inherited EXCEPT ![h] = "zombie"]
  /\ UNCHANGED <<launcher, init, state, parent, lastpid>>

-----------------------------------------------------------------------------
Launcher    == SetUp \/ LauncherAsserts \/ ForkInit \/ LauncherWait
InitProcess == MakeProcDir \/ MountProc \/ InitAsserts \/ ForkApp
                 \/ InitReaps \/ InitExits
App(p)      == ExecApp(p) \/ ExecAsserts(p)
Kernel      == ZapDone \/ HostReaps \/ \E p \in Pid : ZapMember(p)
User(p)     == UserForks(p) \/ UserWaits(p) \/ UserEnds(p)

Next ==
  \/ Launcher
  \/ InitProcess
  \/ \E p \in Pid : App(p) \/ User(p)
  \/ Kernel
  \/ KillInit
  \/ KillLauncher
  \/ \E h \in Inherited : InheritedEnds(h)

Spec == Init /\ [][Next]_vars

\* The scheduler runs every runnable process and the kernel does its part.
\* Nothing is assumed of the user's program, of signals, or of the
\* launcher's older children.
Fairness ==
  /\ WF_vars(Launcher)
  /\ WF_vars(InitProcess)
  /\ \A p \in Pid : WF_vars(App(p))
  /\ WF_vars(Kernel)

FairSpec == Spec /\ Fairness

-----------------------------------------------------------------------------
(* Properties.                                                             *)

\* Every variable keeps its type, and only pids already handed out are used.
TypeOK ==
  /\ launcher \in {"setup", "fork", "wait", "exit0", "exit1", "killed"}
  /\ init \in {"unborn", "mkproc", "mountproc", "fork", "reap", "wait",
               "zap", "zombie", "gone"}
  /\ state \in [Pid -> {"free", "exec", "run", "zombie", "reaped"}]
  /\ parent \in [Pid -> 1 .. MaxPid]
  /\ lastpid \in 1 .. MaxPid
  /\ inherited \in [Inherited -> {"alive", "zombie", "reaped"}]

\* When the launcher exits by itself, nothing of its container is left: with
\* 1 nothing was started, with 0 every process is dead and reaped. The one
\* way out is wait() at line 242 returning an older child of the launcher.
ExitLeavesNothing ==
  /\ launcher = "exit1" => init = "unborn" /\ Members = {}
  /\ launcher = "exit0" => \/ init = "gone" /\ Members = {}
                           \/ \E h \in Inherited : inherited[h] = "reaped"

\* Init leaves its loop (line 237) only when it is alone: orphans of the
\* user's program, at any depth, keep it there although they are not its own
\* children when they are forked. So its second wait() cannot block.
InitLeavesLast == init \in {"wait", "zombie", "gone"} => Members = {}

\* Whoever is in the namespace has a living parent forked before it, or is
\* a child of init: no process waits for a reaper that is not there.
NobodyOrphaned ==
  \A p \in Members :
    parent[p] = InitPid \/ (parent[p] < p /\ state[parent[p]] = "run")

\* The stages of main() and doqueru() that go together.
StagesAgree ==
  /\ launcher \in {"setup", "fork", "exit1"} => init = "unborn"
  /\ launcher = "wait" => init \notin {"unborn", "gone"}
  /\ init \in {"unborn", "mkproc", "mountproc", "fork"} => lastpid = InitPid

\* What is not forked yet is free.
FreshPids == \A p \in Pid : state[p] = "free" <=> p > lastpid

\* The inductive invariant behind ExitLeavesNothing.
IInv ==
  /\ TypeOK
  /\ ExitLeavesNothing
  /\ InitLeavesLast
  /\ NobodyOrphaned
  /\ StagesAgree
  /\ FreshPids

\* The user's program ends if every process it ever forks does.
UserTerminates == \A p \in Pid : [](p \in Live => <>(p \notin Live))

\* If the user's program ends, the launcher returns to its caller and nothing is
\* left of the container: neither wait() of doqueru() blocks for ever.  A killed
\* launcher does not stop its container, but init still winds it down and the
\* host's init reaps it.
ContainerEnds ==
  UserTerminates =>
    <>[](LauncherGone /\ init \in {"unborn", "gone"} /\ Members = {})

\* The loop of line 237 gets to every zombie handed to init, however long
\* the user's program itself keeps running.
ZombiesReaped ==
  \A p \in Pid : (state[p] = "zombie" /\ parent[p] = InitPid)
                     ~> (state[p] = "reaped")

-----------------------------------------------------------------------------
(* What the launcher promises to its caller, see Supervisor.               *)

phase == CASE launcher \in {"setup", "fork"} -> "starting"
           [] launcher = "wait"   -> "up"
           [] launcher = "exit0"  -> "returned"
           [] launcher = "exit1"  -> "refused"
           [] launcher = "killed" -> "killed"

alive == Live \cup (IF init \in {"unborn", "zombie", "gone"} THEN {}
                                                           ELSE {InitPid})

S == INSTANCE Supervisor WITH Procs <- 1 .. MaxPid, First <- InitPid,
                              OtherChildren <- (Inherited # {}),
                              phase <- phase, alive <- alive

\* doqueru() implements the supervisor.
Supervises == S!Spec
=============================================================================

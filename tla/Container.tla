----------------------------- MODULE Container -----------------------------
(***************************************************************************)
(* A whole launch: the process tree of Doqueru and the namespaces and the  *)
(* root directory of RootSwitch, whose calls are made by the launcher and, *)
(* from mount_proc() on, by init.  Another launch of the same program      *)
(* works on the same directory at the same time.                           *)
(*                                                                         *)
(* Where a call changes both, the step is the conjunction of an action of  *)
(* either module; what only one of them knows leaves the other as it is.   *)
(***************************************************************************)
EXTENDS Naturals

CONSTANTS
  MaxPid,        \* bound: largest pid the namespace hands out
  Inherited,     \* children the launcher already had when it was exec'ed
  Self, Other    \* the launch, and one that shares MOUNT_DIR with it

ASSUME ContainerAssumption ==
  /\ MaxPid \in Nat /\ MaxPid >= 2
  /\ Self # Other

VARIABLES
  launcher, init, state, parent, lastpid, inherited,    \* Doqueru
  stage, status, view, oldroot, procdir,                \* RootSwitch
  hostname, hostmounts, disturbed

Tree == INSTANCE Doqueru

Roots == INSTANCE RootSwitch WITH
  Inst <- {Self, Other}, Program <- [i \in {Self, Other} |-> "pivot_root"]

treevars == <<launcher, init, state, parent, lastpid, inherited>>
rootvars == <<stage, status, view, oldroot, procdir, hostname, hostmounts,
              disturbed>>
vars == <<treevars, rootvars>>

Init == Tree!Init /\ Roots!Init

-----------------------------------------------------------------------------
(* The launcher, until it has forked init.                                 *)

\* Bug: doqueru() does not call pivot_root_routine().
SetUpWithoutPivot ==
  /\ launcher = "setup"
  /\ \/ Roots!unsharenamespaces(Self) /\ UNCHANGED treevars
     \/ /\ Roots!At(Self, "bind")
        /\ Roots!Goto(Self, "mkproc")
        /\ Tree!SetUp
        /\ UNCHANGED <<view, oldroot, procdir, hostname, hostmounts, disturbed>>

\* One call of unsharenamespaces() or pivot_root_routine(); the last one
\* returns to doqueru().
SetUp ==
  /\ launcher = "setup"
  /\ Roots!unsharenamespaces(Self) \/ Roots!pivot_root_routine(Self)
  /\ IF stage'[Self] = "mkproc" THEN Tree!SetUp ELSE UNCHANGED treevars

\* Bug: what fails is reported, and the launcher does not exit.
LauncherReports ==
  /\ launcher \in {"setup", "fork"}
  /\ Roots!CallFails(Self) \/ Roots!Denied(Self)
  /\ UNCHANGED treevars

\* One of them, or fork(), fails.
LauncherAsserts ==
  /\ Tree!LauncherAsserts
  /\ Roots!CallFails(Self) \/ Roots!Denied(Self)

ForkInit == Tree!ForkInit /\ UNCHANGED rootvars

-----------------------------------------------------------------------------
(* Init, until it has forked the program.                                  *)

MakeProcDir == Tree!MakeProcDir /\ Roots!MakeProcDir(Self)

\* Bug: mount() stands outside ASSERTMSG.
MountProcOrGoOn ==
  /\ Tree!MountProc
  /\ Roots!MountProc(Self) \/ Roots!CallFails(Self) \/ Roots!Denied(Self)

MountProc == Tree!MountProc /\ Roots!MountProc(Self)

\* mkdir() or mount() of mount_proc() fails, or fork() does.
InitAsserts ==
  /\ Tree!InitAsserts
  /\ IF init = "fork" THEN UNCHANGED rootvars
                      ELSE Roots!CallFails(Self) \/ Roots!Denied(Self)

-----------------------------------------------------------------------------
(* The rest is of one of the modules alone.                                *)

\* The process that makes the calls of RootSwitch is killed ...
KillLauncher ==
  /\ Tree!KillLauncher
  /\ IF launcher = "wait" THEN UNCHANGED rootvars ELSE Roots!Kill(Self)

\* ... which is init after the fork.
KillInit ==
  /\ Tree!KillInit
  /\ IF init \in {"mkproc", "mountproc"} THEN Roots!Kill(Self)
                                         ELSE UNCHANGED rootvars

Processes ==
  /\ \/ Tree!LauncherWait \/ Tree!ForkApp \/ Tree!InitReaps \/ Tree!InitExits
     \/ \E p \in Tree!Pid : Tree!App(p) \/ Tree!User(p)
     \/ Tree!Kernel
     \/ \E h \in Inherited : Tree!InheritedEnds(h)
  /\ UNCHANGED rootvars

OtherLaunch ==
  /\ \/ Roots!unsharenamespaces(Other) \/ Roots!pivot_root_routine(Other)
     \/ Roots!mount_proc(Other)
     \/ Roots!CallFails(Other) \/ Roots!Denied(Other) \/ Roots!Kill(Other)
  /\ UNCHANGED treevars

Launcher == SetUp \/ LauncherAsserts \/ ForkInit
              \/ (Tree!LauncherWait /\ UNCHANGED rootvars)
InitProcess ==
  \/ MakeProcDir \/ MountProc \/ InitAsserts
  \/ (Tree!ForkApp \/ Tree!InitReaps \/ Tree!InitExits) /\ UNCHANGED rootvars

Next == \/ SetUp \/ LauncherAsserts \/ ForkInit
        \/ MakeProcDir \/ MountProc \/ InitAsserts
        \/ KillLauncher \/ KillInit
        \/ Processes
        \/ OtherLaunch

Spec == Init /\ [][Next]_vars

\* As in Doqueru; nothing is assumed of the other launch.
Fairness ==
  /\ WF_vars(Launcher)
  /\ WF_vars(InitProcess)
  /\ \A p \in Tree!Pid : WF_vars(Tree!App(p) /\ UNCHANGED rootvars)
  /\ WF_vars(Tree!Kernel /\ UNCHANGED rootvars)

FairSpec == Spec /\ Fairness

-----------------------------------------------------------------------------
(* Properties.                                                             *)

\* The launch is a process tree of Doqueru, its fairness included: the steps
\* of its set-up end, whatever the other launch takes away from it (lines
\* 221-248).
ImplementsDoqueru == Tree!FairSpec

\* And it makes the calls of RootSwitch in their order, although two processes
\* of it make them (lines 54-78, 222-231).
ImplementsRootSwitch == Roots!Spec

\* No instruction of the user's program, nor of anything it forks, is executed
\* before the host's tree is out of reach and /proc is the namespace's own,
\* and that stays so when launcher and init are gone (lines 222-235).
RunsConfined ==
  (\E p \in Tree!Pid : state[p] = "run") =>
    /\ stage[Self] = "up"
    /\ status[Self] = "running"
    /\ view[Self].root = "rootfs"
    /\ view[Self].oldmnt = "detached"
    /\ procdir
=============================================================================

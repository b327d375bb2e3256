--------------------------- MODULE ContainerProofs ---------------------------
(***************************************************************************)
(* Proofs about Container, from those about its two parts: a step of a     *)
(* launch is a step of either part or leaves it as it is, so the inductive *)
(* invariants of both hold of it.  What relates the two is Together: at    *)
(* which call of RootSwitch the launch is when init is at one of its own.  *)
(***************************************************************************)
EXTENDS Container, TLAPS

TreeProofs == INSTANCE DoqueruProofs

RootProofs == INSTANCE RootSwitchProofs WITH
  Inst <- {Self, Other}, Program <- [i \in {Self, Other} |-> "pivot_root"]

-----------------------------------------------------------------------------
(* The parts.                                                              *)

\* Every step makes a call of RootSwitch or none.
LEMMA CallsOnly == [Next]_vars => [Roots!Next]_(Roots!vars)
<1> SUFFICES ASSUME [Next]_vars PROVE [Roots!Next]_(Roots!vars)
  OBVIOUS
<1>1. CASE SetUp
  BY <1>1 DEF SetUp, Roots!Next
<1>2. CASE LauncherAsserts \/ ForkInit
  BY <1>2 DEF LauncherAsserts, ForkInit, Roots!Next, Roots!vars, rootvars,
              Roots!disk, Roots!host
<1>3. CASE MakeProcDir \/ MountProc
  BY <1>3 DEF MakeProcDir, MountProc, Roots!Next, Roots!mount_proc
<1>4. CASE InitAsserts
  BY <1>4 DEF InitAsserts, Roots!Next, Roots!vars, rootvars, Roots!disk,
              Roots!host
<1>5. CASE KillLauncher \/ KillInit
  BY <1>5 DEF KillLauncher, KillInit, Roots!Next, Roots!vars, rootvars,
              Roots!disk, Roots!host
<1>6. CASE Processes
  BY <1>6 DEF Processes, Roots!vars, rootvars, Roots!disk, Roots!host
<1>7. CASE OtherLaunch
  BY <1>7 DEF OtherLaunch, Roots!Next
<1>8. CASE UNCHANGED vars
  BY <1>8 DEF vars, Roots!vars, rootvars, Roots!disk, Roots!host
<1> QED
  BY <1>1, <1>2, <1>3, <1>4, <1>5, <1>6, <1>7, <1>8 DEF Next

\* Every step is one of the process tree, or none.
LEMMA TreeStepsOnly == [Next]_vars => [Tree!Next]_(Tree!vars)
<1> SUFFICES ASSUME [Next]_vars PROVE [Tree!Next]_(Tree!vars)
  OBVIOUS
<1>1. CASE SetUp \/ LauncherAsserts \/ ForkInit
  BY <1>1 DEF SetUp, LauncherAsserts, ForkInit, Tree!Next, Tree!Launcher,
              Tree!vars, treevars
<1>2. CASE MakeProcDir \/ MountProc \/ InitAsserts
  BY <1>2 DEF MakeProcDir, MountProc, InitAsserts, Tree!Next, Tree!InitProcess
<1>3. CASE KillLauncher \/ KillInit
  BY <1>3 DEF KillLauncher, KillInit, Tree!Next
<1>4. CASE Processes
  BY <1>4 DEF Processes, Tree!Next, Tree!Launcher, Tree!InitProcess
<1>5. CASE OtherLaunch \/ UNCHANGED vars
  BY <1>5 DEF OtherLaunch, vars, treevars, Tree!vars
<1> QED
  BY <1>1, <1>2, <1>3, <1>4, <1>5 DEF Next

\* The launcher and init of a launch together make the calls of
\* unsharenamespaces(), pivot_root_routine() and mount_proc() in the order and
\* under the conditions of RootSwitch (lines 54-78, 222-231).
THEOREM MakesTheCalls == Spec => ImplementsRootSwitch
<1>1. Init => Roots!Init
  BY DEF Init
<1> QED
  BY <1>1, CallsOnly, PTL DEF Spec, ImplementsRootSwitch, Roots!Spec

\* A launch with its set-up in detail is a process tree of Doqueru, for every
\* number of pids; its fairness is left to the run (lines 221-248).
THEOREM IsAProcessTree == Spec => Tree!Spec
<1>1. Init => Tree!Init
  BY DEF Init
<1> QED
  BY <1>1, TreeStepsOnly, PTL DEF Spec, Tree!Spec

\* So RootSwitch's invariant holds of a launch ...
LEMMA RootInvariant == Spec => []Roots!IInv
<1>1. RootProofs!ProgramAssumption
  BY DEF RootProofs!ProgramAssumption, RootProofs!Programs
<1>2. RootProofs!Spec => []RootProofs!IInv
  BY <1>1, RootProofs!InvariantHolds
<1>3. RootProofs!Init <=> Roots!Init
  BY DEF RootProofs!Init, Roots!Init
<1>4. RootProofs!IInv <=> Roots!IInv
  BY DEF RootProofs!IInv, Roots!IInv, RootProofs!TypeOK, Roots!TypeOK,
         RootProofs!View, Roots!View, RootProofs!Window, Roots!Window,
         RootProofs!Flags, Roots!Flags, RootProofs!Programs, Roots!Programs,
         RootProofs!LostOnlyToOthers, Roots!LostOnlyToOthers,
         RootProofs!HostUntouched, Roots!HostUntouched, RootProofs!Confined,
         Roots!Confined, RootProofs!LeftoverMeansCrash,
         Roots!LeftoverMeansCrash, RootProofs!InOrder, Roots!InOrder,
         RootProofs!HasItsOldRoot, Roots!HasItsOldRoot, RootProofs!Holds,
         Roots!Holds, RootProofs!InWindow, Roots!InWindow
<1>5. [RootProofs!Next]_(RootProofs!vars) <=> [Roots!Next]_(Roots!vars)
  BY DEF RootProofs!Next, Roots!Next, RootProofs!unsharenamespaces,
         Roots!unsharenamespaces, RootProofs!pivot_root_routine,
         Roots!pivot_root_routine, RootProofs!mount_proc, Roots!mount_proc,
         RootProofs!Unshare, Roots!Unshare, RootProofs!SetHostname,
         Roots!SetHostname, RootProofs!MakePrivate, Roots!MakePrivate,
         RootProofs!BindRootfs, Roots!BindRootfs, RootProofs!EnterRootfs,
         Roots!EnterRootfs, RootProofs!MakeOldRoot, Roots!MakeOldRoot,
         RootProofs!PivotRoot, Roots!PivotRoot, RootProofs!EnterSlash,
         Roots!EnterSlash, RootProofs!DetachOldRoot, Roots!DetachOldRoot,
         RootProofs!RemoveOldRoot, Roots!RemoveOldRoot,
         RootProofs!MakeProcDir, Roots!MakeProcDir, RootProofs!MountProc,
         Roots!MountProc, RootProofs!CallFails, Roots!CallFails,
         RootProofs!Denied, Roots!Denied, RootProofs!Kill, Roots!Kill,
         RootProofs!Stop, Roots!Stop, RootProofs!At, Roots!At,
         RootProofs!Goto, Roots!Goto, RootProofs!InWindow, Roots!InWindow,
         RootProofs!Window, Roots!Window, RootProofs!Works, Roots!Works,
         RootProofs!MountsAlone, Roots!MountsAlone, RootProofs!Flags,
         Roots!Flags, RootProofs!disk, Roots!disk, RootProofs!host,
         Roots!host, RootProofs!vars, Roots!vars
<1> QED
  BY <1>2, <1>3, <1>4, <1>5, MakesTheCalls, PTL
     DEF ImplementsRootSwitch, Roots!Spec, RootProofs!Spec

\* ... and Doqueru's.
LEMMA TreeInvariant == Spec => []Tree!IInv
<1>1. TreeProofs!MaxPidAssumption
  BY ContainerAssumption DEF TreeProofs!MaxPidAssumption
<1>2. TreeProofs!Spec => []TreeProofs!IInv
  BY <1>1, TreeProofs!InvariantHolds
<1>3. TreeProofs!Init <=> Tree!Init
  BY DEF TreeProofs!Init, Tree!Init, TreeProofs!Pid, Tree!Pid,
         TreeProofs!InitPid, Tree!InitPid
<1>4. TreeProofs!IInv <=> Tree!IInv
  BY DEF TreeProofs!IInv, Tree!IInv, TreeProofs!TypeOK, Tree!TypeOK,
         TreeProofs!ExitLeavesNothing, Tree!ExitLeavesNothing,
         TreeProofs!InitLeavesLast, Tree!InitLeavesLast,
         TreeProofs!NobodyOrphaned, Tree!NobodyOrphaned,
         TreeProofs!StagesAgree, Tree!StagesAgree, TreeProofs!FreshPids,
         Tree!FreshPids, TreeProofs!Members, Tree!Members, TreeProofs!Pid,
         Tree!Pid, TreeProofs!InitPid, Tree!InitPid
<1>5. [TreeProofs!Next]_(TreeProofs!vars) <=> [Tree!Next]_(Tree!vars)
  BY DEF TreeProofs!Next, Tree!Next, TreeProofs!Launcher, Tree!Launcher,
         TreeProofs!InitProcess, Tree!InitProcess, TreeProofs!App, Tree!App,
         TreeProofs!Kernel, Tree!Kernel, TreeProofs!User, Tree!User,
         TreeProofs!SetUp, Tree!SetUp, TreeProofs!LauncherAsserts,
         Tree!LauncherAsserts, TreeProofs!ForkInit, Tree!ForkInit,
         TreeProofs!LauncherWait, Tree!LauncherWait, TreeProofs!MakeProcDir,
         Tree!MakeProcDir, TreeProofs!MountProc, Tree!MountProc,
         TreeProofs!InitAsserts, Tree!InitAsserts, TreeProofs!ForkApp,
         Tree!ForkApp, TreeProofs!InitReaps, Tree!InitReaps,
         TreeProofs!InitExits, Tree!InitExits, TreeProofs!ExecApp,
         Tree!ExecApp, TreeProofs!ExecAsserts, Tree!ExecAsserts,
         TreeProofs!UserForks, Tree!UserForks, TreeProofs!UserWaits,
         Tree!UserWaits, TreeProofs!UserEnds, Tree!UserEnds,
         TreeProofs!KillInit, Tree!KillInit, TreeProofs!ZapMember,
         Tree!ZapMember, TreeProofs!ZapDone, Tree!ZapDone,
         TreeProofs!KillLauncher, Tree!KillLauncher, TreeProofs!LauncherGone,
         Tree!LauncherGone, TreeProofs!HostReaps, Tree!HostReaps,
         TreeProofs!InheritedEnds, Tree!InheritedEnds, TreeProofs!WaitResults,
         Tree!WaitResults, TreeProofs!Reap, Tree!Reap, TreeProofs!Ends,
         Tree!Ends, TreeProofs!Fork, Tree!Fork, TreeProofs!Members,
         Tree!Members, TreeProofs!Pid, Tree!Pid, TreeProofs!InitPid,
         Tree!InitPid, TreeProofs!NoChild, Tree!NoChild, TreeProofs!vars,
         Tree!vars
<1> QED
  BY <1>2, <1>3, <1>4, <1>5, IsAProcessTree, PTL DEF Tree!Spec, TreeProofs!Spec

\* Before init has forked the program there is nobody else in the namespace.
LEMMA NobodyYet ==
  ASSUME Tree!IInv,
         launcher \in {"setup", "fork"}
           \/ init \in {"unborn", "mkproc", "mountproc", "fork"}
  PROVE  \A p \in Tree!Pid : state[p] = "free"
BY ContainerAssumption
   DEF Tree!IInv, Tree!TypeOK, Tree!StagesAgree, Tree!FreshPids, Tree!Pid,
       Tree!InitPid

-----------------------------------------------------------------------------
(* The parts together.                                                     *)

Working == \E p \in Tree!Pid : state[p] \in {"exec", "run"}

\* Which call the launch makes next, by the stages of its processes.
Together ==
  /\ launcher = "fork" => Roots!At(Self, "mkproc")
  /\ init = "mkproc" => Roots!At(Self, "mkproc")
  /\ init = "mountproc" => Roots!At(Self, "mountproc")
  /\ init = "fork" => Roots!At(Self, "up")
  /\ Working => Roots!At(Self, "up")
  /\ stage[Self] = "up" => procdir

\* The other launch neither moves nor stops this one, nor takes its /proc.
LEMMA OtherLeavesPlace ==
  ASSUME Roots!IInv, OtherLaunch
  PROVE  /\ stage'[Self] = stage[Self] /\ status'[Self] = status[Self]
         /\ procdir => procdir'
<1>1. Self # Other
  BY ContainerAssumption
<1>2. CASE Roots!unsharenamespaces(Other)
  BY <1>1, <1>2 DEF Roots!unsharenamespaces, Roots!Unshare, Roots!SetHostname,
     Roots!MakePrivate, Roots!Goto, Roots!IInv, Roots!TypeOK, Roots!disk
<1>3. CASE Roots!pivot_root_routine(Other)
  BY <1>1, <1>3 DEF Roots!pivot_root_routine, Roots!BindRootfs,
     Roots!EnterRootfs, Roots!MakeOldRoot, Roots!PivotRoot, Roots!EnterSlash,
     Roots!DetachOldRoot, Roots!RemoveOldRoot, Roots!Goto, Roots!IInv,
     Roots!TypeOK, Roots!disk
<1>4. CASE Roots!mount_proc(Other)
  BY <1>1, <1>4 DEF Roots!mount_proc, Roots!MakeProcDir, Roots!MountProc,
     Roots!Goto, Roots!IInv, Roots!TypeOK, Roots!disk
<1>5. CASE Roots!CallFails(Other) \/ Roots!Denied(Other) \/ Roots!Kill(Other)
  BY <1>1, <1>5 DEF Roots!CallFails, Roots!Denied, Roots!Kill, Roots!Stop,
     Roots!IInv, Roots!TypeOK, Roots!disk
<1> QED
  BY <1>2, <1>3, <1>4, <1>5 DEF OtherLaunch

\* A call of the launcher keeps it running, and does not make it "up".
LEMMA SetUpPlace ==
  ASSUME Roots!IInv, SetUp
  PROVE  status'[Self] = "running" /\ stage'[Self] # "up"
<1>1. CASE Roots!unsharenamespaces(Self)
  BY <1>1 DEF Roots!unsharenamespaces, Roots!Unshare, Roots!SetHostname,
     Roots!MakePrivate, Roots!Goto, Roots!At, Roots!IInv, Roots!TypeOK,
     Roots!Flags
<1>2. CASE Roots!pivot_root_routine(Self)
  BY <1>2 DEF Roots!pivot_root_routine, Roots!BindRootfs,
     Roots!EnterRootfs, Roots!MakeOldRoot, Roots!PivotRoot, Roots!EnterSlash,
     Roots!DetachOldRoot, Roots!RemoveOldRoot, Roots!Goto, Roots!At,
     Roots!IInv, Roots!TypeOK
<1> QED
  BY <1>1, <1>2 DEF SetUp

\* A step of a process brings neither launcher nor init to a call of RootSwitch,
\* and nobody starts to work unless init, or somebody who works, forks.
LEMMA ProcessesPlace ==
  ASSUME Tree!IInv, Processes
  PROVE  /\ launcher' = "fork" => launcher = "fork"
         /\ init' \in {"mkproc", "mountproc", "fork"} => init' = init
         /\ Working' => Working \/ init = "fork"
<1>0. state \in [Tree!Pid -> {"free", "exec", "run", "zombie", "reaped"}]
  BY DEF Tree!IInv, Tree!TypeOK
<1>1. CASE Tree!LauncherWait
  BY <1>1 DEF Tree!LauncherWait, Working
<1>2. CASE Tree!ForkApp
  BY <1>2 DEF Tree!ForkApp
<1>3. CASE Tree!InitReaps \/ Tree!InitExits
  BY <1>0, <1>3 DEF Tree!InitReaps, Tree!InitExits, Tree!Reap, Working
<1>4. CASE \E p \in Tree!Pid : Tree!App(p) \/ Tree!User(p)
  <2>1. PICK p \in Tree!Pid : Tree!App(p) \/ Tree!User(p)
    BY <1>4
  <2>2. UNCHANGED <<launcher, init>>
    BY <2>1 DEF Tree!App, Tree!ExecApp, Tree!ExecAsserts, Tree!User,
                Tree!UserForks, Tree!UserWaits, Tree!UserEnds
  <2>3. CASE Tree!UserWaits(p)
    BY <1>0, <2>2, <2>3 DEF Tree!UserWaits, Tree!Reap, Working
  <2>4. CASE ~Tree!UserWaits(p)
    BY <2>1, <2>2, <2>4
       DEF Tree!App, Tree!ExecApp, Tree!ExecAsserts, Tree!User,
           Tree!UserForks, Tree!UserEnds, Working
  <2> QED
    BY <2>3, <2>4
<1>5. CASE Tree!Kernel
  BY <1>0, <1>5 DEF Tree!Kernel, Tree!ZapDone, Tree!HostReaps, Tree!ZapMember,
                    Tree!Ends, Working
<1>6. CASE \E h \in Inherited : Tree!InheritedEnds(h)
  BY <1>6 DEF Tree!InheritedEnds, Working
<1> QED
  BY <1>1, <1>2, <1>3, <1>4, <1>5, <1>6 DEF Processes

\* Every step keeps them together.
LEMMA TogetherKept ==
  ASSUME Together, Tree!IInv, Roots!IInv, [Next]_vars
  PROVE  Together'
<1>0. launcher \in {"setup", "fork"} => init = "unborn"
  BY DEF Tree!IInv, Tree!StagesAgree
<1>1. CASE SetUp
  <2>1. launcher = "setup" /\ init = "unborn" /\ ~Working
    BY <1>0, <1>1, NobodyYet DEF SetUp, Working
  <2>2. init' = init /\ state' = state
    BY <1>1 DEF SetUp, Tree!SetUp, treevars
  <2>3. launcher' = "fork" => stage'[Self] = "mkproc"
    BY <1>1, <2>1 DEF SetUp, treevars
  <2> QED
    BY <1>1, <2>1, <2>2, <2>3, SetUpPlace DEF Together, Working, Roots!At
<1>2. CASE LauncherAsserts
  <2>1. /\ launcher \in {"setup", "fork"} /\ launcher' = "exit1"
        /\ UNCHANGED <<init, state, stage, procdir>>
    BY <1>2 DEF LauncherAsserts, Tree!LauncherAsserts, Roots!CallFails,
                Roots!Denied, Roots!Stop, Roots!disk
  <2> QED
    BY <1>0, <2>1, NobodyYet DEF Together, Working
<1>3. CASE ForkInit
  <2>1. /\ launcher = "fork" /\ launcher' = "wait" /\ init' = "mkproc"
        /\ UNCHANGED <<state, stage, status, procdir>>
    BY <1>3 DEF ForkInit, Tree!ForkInit, rootvars
  <2> QED
    BY <2>1 DEF Together, Working, Roots!At
<1>4. CASE MakeProcDir
  <2>1. /\ init = "mkproc" /\ init' = "mountproc"
        /\ UNCHANGED <<launcher, state>>
    BY <1>4 DEF MakeProcDir, Tree!MakeProcDir
  <2>2. status'[Self] = "running" /\ stage'[Self] = "mountproc"
    BY <1>4 DEF MakeProcDir, Roots!MakeProcDir, Roots!At, Roots!Goto,
                Roots!IInv, Roots!TypeOK
  <2> QED
    BY <1>0, <2>1, <2>2, NobodyYet DEF Together, Working, Roots!At
<1>5. CASE MountProc
  <2>1. init = "mountproc" /\ init' = "fork" /\ UNCHANGED <<launcher, state>>
    BY <1>5 DEF MountProc, Tree!MountProc
  <2>2. status'[Self] = "running" /\ stage'[Self] = "up"
    BY <1>5 DEF MountProc, Roots!MountProc, Roots!At, Roots!Goto,
                Roots!IInv, Roots!TypeOK
  <2>3. procdir'
    BY <1>5 DEF MountProc, Roots!MountProc, Roots!Works, Roots!At, Roots!disk,
                Roots!IInv, Roots!Confined
  <2> QED
    BY <1>0, <2>1, <2>2, <2>3, NobodyYet DEF Together, Working, Roots!At
<1>6. CASE InitAsserts
  <2>1. /\ init \in {"mkproc", "mountproc", "fork"} /\ init' = "zap"
        /\ UNCHANGED <<launcher, state, stage, procdir>>
    BY <1>6 DEF InitAsserts, Tree!InitAsserts, Roots!CallFails, Roots!Denied,
                Roots!Stop, Roots!disk, rootvars
  <2> QED
    BY <1>0, <2>1, NobodyYet DEF Together, Working
<1>7. CASE KillLauncher
  <2>1. /\ launcher' = "killed"
        /\ UNCHANGED <<init, state, stage, procdir>>
        /\ launcher \in {"setup", "fork"} \/ UNCHANGED status
    BY <1>7 DEF KillLauncher, Tree!KillLauncher, Roots!Kill, Roots!Stop,
                Roots!disk, rootvars
  <2> QED
    BY <1>0, <2>1, NobodyYet DEF Together, Working, Roots!At
<1>8. CASE KillInit
  <2>1. /\ init' = "zap"
        /\ UNCHANGED <<launcher, state, stage, procdir>>
        /\ init \in {"mkproc", "mountproc"} \/ UNCHANGED status
    BY <1>8 DEF KillInit, Tree!KillInit, Roots!Kill, Roots!Stop,
                Roots!disk, rootvars
  <2>2. launcher # "fork"
    BY <1>0, <1>8 DEF KillInit, Tree!KillInit
  <2> QED
    BY <2>1, <2>2, NobodyYet DEF Together, Working, Roots!At
<1>9. CASE Processes
  <2>1. UNCHANGED <<stage, status, procdir>>
    BY <1>9 DEF Processes, rootvars
  <2> QED
    BY <1>9, <2>1, ProcessesPlace DEF Together, Roots!At
<1>10. CASE OtherLaunch
  <2>1. UNCHANGED <<launcher, init, state>>
    BY <1>10 DEF OtherLaunch, treevars
  <2> QED
    BY <1>10, <2>1, OtherLeavesPlace DEF Together, Working, Roots!At
<1>11. CASE UNCHANGED vars
  BY <1>11 DEF vars, treevars, rootvars, Together, Working, Roots!At
<1> QED
  BY <1>1, <1>2, <1>3, <1>4, <1>5, <1>6, <1>7, <1>8, <1>9, <1>10, <1>11
     DEF Next

\* No instruction of the user's program is executed before the launch, of which
\* two processes make the calls, is behind all of them; nor does the host's
\* tree come back in reach when launcher and init are gone, whatever the
\* program forks and another launch removes (lines 222-235).
THEOREM NothingRunsUnconfined == Spec => []RunsConfined
<1>1. Init => Together
  BY DEF Init, Tree!Init, Roots!Init, Together, Working
<1>2. Together /\ Tree!IInv /\ Roots!IInv /\ [Next]_vars => Together'
  BY TogetherKept
<1>3. Together /\ Roots!IInv => RunsConfined
  <2> SUFFICES ASSUME Together, Roots!IInv,
                      \E p \in Tree!Pid : state[p] = "run"
               PROVE  /\ Roots!At(Self, "up") /\ procdir
                      /\ view[Self].root = "rootfs"
                      /\ view[Self].oldmnt = "detached"
    BY DEF RunsConfined, Roots!At
  <2>1. Roots!At(Self, "up") /\ procdir
    BY DEF Together, Working, Roots!At
  <2> QED
    BY <2>1 DEF Roots!IInv, Roots!Confined, Roots!At
<1> QED
  BY <1>1, <1>2, <1>3, RootInvariant, TreeInvariant, PTL DEF Spec
=============================================================================

-------------------------- MODULE RootSwitchProofs --------------------------
(***************************************************************************)
(* Proofs about RootSwitch, for any number of launches of any programs.    *)
(*                                                                         *)
(* The argument: what a launch sees of its own process is fixed by the     *)
(* call it makes next (InOrder), but for oldroot, which all share.  A      *)
(* launch that nobody disturbed finds its oldroot where mkdir() put it     *)
(* (HasItsOldRoot), so it cannot lose; and an oldroot that exists has a    *)
(* holder, a launch that will remove it unless it is cut short (Holds).    *)
(* Only RemoveOldRoot changes what other launches see.                     *)
(***************************************************************************)
EXTENDS RootSwitch, TLAPS

\* What IInv says of one launch.
Good(i) ==
  /\ stage[i] \in {"mkproc", "mountproc", "up"} =>
       /\ view[i].ns = Flags(Program[i])
       /\ Program[i] = "pivot_root" => /\ view[i].root   = "rootfs"
                                       /\ view[i].cwd    = "slash"
                                       /\ view[i].oldmnt = "detached"
  /\ status[i] = "lost" => i \in disturbed
  /\ InOrder(i)
  /\ HasItsOldRoot(i)

\* What IInv says of what the launches share.
Shared ==
  /\ HostUntouched
  /\ oldroot => \E i \in Inst : Holds(i)

\* i makes a call that shows only in its own process and on disk.
OwnStep(i) ==
  /\ \A j \in Inst \ {i} :
       /\ stage'[j]  = stage[j]
       /\ status'[j] = status[j]
       /\ view'[j]   = view[j]
  /\ UNCHANGED <<host, disturbed>>
  /\ oldroot => oldroot'
  /\ procdir => procdir'

\* IInv is its parts
LEMMA IInvParts == IInv <=> TypeOK /\ Shared /\ \A i \in Inst : Good(i)
BY DEF IInv, Shared, Good, Confined, LostOnlyToOthers

\* the unshare flags are namespaces
LEMMA FlagsAreNamespaces ==
  \A i \in Inst : /\ Flags(Program[i]) \subseteq {"uts", "pid", "mnt"}
                  /\ "uts" \in Flags(Program[i])
                  /\ "mnt" \in Flags(Program[i])
                       <=> Program[i] \in {"mnt", "pivot_root"}
BY ProgramAssumption DEF Programs, Flags

\* What the calls assign to the fields of a view has the fields' types.
LEMMA ViewUpdates ==
  ASSUME NEW w \in View
  PROVE  /\ [w EXCEPT !.private = TRUE] \in View
         /\ [w EXCEPT !.bound = TRUE] \in View
         /\ [w EXCEPT !.cwd = "rootfs"] \in View
         /\ [w EXCEPT !.cwd = "slash"] \in View
         /\ [w EXCEPT !.root = "rootfs"] \in View
         /\ [w EXCEPT !.oldmnt = "attached"] \in View
         /\ [w EXCEPT !.oldmnt = "detached"] \in View
<1>1. [w EXCEPT !.private = TRUE] \in View /\ [w EXCEPT !.bound = TRUE] \in View
  BY DEF View
<1>2. [w EXCEPT !.cwd = "rootfs"] \in View /\ [w EXCEPT !.cwd = "slash"] \in View
  BY DEF View
<1>3. [w EXCEPT !.root = "rootfs"] \in View
  BY DEF View
<1>4. /\ [w EXCEPT !.oldmnt = "attached"] \in View
      /\ [w EXCEPT !.oldmnt = "detached"] \in View
  BY DEF View
<1> QED
  BY <1>1, <1>2, <1>3, <1>4

\* the calls that are no fallible ones keep the types and are own steps
LEMMA UnsharenamespacesOwn ==
  ASSUME TypeOK, NEW i \in Inst, Good(i), HostUntouched, unsharenamespaces(i)
  PROVE  TypeOK' /\ OwnStep(i) /\ Good(i)'
<1> USE DEF unsharenamespaces, Goto, At, disk, host
<1>1. CASE Unshare(i)
  <2>v. [view[i] EXCEPT !.ns = Flags(Program[i])] \in View
    BY FlagsAreNamespaces DEF TypeOK, View
  <2>1. TypeOK'
    BY <1>1, <2>v DEF Unshare, TypeOK
  <2>2. OwnStep(i)
    BY <1>1 DEF Unshare, TypeOK, OwnStep
  <2>3. Good(i)'
    BY <1>1 DEF Unshare, TypeOK, Good, InOrder, HasItsOldRoot, InWindow, Window
  <2> QED
    BY <2>1, <2>2, <2>3
<1>2. CASE SetHostname(i)
  <2>1. UNCHANGED hostname
    BY <1>2, FlagsAreNamespaces DEF SetHostname, Good, InOrder
  <2>2. TypeOK'
    BY <1>2, <2>1 DEF SetHostname, TypeOK
  <2>3. OwnStep(i)
    BY <1>2, <2>1 DEF SetHostname, TypeOK, OwnStep
  <2>4. Good(i)'
    BY <1>2, FlagsAreNamespaces
       DEF SetHostname, TypeOK, Good, InOrder, HasItsOldRoot, InWindow, Window
  <2> QED
    BY <2>2, <2>3, <2>4
<1>3. CASE MakePrivate(i)
  <2>v. [view[i] EXCEPT !.private = TRUE] \in View
    BY ViewUpdates DEF TypeOK
  <2>1. TypeOK'
    BY <1>3, <2>v DEF MakePrivate, TypeOK
  <2>2. OwnStep(i)
    BY <1>3 DEF MakePrivate, TypeOK, OwnStep
  <2>3. Good(i)'
    BY <1>3
       DEF MakePrivate, TypeOK, Good, InOrder, HasItsOldRoot, InWindow, Window
  <2> QED
    BY <2>1, <2>2, <2>3
<1> QED
  BY <1>1, <1>2, <1>3

\* So do bind, chdir and mkdir before the pivot_root() ...
LEMMA BeforePivotOwn ==
  ASSUME TypeOK, NEW i \in Inst, Good(i), HostUntouched,
         BindRootfs(i) \/ EnterRootfs(i) \/ MakeOldRoot(i)
  PROVE  TypeOK' /\ OwnStep(i) /\ Good(i)'
<1> USE DEF Goto, At, disk, host
<1>1. CASE BindRootfs(i)
  <2>1. MountsAlone(i)
    BY <1>1 DEF BindRootfs, Good, InOrder, MountsAlone
  <2>2. [view[i] EXCEPT !.bound = TRUE] \in View
    BY ViewUpdates DEF TypeOK
  <2>3. TypeOK'
    BY <1>1, <2>1, <2>2 DEF BindRootfs, TypeOK
  <2>4. OwnStep(i)
    BY <1>1, <2>1 DEF BindRootfs, TypeOK, OwnStep
  <2>5. Good(i)'
    BY <1>1
       DEF BindRootfs, TypeOK, Good, InOrder, HasItsOldRoot, InWindow, Window
  <2> QED
    BY <2>3, <2>4, <2>5
<1>2. CASE EnterRootfs(i)
  <2>1. view' = [view EXCEPT ![i].cwd = "rootfs"]
    BY <1>2 DEF EnterRootfs, Good, InOrder
  <2>2. [view[i] EXCEPT !.cwd = "rootfs"] \in View
    BY ViewUpdates DEF TypeOK
  <2>3. TypeOK'
    BY <1>2, <2>1, <2>2 DEF EnterRootfs, TypeOK
  <2>4. OwnStep(i)
    BY <1>2, <2>1 DEF EnterRootfs, TypeOK, OwnStep
  <2>5. Good(i)'
    BY <1>2, <2>1
       DEF EnterRootfs, TypeOK, Good, InOrder, HasItsOldRoot, InWindow, Window
  <2> QED
    BY <2>3, <2>4, <2>5
<1>3. CASE MakeOldRoot(i)
  <2>1. TypeOK'
    BY <1>3 DEF MakeOldRoot, TypeOK, Window
  <2>2. OwnStep(i)
    BY <1>3 DEF MakeOldRoot, TypeOK, OwnStep
  <2>3. Good(i)'
    BY <1>3
       DEF MakeOldRoot, TypeOK, Good, InOrder, HasItsOldRoot, InWindow, Window
  <2> QED
    BY <2>1, <2>2, <2>3
<1> QED
  BY <1>1, <1>2, <1>3

\* ... the calls that follow it ...
LEMMA AfterPivotOwn ==
  ASSUME TypeOK, NEW i \in Inst, Good(i), HostUntouched,
         PivotRoot(i) \/ EnterSlash(i) \/ DetachOldRoot(i)
  PROVE  TypeOK' /\ OwnStep(i) /\ Good(i)'
<1> USE DEF Goto, At, disk, host
<1>1. CASE PivotRoot(i)
  <2>0. view[i] \in View /\ [view[i] EXCEPT !.root = "rootfs"] \in View
    BY ViewUpdates DEF TypeOK
  <2>1. [view[i] EXCEPT !.root = "rootfs", !.oldmnt = "attached"] \in View
    BY <2>0, ViewUpdates
  <2>2. TypeOK'
    BY <1>1, <2>1 DEF PivotRoot, TypeOK, Window
  <2>3. OwnStep(i)
    BY <1>1 DEF PivotRoot, TypeOK, OwnStep
  <2>4. Good(i)'
    BY <1>1 DEF PivotRoot, Works, TypeOK, View, Good, InOrder, HasItsOldRoot,
                InWindow, Window
  <2> QED
    BY <2>2, <2>3, <2>4
<1>2. CASE EnterSlash(i)
  <2>1. [view[i] EXCEPT !.cwd = "slash"] \in View
    BY ViewUpdates DEF TypeOK
  <2>2. TypeOK'
    BY <1>2, <2>1 DEF EnterSlash, TypeOK, Window
  <2>3. OwnStep(i)
    BY <1>2 DEF EnterSlash, TypeOK, OwnStep
  <2>4. Good(i)'
    BY <1>2
       DEF EnterSlash, TypeOK, Good, InOrder, HasItsOldRoot, InWindow, Window
  <2> QED
    BY <2>2, <2>3, <2>4
<1>3. CASE DetachOldRoot(i)
  <2>1. [view[i] EXCEPT !.oldmnt = "detached"] \in View
    BY ViewUpdates DEF TypeOK
  <2>2. TypeOK'
    BY <1>3, <2>1 DEF DetachOldRoot, TypeOK, Window
  <2>3. OwnStep(i)
    BY <1>3 DEF DetachOldRoot, TypeOK, OwnStep
  <2>4. Good(i)'
    BY <1>3 DEF DetachOldRoot, Works, TypeOK, Good, InOrder, HasItsOldRoot,
                InWindow, Window
  <2> QED
    BY <2>2, <2>3, <2>4
<1> QED
  BY <1>1, <1>2, <1>3

\* ... and mount_proc().
LEMMA MountProcOwn ==
  ASSUME TypeOK, NEW i \in Inst, Good(i), HostUntouched, mount_proc(i)
  PROVE  TypeOK' /\ OwnStep(i) /\ Good(i)'
<1> USE DEF mount_proc, Goto, At, disk, host
<1>1. CASE MakeProcDir(i)
  <2>1. TypeOK'
    BY <1>1 DEF MakeProcDir, TypeOK
  <2>2. OwnStep(i)
    BY <1>1 DEF MakeProcDir, TypeOK, OwnStep
  <2>3. Good(i)'
    BY <1>1
       DEF MakeProcDir, TypeOK, Good, InOrder, HasItsOldRoot, InWindow, Window
  <2> QED
    BY <2>1, <2>2, <2>3
<1>2. CASE MountProc(i)
  <2>1. MountsAlone(i)
    BY <1>2 DEF MountProc, Good, InOrder, MountsAlone
  <2>2. TypeOK'
    BY <1>2, <2>1 DEF MountProc, TypeOK
  <2>3. OwnStep(i)
    BY <1>2, <2>1 DEF MountProc, TypeOK, OwnStep
  <2>4. Good(i)'
    BY <1>2
       DEF MountProc, TypeOK, Good, InOrder, HasItsOldRoot, InWindow, Window
  <2> QED
    BY <2>2, <2>3, <2>4
<1> QED
  BY <1>1, <1>2

\* An own step leaves the others good.
LEMMA OwnStepOthers ==
  ASSUME NEW i \in Inst, OwnStep(i), NEW j \in Inst \ {i}, Good(j)
  PROVE  Good(j)'
BY DEF OwnStep, Good, InOrder, HasItsOldRoot, InWindow

\* A launch that loses was disturbed, and if there is an oldroot by then it
\* is the directory of another one.
LEMMA LosersAreDisturbed ==
  ASSUME TypeOK, NEW i \in Inst, Good(i), CallFails(i)
  PROVE  i \in disturbed /\ (oldroot => ~Holds(i))
<1>1. status[i] = "running" /\ ~Works(i)
  BY DEF CallFails, Stop
<1>2. CASE stage[i] = "pivot"
  BY <1>1, <1>2 DEF Works, Good, InOrder, HasItsOldRoot, MountsAlone,
                    InWindow, Window
<1>3. CASE stage[i] = "umount"
  BY <1>1, <1>3 DEF Works, Good, HasItsOldRoot, InWindow, Window, Holds
<1>4. CASE stage[i] = "rmdir"
  BY <1>1, <1>4 DEF Works, Good, InOrder, HasItsOldRoot, InWindow, Window
<1>5. CASE stage[i] = "mountproc"
  BY <1>1, <1>5 DEF Works, Good, InOrder, TypeOK, View
<1> QED
  BY <1>1, <1>2, <1>3, <1>4, <1>5 DEF Works

\* A launch that stops leaves the others good, and stays so itself.
LEMMA StopGood ==
  ASSUME TypeOK, NEW i \in Inst, NEW how \in {"lost", "denied", "killed"},
         Stop(i, how), \A j \in Inst : Good(j),
         how = "lost" => i \in disturbed
  PROVE  TypeOK' /\ \A j \in Inst : Good(j)'
<1>1. TypeOK'
  BY DEF Stop, TypeOK, disk, host
<1>2. ASSUME NEW j \in Inst PROVE Good(j)'
  BY DEF Stop, TypeOK, Good, InOrder, HasItsOldRoot, InWindow, disk, host
<1> QED
  BY <1>1, <1>2

\* If it did not hold oldroot, oldroot keeps its holder.
LEMMA StopShared ==
  ASSUME TypeOK, NEW i \in Inst, NEW how \in {"lost", "denied", "killed"},
         Stop(i, how), Shared, how = "lost" /\ oldroot => ~Holds(i)
  PROVE  Shared'
<1>1. HostUntouched'
  BY DEF Stop, Shared, HostUntouched, host
<1>2. ASSUME oldroot' PROVE \E j \in Inst : Holds(j)'
  <2>1. PICK j \in Inst : Holds(j)
    BY <1>2 DEF Stop, Shared, disk
  <2>2. CASE j = i
    BY <1>2, <2>1, <2>2 DEF Stop, TypeOK, Holds, disk
  <2>3. CASE j # i
    BY <2>1, <2>3 DEF Stop, TypeOK, Holds
  <2> QED
    BY <2>1, <2>2, <2>3
<1> QED
  BY <1>1, <1>2 DEF Shared

\* rmdir(OLD_ROOT): the others lose a mount or a directory, nothing else.
LEMMA RemoveOldRootGood ==
  ASSUME TypeOK, NEW i \in Inst, RemoveOldRoot(i), \A j \in Inst : Good(j)
  PROVE  TypeOK' /\ \A j \in Inst : Good(j)'
<1> USE DEF RemoveOldRoot, Goto, At, disk, host
<1>1. ASSUME NEW j \in Inst
      PROVE  /\ [view[j] EXCEPT !.oldmnt = "detached"] \in View
             /\ view[j] \in View
  BY ViewUpdates DEF TypeOK
<1>2. view' \in [Inst -> View]
  BY <1>1
<1>3. disturbed' \subseteq Inst
  BY DEF TypeOK
<1>4. TypeOK'
  BY <1>2, <1>3 DEF TypeOK
<1>5. view'[i] = view[i]
  BY DEF Good, InOrder
<1>6. Good(i)'
  BY <1>5 DEF TypeOK, Good, InOrder, HasItsOldRoot, InWindow, Window
<1>7. ASSUME NEW j \in Inst, j # i PROVE Good(j)'
  <2>1. stage'[j] = stage[j] /\ status'[j] = status[j]
    BY <1>7 DEF TypeOK
  <2>2. /\ view'[j].ns = view[j].ns /\ view'[j].private = view[j].private
        /\ view'[j].bound = view[j].bound /\ view'[j].root = view[j].root
        /\ view'[j].cwd = view[j].cwd
        /\ view'[j].oldmnt = IF view[j].oldmnt = "attached"
                             THEN "detached" ELSE view[j].oldmnt
    BY <1>1 DEF View
  <2>3. HasItsOldRoot(j)'
    BY <1>7, <2>1 DEF HasItsOldRoot, InWindow
  <2>4. InOrder(j)'
    BY <2>1, <2>2 DEF Good, InOrder
  <2> QED
    BY <2>1, <2>2, <2>3, <2>4 DEF Good
<1> QED
  BY <1>4, <1>6, <1>7

\* After a launch's own step, oldroot has a holder.
LEMMA OwnStepShared ==
  ASSUME TypeOK, NEW i \in Inst, OwnStep(i), Shared, Good(i)',
         Holds(i) => Holds(i)',
         oldroot' => oldroot \/ Holds(i)'
  PROVE  Shared'
<1>1. HostUntouched'
  BY DEF OwnStep, Shared, HostUntouched, host
<1>2. ASSUME oldroot', ~Holds(i)' PROVE \E j \in Inst : Holds(j)'
  <2>1. PICK j \in Inst : Holds(j)
    BY <1>2 DEF Shared
  <2>2. j # i
    BY <1>2, <2>1
  <2> QED
    BY <2>1, <2>2 DEF OwnStep, Holds
<1> QED
  BY <1>1, <1>2 DEF Shared

-----------------------------------------------------------------------------
(* The inductive invariant.                                                *)

\* It holds initially: nobody has made a call yet.
LEMMA InitIInv == Init => IInv
<1> SUFFICES ASSUME Init PROVE TypeOK /\ Shared /\ \A i \in Inst : Good(i)
  BY IInvParts
<1>1. TypeOK
  BY DEF Init, TypeOK, View
<1>2. Shared
  BY DEF Init, Shared, HostUntouched
<1>3. ASSUME NEW i \in Inst PROVE Good(i)
  BY DEF Init, Good, InOrder, HasItsOldRoot, InWindow, Window
<1> QED
  BY <1>1, <1>2, <1>3

\* Every call of every launch, and every way to fail, preserves it.
LEMMA NextIInv == IInv /\ [Next]_vars => IInv'
<1> SUFFICES ASSUME TypeOK, Shared, \A i \in Inst : Good(i), [Next]_vars
             PROVE  TypeOK' /\ Shared' /\ \A i \in Inst : Good(i)'
  BY DEF IInv, Shared, Good, Confined, LostOnlyToOthers
<1>0. HostUntouched
  BY DEF Shared
<1>own. ASSUME NEW i \in Inst, TypeOK', OwnStep(i), Good(i)',
               Holds(i) => Holds(i)', oldroot' => oldroot \/ Holds(i)'
        PROVE  TypeOK' /\ Shared' /\ \A j \in Inst : Good(j)'
  BY <1>own, OwnStepShared, OwnStepOthers
<1>1. ASSUME NEW i \in Inst, unsharenamespaces(i) \/ mount_proc(i)
      PROVE  TypeOK' /\ Shared' /\ \A j \in Inst : Good(j)'
  <2>1. TypeOK' /\ OwnStep(i) /\ Good(i)'
    BY <1>0, <1>1, UnsharenamespacesOwn, MountProcOwn
  <2>2. ~Holds(i) /\ UNCHANGED oldroot
    BY <1>1 DEF unsharenamespaces, Unshare, SetHostname, MakePrivate,
                mount_proc, MakeProcDir, MountProc, At, Holds, Window, disk
  <2> QED
    BY <1>own, <2>1, <2>2
<1>2. ASSUME NEW i \in Inst,
             BindRootfs(i) \/ EnterRootfs(i) \/ MakeOldRoot(i)
      PROVE  TypeOK' /\ Shared' /\ \A j \in Inst : Good(j)'
  <2>1. TypeOK' /\ OwnStep(i) /\ Good(i)'
    BY <1>0, <1>2, BeforePivotOwn
  <2>2. ~Holds(i) /\ (UNCHANGED oldroot \/ Holds(i)')
    BY <1>2 DEF BindRootfs, EnterRootfs, MakeOldRoot, At, Goto, Holds,
                Window, disk, TypeOK
  <2> QED
    BY <1>own, <2>1, <2>2
<1>3. ASSUME NEW i \in Inst,
             PivotRoot(i) \/ EnterSlash(i) \/ DetachOldRoot(i)
      PROVE  TypeOK' /\ Shared' /\ \A j \in Inst : Good(j)'
  <2>1. TypeOK' /\ OwnStep(i) /\ Good(i)'
    BY <1>0, <1>3, AfterPivotOwn
  <2>2. (Holds(i) => Holds(i)') /\ UNCHANGED oldroot
    BY <1>3 DEF PivotRoot, EnterSlash, DetachOldRoot, At, Goto, Holds,
                Window, disk, TypeOK, View
  <2> QED
    BY <1>own, <2>1, <2>2
<1>4. ASSUME NEW i \in Inst, RemoveOldRoot(i)
      PROVE  TypeOK' /\ Shared' /\ \A j \in Inst : Good(j)'
  <2>1. Shared'
    BY <1>0, <1>4 DEF RemoveOldRoot, Shared, HostUntouched, host
  <2> QED
    BY <1>4, <2>1, RemoveOldRootGood
<1>5. ASSUME NEW i \in Inst, CallFails(i)
      PROVE  TypeOK' /\ Shared' /\ \A j \in Inst : Good(j)'
  <2>1. i \in disturbed /\ (oldroot => ~Holds(i)) /\ Stop(i, "lost")
    BY <1>5, LosersAreDisturbed DEF CallFails
  <2> QED
    BY <2>1, StopGood, StopShared
<1>6. ASSUME NEW i \in Inst, Denied(i) \/ Kill(i)
      PROVE  TypeOK' /\ Shared' /\ \A j \in Inst : Good(j)'
  <2>1. Stop(i, "denied") \/ Stop(i, "killed")
    BY <1>6 DEF Denied, Kill
  <2> QED
    BY <2>1, StopGood, StopShared
<1>7. CASE UNCHANGED vars
  BY <1>7 DEF vars, disk, host, TypeOK, Shared, HostUntouched, Holds, Good,
              InOrder, HasItsOldRoot, InWindow
<1> QED
  BY <1>1, <1>2, <1>3, <1>4, <1>5, <1>6, <1>7 DEF Next, pivot_root_routine

-----------------------------------------------------------------------------
(* The theorems.                                                           *)

\* The inductive invariant holds of every reachable state, for any number
\* of launches that unshare, pivot and clean up side by side.
THEOREM InvariantHolds == Spec => []IInv
<1>1. Init => IInv
  BY InitIInv
<1>2. IInv /\ [Next]_vars => IInv'
  BY NextIInv
<1> QED
  BY <1>1, <1>2, PTL DEF Spec

\* The launches' variables keep their types.
THEOREM TypeCorrect == Spec => []TypeOK
<1>1. IInv => TypeOK
  BY DEF IInv
<1> QED
  BY <1>1, InvariantHolds, PTL

\* unsharenamespaces() keeps every later mount and name from the host.
THEOREM HostIsUntouched == Spec => []HostUntouched
<1>1. IInv => HostUntouched
  BY DEF IInv
<1> QED
  BY <1>1, InvariantHolds, PTL

\* Whatever the others do, pid 1 starts in the rootfs without the old root.
THEOREM InitIsConfined == Spec => []Confined
<1>1. IInv => Confined
  BY DEF IInv
<1> QED
  BY <1>1, InvariantHolds, PTL

\* pivot_root_routine() fails only by another launch's rmdir(OLD_ROOT).
THEOREM LosersLoseToOthers == Spec => []LostOnlyToOthers
<1>1. IInv => LostOnlyToOthers
  BY DEF IInv
<1> QED
  BY <1>1, InvariantHolds, PTL

\* An oldroot that stays behind was left by a killed or denied launch.
THEOREM LeftoversAreOfCrashes == Spec => []LeftoverMeansCrash
<1>1. IInv => LeftoverMeansCrash
  BY DEF IInv, LeftoverMeansCrash, Holds
<1> QED
  BY <1>1, InvariantHolds, PTL

\* No launch changes what a container that is up sees.
THEOREM UpIsUndisturbed == Spec => ContainersUndisturbed
<1> DEFINE Undisturbed == \A i \in Inst : At(i, "up") => view'[i] = view[i]
<1>1. IInv /\ [Next]_vars => [Undisturbed]_vars
  <2> SUFFICES ASSUME TypeOK, Shared, \A i \in Inst : Good(i), Next,
                      NEW i \in Inst, At(i, "up")
               PROVE  view'[i] = view[i]
    BY IInvParts
  <2>0. HostUntouched
    BY DEF Shared
  <2>1. PICK j \in Inst : \/ unsharenamespaces(j)
                          \/ pivot_root_routine(j)
                          \/ mount_proc(j)
                          \/ CallFails(j) \/ Denied(j) \/ Kill(j)
    BY DEF Next
  <2>2. CASE RemoveOldRoot(j)
    <3>1. view[i].oldmnt # "attached"
      BY DEF At, Good, InOrder
    <3> QED
      BY <2>2, <3>1 DEF RemoveOldRoot
  <2>3. CASE CallFails(j) \/ Denied(j) \/ Kill(j)
    BY <2>3 DEF CallFails, Denied, Kill, Stop
  <2>4. CASE unsharenamespaces(j) \/ mount_proc(j) \/ BindRootfs(j)
               \/ EnterRootfs(j) \/ MakeOldRoot(j) \/ PivotRoot(j)
               \/ EnterSlash(j) \/ DetachOldRoot(j)
    <3>1. OwnStep(j)
      BY <2>0, <2>4, UnsharenamespacesOwn, MountProcOwn, BeforePivotOwn,
         AfterPivotOwn
    <3>2. i # j
      BY <2>4
         DEF At, unsharenamespaces, Unshare, SetHostname, MakePrivate,
             mount_proc, MakeProcDir, MountProc, BindRootfs, EnterRootfs,
             MakeOldRoot, PivotRoot, EnterSlash, DetachOldRoot
    <3> QED
      BY <3>1, <3>2 DEF OwnStep
  <2> QED
    BY <2>1, <2>2, <2>3, <2>4 DEF pivot_root_routine
<1> QED
  BY <1>1, InvariantHolds, PTL DEF Spec, ContainersUndisturbed
=============================================================================

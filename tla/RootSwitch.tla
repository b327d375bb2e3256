----------------------------- MODULE RootSwitch -----------------------------
(***************************************************************************)
(* How launches leave the host's namespaces and root directory:            *)
(* unsharenamespaces(), pivot_root_routine() and mount_proc() of           *)
(* doqueru.cpp, run by any number of launches that share one directory     *)
(* tree, MOUNT_DIR, on the host's disk.                                    *)
(*                                                                         *)
(* steps/uts.cpp, steps/pid.cpp and steps/mnt.cpp run a prefix of the same *)
(* calls, steps/pivot_root.cpp and steps/cgroup.cpp all of them.  A launch *)
(* executes one system call per step; every call may fail for reasons that *)
(* are not modelled (Denied), and fails when the kernel's rules say so     *)
(* (CallFails): both end in _assert(), that is in exit(1).                 *)
(***************************************************************************)
EXTENDS Naturals

CONSTANTS
  Inst,      \* launches, started in any order
  Program    \* [Inst -> Programs]: what each of them runs

Programs == {"uts", "pid", "mnt", "pivot_root"}

ASSUME ProgramAssumption == Program \in [Inst -> Programs]

VARIABLES
  stage,       \* [Inst -> ...]: the call a launch makes next
  status,      \* [Inst -> ...]: running, or how it failed
  view,        \* [Inst -> record]: the namespaces and paths of its process
  oldroot,     \* does MOUNT_DIR/oldroot exist on disk?
  procdir,     \* does MOUNT_DIR/proc?
  hostname,    \* of the host's UTS namespace
  hostmounts,  \* mounts that appeared in the host's mount namespace
  disturbed    \* launches whose oldroot another launch removed (history)

disk == <<oldroot, procdir>>
host == <<hostname, hostmounts>>
vars == <<stage, status, view, disk, host, disturbed>>

View == [ns      : SUBSET {"uts", "pid", "mnt"},  \* namespaces of its own
         private : BOOLEAN,                       \* mount propagation is off
         bound   : BOOLEAN,                       \* MOUNT_DIR is a mount
         root    : {"host", "rootfs"},
         cwd     : {"start", "dir", "rootfs", "slash"},
         oldmnt  : {"none", "attached", "detached"}]  \* the host's old root

\* UNSHARE_FLAGS of each program.
Flags(prog) == CASE prog = "uts" -> {"uts"}
                 [] prog = "pid" -> {"uts", "pid"}
                 [] OTHER        -> {"uts", "pid", "mnt"}

\* the calls between mkdir(OLD_ROOT) and rmdir(OLD_ROOT)
Window == {"pivot", "slash", "umount", "rmdir"}

At(i, s)     == status[i] = "running" /\ stage[i] = s
Goto(i, s)   == stage' = [stage EXCEPT ![i] = s] /\ UNCHANGED status
InWindow(i)  == status[i] = "running" /\ stage[i] \in Window

\* A mount made by i is seen by i alone. (The mounts of the host are shared:
\* without MS_PRIVATE a new namespace would pass them on.)
MountsAlone(i) == "mnt" \in view[i].ns /\ view[i].private

\* What the next call of i needs to find. pivot_root() wants the root of a
\* mount that is not shared and a directory for the old root; umount2() wants
\* a mount on the path ./oldroot, and rmdir() a directory that is none.
Works(i) ==
  /\ stage[i] = "pivot"  => view[i].cwd = "rootfs" /\ MountsAlone(i) /\ oldroot
  /\ stage[i] = "umount" => view[i].oldmnt = "attached" /\ oldroot
  /\ stage[i] = "rmdir"  => view[i].oldmnt # "attached" /\ oldroot
  /\ stage[i] = "mountproc" => procdir \/ view[i].root = "host"

-----------------------------------------------------------------------------
Init ==
  /\ stage  = [i \in Inst |-> "unshare"]
  /\ status = [i \in Inst |-> "running"]
  /\ view   = [i \in Inst |-> [ns |-> {}, private |-> FALSE, bound |-> FALSE,
                               root |-> "host", cwd |-> "start",
                               oldmnt |-> "none"]]
  /\ oldroot = FALSE
  /\ procdir \in BOOLEAN
  /\ hostname = "host"
  /\ hostmounts = {}
  /\ disturbed = {}

(* unsharenamespaces()                                                     *)

Unshare(i) ==
  /\ At(i, "unshare")
  /\ view' = [view EXCEPT ![i].ns = Flags(Program[i])]
  /\ Goto(i, "hostname")
  /\ UNCHANGED <<disk, host, disturbed>>

\* The name goes to the UTS namespace the process is in.
SetHostname(i) ==
  /\ At(i, "hostname")
  /\ hostname' = IF "uts" \in view[i].ns THEN hostname ELSE "doqueru"
  /\ Goto(i, IF "mnt" \in Flags(Program[i]) THEN "private" ELSE "up")
  /\ UNCHANGED <<view, disk, hostmounts, disturbed>>

\* Bug: the mount() with MS_PRIVATE is missing.
StayShared(i) ==
  /\ At(i, "private")
  /\ Goto(i, IF Program[i] = "pivot_root" THEN "bind" ELSE "mkproc")
  /\ UNCHANGED <<view, disk, host, disturbed>>

\* mount(MS_REC | MS_PRIVATE) on /
MakePrivate(i) ==
  /\ At(i, "private")
  /\ view' = [view EXCEPT ![i].private = TRUE]
  /\ Goto(i, IF Program[i] = "pivot_root" THEN "bind" ELSE "mkproc")
  /\ UNCHANGED <<disk, host, disturbed>>

-----------------------------------------------------------------------------
(* pivot_root_routine()                                                    *)

\* mount(MOUNT_DIR, MOUNT_DIR, MS_BIND): the new root is a mount point.
BindRootfs(i) ==
  /\ At(i, "bind")
  /\ view' = [view EXCEPT ![i].bound = TRUE]
  /\ hostmounts' = IF MountsAlone(i) THEN hostmounts
                                     ELSE hostmounts \cup {"rootfs"}
  /\ Goto(i, "chdir")
  /\ UNCHANGED <<disk, hostname, disturbed>>

\* chdir(MOUNT_DIR) enters the mount made just before, if there is one.
EnterRootfs(i) ==
  /\ At(i, "chdir")
  /\ view' = [view EXCEPT ![i].cwd = IF view[i].bound THEN "rootfs" ELSE "dir"]
  /\ Goto(i, "mkdir")
  /\ UNCHANGED <<disk, host, disturbed>>

\* Bug: EEXIST is a failure.
MakeNewOldRoot(i) ==
  /\ At(i, "mkdir")
  /\ IF oldroot THEN status' = [status EXCEPT ![i] = "lost"] /\ UNCHANGED stage
                ELSE Goto(i, "pivot")
  /\ oldroot' = TRUE
  /\ UNCHANGED <<view, procdir, host, disturbed>>

\* mkdir(OLD_ROOT), where EEXIST is no failure
MakeOldRoot(i) ==
  /\ At(i, "mkdir")
  /\ oldroot' = TRUE
  /\ Goto(i, "pivot")
  /\ UNCHANGED <<view, procdir, host, disturbed>>

\* pivot_root(".", OLD_ROOT)
PivotRoot(i) ==
  /\ At(i, "pivot")
  /\ Works(i)
  /\ view' = [view EXCEPT ![i].root = "rootfs", ![i].oldmnt = "attached"]
  /\ Goto(i, "slash")
  /\ UNCHANGED <<disk, host, disturbed>>

\* Bug: pivot_root_routine() ends here, without umount2() and rmdir().
EnterSlashOnly(i) ==
  /\ At(i, "slash")
  /\ view' = [view EXCEPT ![i].cwd = "slash"]
  /\ Goto(i, "mkproc")
  /\ UNCHANGED <<disk, host, disturbed>>

EnterSlash(i) ==
  /\ At(i, "slash")
  /\ view' = [view EXCEPT ![i].cwd = "slash"]
  /\ Goto(i, "umount")
  /\ UNCHANGED <<disk, host, disturbed>>

\* Bug: umount2() outside ASSERTMSG; when it fails the launch goes on.
DetachOrGoOn(i) ==
  /\ At(i, "umount")
  /\ \/ /\ Works(i)
        /\ view' = [view EXCEPT ![i].oldmnt = "detached"]
        /\ Goto(i, "rmdir")
     \/ UNCHANGED view /\ Goto(i, "mkproc")
  /\ UNCHANGED <<disk, host, disturbed>>

\* umount2(OLD_ROOT, MNT_DETACH)
DetachOldRoot(i) ==
  /\ At(i, "umount")
  /\ Works(i)
  /\ view' = [view EXCEPT ![i].oldmnt = "detached"]
  /\ Goto(i, "rmdir")
  /\ UNCHANGED <<disk, host, disturbed>>

\* Bug: oldroot is unmounted and not removed.
KeepOldRoot(i) ==
  /\ At(i, "rmdir")
  /\ Works(i)
  /\ Goto(i, "mkproc")
  /\ UNCHANGED <<view, disk, host, disturbed>>

\* rmdir(OLD_ROOT) also detaches what other mount namespaces mounted there.
RemoveOldRoot(i) ==
  /\ At(i, "rmdir")
  /\ Works(i)
  /\ oldroot' = FALSE
  /\ view' = [j \in Inst |-> IF view[j].oldmnt = "attached"
                             THEN [view[j] EXCEPT !.oldmnt = "detached"]
                             ELSE view[j]]
  /\ disturbed' = disturbed \cup {j \in Inst \ {i} : InWindow(j)}
  /\ Goto(i, "mkproc")
  /\ UNCHANGED <<procdir, host>>

-----------------------------------------------------------------------------
(* mount_proc(), called by pid 1                                           *)

\* mkdir("/proc"): on the host's disk it is there, in MOUNT_DIR it may be.
MakeProcDir(i) ==
  /\ At(i, "mkproc")
  /\ procdir' = (procdir \/ view[i].root = "rootfs")
  /\ Goto(i, "mountproc")
  /\ UNCHANGED <<view, oldroot, host, disturbed>>

MountProc(i) ==
  /\ At(i, "mountproc")
  /\ Works(i)
  /\ hostmounts' = IF MountsAlone(i) THEN hostmounts
                                     ELSE hostmounts \cup {"proc"}
  /\ Goto(i, "up")
  /\ UNCHANGED <<view, disk, hostname, disturbed>>

-----------------------------------------------------------------------------
(* Failures.                                                               *)

Stop(i, how) ==
  /\ status[i] = "running"
  /\ status' = [status EXCEPT ![i] = how]
  /\ UNCHANGED <<stage, view, disk, host, disturbed>>

\* The call does not find what it needs; _assert() exits.
CallFails(i) == ~Works(i) /\ Stop(i, "lost")

\* Any call fails for another reason: no privilege, no memory, no directory.
Denied(i) == stage[i] # "up" /\ Stop(i, "denied")

\* A signal kills the launch; its namespaces go with it.
Kill(i) == Stop(i, "killed")

-----------------------------------------------------------------------------
unsharenamespaces(i)  == Unshare(i) \/ SetHostname(i) \/ MakePrivate(i)
pivot_root_routine(i) == BindRootfs(i) \/ EnterRootfs(i) \/ MakeOldRoot(i)
                           \/ PivotRoot(i) \/ EnterSlash(i)
                           \/ DetachOldRoot(i) \/ RemoveOldRoot(i)
mount_proc(i)         == MakeProcDir(i) \/ MountProc(i)

Next == \E i \in Inst :
  \/ unsharenamespaces(i)
  \/ pivot_root_routine(i)
  \/ mount_proc(i)
  \/ CallFails(i) \/ Denied(i) \/ Kill(i)

Spec == Init /\ [][Next]_vars

-----------------------------------------------------------------------------
(* Properties.                                                             *)

\* Every variable keeps its type.
TypeOK ==
  /\ stage \in [Inst -> {"unshare", "hostname", "private", "bind", "chdir",
                         "mkdir", "mkproc", "mountproc", "up"} \cup Window]
  /\ status \in [Inst -> {"running", "lost", "denied", "killed"}]
  /\ view \in [Inst -> View]
  /\ oldroot \in BOOLEAN
  /\ procdir \in BOOLEAN
  /\ hostname \in {"host", "doqueru"}
  /\ hostmounts \subseteq {"rootfs", "proc"}
  /\ disturbed \subseteq Inst

\* No launch, of whatever program, complete or cut short at any call,
\* renames the host or leaves a mount in its mount namespace.
HostUntouched == hostname = "host" /\ hostmounts = {}

\* When pid 1 starts it is in the namespaces of its program, and after a
\* pivot_root() nothing of the host's tree is reachable: the root is the
\* rootfs, the working directory is inside it, the old root is detached,
\* however launches that share the directory interleave.
Confined == \A i \in Inst :
  stage[i] \in {"mkproc", "mountproc", "up"} =>
    /\ view[i].ns = Flags(Program[i])
    /\ Program[i] = "pivot_root" => /\ view[i].root   = "rootfs"
                                    /\ view[i].cwd    = "slash"
                                    /\ view[i].oldmnt = "detached"

\* A launch fails for no reason of its own making: a leftover oldroot, a
\* killed launch or another container never hinder it. Only a launch that
\* removes oldroot between this one's mkdir() and rmdir() does.
LostOnlyToOthers == \A i \in Inst : status[i] = "lost" => i \in disturbed

\* oldroot stays behind only when a launch was killed, or denied a call,
\* between its mkdir() and its rmdir(): those that lose a race clean up.
LeftoverMeansCrash ==
  oldroot => \E i \in Inst : stage[i] \in Window /\ status[i] # "lost"

\* A container that is up is never touched by launches that come later,
\* although they mount, pivot and rmdir on the directory it runs in.
ContainersUndisturbed ==
  [][\A i \in Inst : At(i, "up") => view'[i] = view[i]]_vars

-----------------------------------------------------------------------------
(* The inductive invariant behind them.                                    *)

\* What the calls a launch has behind it have done to its own process.
InOrder(i) ==
  LET at(calls) == stage[i] \in calls
  IN  /\ ~at({"unshare"}) => view[i].ns = Flags(Program[i])
      /\ ~at({"unshare", "hostname", "up"}) => "mnt" \in view[i].ns
      /\ ~at({"unshare", "hostname", "private"}) /\ "mnt" \in view[i].ns
           => view[i].private
      /\ at({"bind", "chdir", "mkdir"} \cup Window)
           => Program[i] = "pivot_root"
      /\ at({"chdir"}) => view[i].bound
      /\ at({"mkdir", "pivot"}) => view[i].cwd = "rootfs"
      /\ at({"umount", "rmdir"}) => view[i].cwd = "slash"
      /\ at({"slash", "umount", "rmdir"}) => view[i].root = "rootfs"
      /\ at({"unshare", "hostname", "private", "bind", "chdir", "mkdir",
             "pivot"}) => view[i].oldmnt = "none"
      /\ Program[i] # "pivot_root" => view[i].oldmnt = "none"
      /\ at({"slash", "umount"}) => view[i].oldmnt # "none"
      /\ at({"rmdir"}) => view[i].oldmnt = "detached"
      /\ at({"mountproc"}) /\ view[i].root = "rootfs" => procdir

\* Until another launch disturbs it, a launch in the window has its oldroot.
HasItsOldRoot(i) == InWindow(i) /\ i \notin disturbed =>
  oldroot /\ (stage[i] \in {"slash", "umount"} => view[i].oldmnt = "attached")

\* i is in the window, and an oldroot that is there may still be its own.
Holds(i) ==
  /\ stage[i] \in Window
  /\ status[i] # "lost"
  /\ stage[i] \in {"slash", "umount"} => view[i].oldmnt = "attached"

IInv ==
  /\ TypeOK
  /\ HostUntouched
  /\ Confined
  /\ LostOnlyToOthers
  /\ \A i \in Inst : InOrder(i) /\ HasItsOldRoot(i)
  /\ oldroot => \E i \in Inst : Holds(i)
=============================================================================

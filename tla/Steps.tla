------------------------------- MODULE Steps -------------------------------
(***************************************************************************)
(* The processes of the tutorial programs steps/exec.cpp,                  *)
(* steps/defensive.cpp and steps/uts.cpp, and of doqueru-legacy.cpp, from  *)
(* which doqueru.cpp grew.  All four fork one child, which execs a program *)
(* in namespaces of its own or in none; the launcher waits, then ends or   *)
(* execs in its turn.  None of them has an init process.                   *)
(*                                                                         *)
(* `program' says which of them runs.  What the program that is exec'ed    *)
(* does is the environment.  Mounts are not part of this state.            *)
(***************************************************************************)
EXTENDS Naturals

CONSTANT MaxPid      \* bound: processes there can be

ASSUME MaxPidAssumption == MaxPid \in Nat /\ MaxPid >= 2

Pid      == 1 .. MaxPid
Launcher == 1
Host     == 0        \* whoever adopts and reaps on the host
Nobody   == 0

VARIABLES
  program,   \* the program that runs
  pc,        \* [Pid -> ...]: where a process is
  parent,    \* [Pid -> Pid \cup {Host}]
  lastpid,   \* the process forked last
  child,     \* the child of the launcher, Nobody before fork()
  older,     \* a child the launcher had when it was exec'ed
  uts,       \* the UTS namespace of the child
  hostname,  \* of the host's UTS namespace
  ns,        \* [Pid -> ...]: pid namespace of a process
  childns,   \* [Pid -> ...]: pid namespace its children are forked into
  first      \* pid 1 of the new pid namespace, Nobody when it is empty

procvars == <<pc, parent, lastpid, child>>
nsvars   == <<ns, childns, first>>
vars     == <<program, procvars, older, uts, hostname, nsvars>>

ChildStages == {"unshare", "sethostname", "root", "exec"}
Code        == ChildStages \cup {"fork", "wait", "again"}
Live        == {p \in Pid : pc[p] \in Code \cup {"run"}}
Loops       == {"exec", "defensive", "uts"}   \* while (wait(...) != -1 ...)

-----------------------------------------------------------------------------
(* System calls and kernel rules.                                          *)

\* A pid namespace whose pid 1 has ended hands out no more pids.
CanFork(p) == childns[p] = "new" => first = Nobody \/ first \in Live

\* p forks: the child starts at stage.
Fork(p, here, stage) ==
  /\ lastpid < MaxPid
  /\ CanFork(p)
  /\ lastpid' = lastpid + 1
  /\ pc'      = [pc EXCEPT ![p] = here, ![lastpid + 1] = stage]
  /\ parent'  = [parent EXCEPT ![lastpid + 1] = p]
  /\ ns'      = [ns EXCEPT ![lastpid + 1] = childns[p]]
  /\ childns' = [childns EXCEPT ![lastpid + 1] = childns[p]]
  /\ first'   = IF childns[p] = "new" /\ first = Nobody THEN lastpid + 1
                                                        ELSE first

\* The processes that die with p: the rest of its namespace when it is pid 1.
DieWith(p) == IF p = first THEN {q \in Pid \ {p} : ns[q] = "new"} ELSE {}

\* p ends.  Its children go to pid 1 of p's own namespace, which need not be
\* theirs.
Ends(p) ==
  /\ pc' = [q \in Pid |->
             IF q = p THEN "zombie"
             ELSE IF q \in DieWith(p) /\ pc[q] # "free" THEN "reaped" ELSE pc[q]]
  /\ parent' = [q \in Pid |->
       IF parent[q] \in {p} \cup DieWith(p)
       THEN IF ns[p] = "new" /\ p # first THEN first ELSE Host
       ELSE parent[q]]
  /\ UNCHANGED <<lastpid, child>>

Goto(p, stage) == /\ pc' = [pc EXCEPT ![p] = stage]
                  /\ UNCHANGED <<parent, lastpid, child>>

\* The zombies wait() can return to p; it fails with ECHILD when p is Childless,
\* and blocks when neither.
Zombies(p)   == {c \in Pid : parent[c] = p /\ pc[c] = "zombie"}
Childless(p) ==
  /\ \A c \in Pid : parent[c] = p => pc[c] \in {"free", "reaped"}
  /\ p = Launcher => older \in {"none", "reaped"}

-----------------------------------------------------------------------------
Init ==
  /\ program \in Loops \cup {"legacy"}
  /\ pc       = [p \in Pid |-> IF p = Launcher THEN "fork" ELSE "free"]
  /\ parent   = [p \in Pid |-> Host]
  /\ lastpid  = Launcher
  /\ child    = Nobody
  /\ older    \in {"none", "alive"}
  /\ uts      = "host"
  /\ hostname = "host"
  /\ ns       = [p \in Pid |-> "host"]
  /\ childns  = [p \in Pid |-> "host"]
  /\ first    = Nobody

ChildStarts == IF program \in {"uts", "legacy"} THEN "unshare" ELSE "exec"

\* Bug: if (fork() != 0): the launcher takes the branch of the child.
ForkChildSwapped ==
  /\ pc[Launcher] = "fork"
  /\ Fork(Launcher, ChildStarts, "wait")
  /\ child' = lastpid + 1
  /\ UNCHANGED <<program, older, uts, hostname>>

ForkChild ==
  /\ pc[Launcher] = "fork"
  /\ Fork(Launcher, "wait", ChildStarts)
  /\ child' = lastpid + 1
  /\ UNCHANGED <<program, older, uts, hostname>>

\* fork() returns -1: _assert() exits; the programs without it take -1 for
\* the pid of a child and wait.
ForkFails ==
  /\ pc[Launcher] = "fork"
  /\ IF program \in {"defensive", "uts"} THEN Ends(Launcher)
                                         ELSE Goto(Launcher, "wait")
  /\ UNCHANGED <<program, older, uts, hostname, nsvars>>

-----------------------------------------------------------------------------
(* The child.                                                              *)

\* unshare(): CLONE_NEWPID leaves the caller where it is and only moves the
\* children it forks from now on.
Unshare ==
  /\ child # Nobody /\ pc[child] = "unshare"
  /\ Goto(child, "sethostname")
  /\ uts'     = "own"
  /\ childns' = IF program = "legacy" THEN [childns EXCEPT ![child] = "new"]
                                      ELSE childns
  /\ UNCHANGED <<program, older, hostname, ns, first>>

SetHostname ==
  /\ child # Nobody /\ pc[child] = "sethostname"
  /\ Goto(child, IF program = "legacy" THEN "root" ELSE "exec")
  /\ hostname' = IF uts = "own" THEN hostname ELSE "new"
  /\ UNCHANGED <<program, older, uts, nsvars>>

\* unshare(CLONE_NEWUSER), the mounts and pivot_root() of the legacy program.
SwitchRoot ==
  /\ child # Nobody /\ pc[child] = "root"
  /\ Goto(child, "exec")
  /\ UNCHANGED <<program, older, uts, hostname, nsvars>>

\* Bug: what unshare() returns is not looked at.
ChildExitsLate ==
  /\ child # Nobody /\ pc[child] \in ChildStages \ {"exec"}
  /\ IF pc[child] = "unshare" THEN Goto(child, "sethostname") ELSE Ends(child)
  /\ UNCHANGED <<program, older, uts, hostname, nsvars>>

\* One of these calls fails: exit(1).
ChildExits ==
  /\ child # Nobody /\ pc[child] \in ChildStages \ {"exec"}
  /\ Ends(child)
  /\ UNCHANGED <<program, older, uts, hostname, nsvars>>

-----------------------------------------------------------------------------
(* execvp() and wait(), of either.                                         *)

\* The child execs, or a process that is through with waiting.
Exec(p) ==
  /\ pc[p] \in {"exec", "again"}
  /\ Goto(p, "run")
  /\ UNCHANGED <<program, older, uts, hostname, nsvars>>

\* Bug: no program looks at what execvp() returns.
ExecReturns(p) ==
  /\ \/ pc[p] = "exec" /\ Goto(p, "wait")
     \/ pc[p] = "again" /\ Ends(p)
  /\ UNCHANGED <<program, older, uts, hostname, nsvars>>

\* execvp() returns.  In exec.cpp the child runs on into the code of the
\* launcher; elsewhere _assert() or TRY exits.  Behind the second execvp()
\* there is only the end of main().
ExecFails(p) ==
  /\ \/ pc[p] = "exec" /\ IF program = "exec" THEN Goto(p, "wait") ELSE Ends(p)
     \/ pc[p] = "again" /\ Ends(p)
  /\ UNCHANGED <<program, older, uts, hostname, nsvars>>

\* Where a process goes when it has waited: exit(0), or the second execvp().
Waited(p) == IF program \in {"defensive", "uts"} THEN Ends(p) ELSE Goto(p, "again")

\* Bug: wait() is called with WNOHANG.
WaitsNot(p) ==
  /\ pc[p] = "wait"
  /\ Waited(p)
  /\ UNCHANGED <<program, older, uts, hostname, nsvars>>

\* Bug: errno == ECHILD, the loop never ends.
WaitsOn(p) ==
  /\ pc[p] = "wait"
  /\ \E c \in Zombies(p) : Goto(c, "reaped")
  /\ UNCHANGED <<program, older, uts, hostname, nsvars>>

\* while (wait(&status) != -1 || errno != ECHILD); or, in the legacy program,
\* one wait() for whichever child ends first.
Waits(p) ==
  /\ pc[p] = "wait"
  /\ \/ /\ \E c \in Zombies(p) :
             IF program \in Loops
             THEN Goto(c, "reaped")
             ELSE /\ pc' = [pc EXCEPT ![c] = "reaped", ![p] = "again"]
                  /\ UNCHANGED <<parent, lastpid, child>>
        /\ UNCHANGED older
     \/ /\ p = Launcher /\ older = "zombie"
        /\ older' = "reaped"
        /\ IF program \in Loops THEN UNCHANGED procvars ELSE Goto(p, "again")
     \/ /\ Childless(p)
        /\ Waited(p)
        /\ UNCHANGED older
  /\ UNCHANGED <<program, uts, hostname, nsvars>>

-----------------------------------------------------------------------------
(* The environment: what was exec'ed, signals, the host.                   *)

UserForks(p) == /\ pc[p] = "run"
                /\ Fork(p, "run", "run")
                /\ UNCHANGED <<program, child, older, uts, hostname>>

UserWaits(p) == /\ pc[p] = "run"
                /\ \E c \in Zombies(p) : Goto(c, "reaped")
                /\ UNCHANGED <<program, older, uts, hostname, nsvars>>

\* A process exits, or a signal kills it wherever it is.
UserEnds(p) == /\ p \in Live
               /\ Ends(p)
               /\ UNCHANGED <<program, older, uts, hostname, nsvars>>

OlderEnds == /\ older = "alive"
             /\ older' = "zombie"
             /\ UNCHANGED <<program, procvars, uts, hostname, nsvars>>

HostReaps(p) == /\ parent[p] = Host /\ pc[p] = "zombie"
                /\ Goto(p, "reaped")
                /\ UNCHANGED <<program, older, uts, hostname, nsvars>>

-----------------------------------------------------------------------------
Setup == ForkChild \/ ForkFails \/ Unshare \/ SetHostname \/ SwitchRoot
           \/ ChildExits
Runs(p) == Exec(p) \/ ExecFails(p) \/ Waits(p)

Next == \/ Setup
        \/ OlderEnds
        \/ \E p \in Pid : \/ Runs(p) \/ HostReaps(p)
                          \/ UserForks(p) \/ UserWaits(p) \/ UserEnds(p)

Spec == Init /\ [][Next]_vars

\* The scheduler runs the program's own code, the host reaps what it adopted;
\* nothing is assumed of what was exec'ed.
FairSpec == /\ Spec
            /\ WF_vars(Setup)
            /\ \A p \in Pid : WF_vars(Runs(p)) /\ WF_vars(HostReaps(p))

-----------------------------------------------------------------------------
(* Properties.                                                             *)

\* Every variable keeps its type; the launcher is never in the branch of the
\* child.
TypeOK ==
  /\ program \in Loops \cup {"legacy"}
  /\ pc \in [Pid -> Code \cup {"free", "run", "zombie", "reaped"}]
  /\ pc[Launcher] \notin ChildStages \cup {"free"}
  /\ parent \in [Pid -> Pid \cup {Host}]
  /\ lastpid \in Pid
  /\ child \in {Nobody, 2}
  /\ older \in {"none", "alive", "zombie", "reaped"}
  /\ uts \in {"host", "own"} /\ hostname \in {"host", "new"}
  /\ ns \in [Pid -> {"host", "new"}] /\ childns \in [Pid -> {"host", "new"}]
  /\ first \in Pid \cup {Nobody}

\* Only the child of exec.cpp ever runs the launcher's code (exec.cpp:11-19):
\* the exit() of _assert() and of TRY keeps every other out of it, whatever
\* call fails (defensive.cpp:43, uts.cpp:57, doqueru-legacy.cpp:256).
OneLauncher ==
  \A p \in Pid \ {Launcher} :
    pc[p] \in {"wait", "again"} => program = "exec" /\ p = child

\* The launcher's program never runs beside the child's (exec.cpp:16-19,
\* doqueru-legacy.cpp:260-264), not even when the child ran on into the second
\* execvp() itself; only the single wait() of the legacy program lets an older
\* child of the launcher stand in for it.
ParentLast ==
  pc[Launcher] \in {"again", "run"} /\ child # Nobody =>
    \/ pc[child] = "reaped"
    \/ program = "legacy" /\ older = "reaped"

\* unshare() comes before what needs it, and the child that fails in it ends
\* (uts.cpp:46-47, doqueru-legacy.cpp:188-189): sethostname() never renames the
\* host; the program that is exec'ed has a name of its own and, in the legacy
\* program, forks into the new pid namespace; and nobody else ever does, the
\* launcher and what it execs later (doqueru-legacy.cpp:264) least of all.
NamespacesApart ==
  /\ hostname = "host"
  /\ child # Nobody /\ pc[child] = "run" /\ program \in {"uts", "legacy"} =>
       /\ uts = "own"
       /\ program = "legacy" => childns[child] = "new"
  /\ \A p \in Pid : childns[p] = "new" => ns[p] = "new" \/ p = child

\* If whatever is exec'ed ends, everything ends and is reaped: no wait() of
\* any of the programs blocks for ever, the child that ran on included.
UserTerminates == <>[](older # "alive" /\ \A p \in Pid : pc[p] # "run")

AllReaped ==
  UserTerminates => <>[](\A p \in Pid : pc[p] \in {"free", "reaped"})
=============================================================================

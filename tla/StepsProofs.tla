----------------------------- MODULE StepsProofs -----------------------------
(***************************************************************************)
(* Proofs about Steps, for every number of processes.                      *)
(*                                                                         *)
(* The argument: the code of the programs is executed by the launcher and  *)
(* by its child only, who is a child of nobody else while the launcher     *)
(* waits (Family); and who is in the new pid namespace descends from its   *)
(* first process, which the child forked when it was through with all of   *)
(* the code (Spaces).                                                      *)
(***************************************************************************)
EXTENDS Steps, TLAPS

\* Processes that have not been forked are free.
Fresh ==
  /\ \A p \in Pid : pc[p] = "free" <=> p > lastpid
  /\ pc[Launcher] = "fork" => lastpid = Launcher /\ child = Nobody
  /\ child # Nobody => lastpid >= child

\* Who is at which place of the code, in which program.
InCode == \A p \in Pid \ {Launcher} :
  /\ pc[p] \in Code => p = child /\ pc[p] # "fork"
  /\ pc[p] \in {"wait", "again"} => program = "exec"
  /\ pc[p] \in {"unshare", "sethostname"} => program \in {"uts", "legacy"}
  /\ pc[p] = "root" => program = "legacy"

\* The host keeps its name, and the child has the namespaces it asked for.
Unshared == {"sethostname", "root", "exec", "run"}

Named ==
  /\ hostname = "host"
  /\ child # Nobody /\ pc[child] \in Unshared /\ program \in {"uts", "legacy"} =>
       /\ uts = "own"
       /\ program = "legacy" => childns[child] = "new"

\* The launcher has one child as long as it waits, and none before.
Family == pc[Launcher] \in {"fork", "wait"} =>
  \A p \in Pid : parent[p] = Launcher <=> p = child

\* Who is in the new pid namespace, and who forks into it.
Spaces ==
  /\ first # Nobody => /\ program = "legacy" /\ child # Nobody
                       /\ pc[child] \in {"run", "zombie", "reaped"}
                       /\ first \notin {Launcher, child}
                       /\ ns[first] = "new"
  /\ \A p \in Pid : ns[p] = "new" => /\ p \notin {Launcher, child}
                                     /\ first # Nobody
                                     /\ pc[p] # "free"
  /\ \A p \in Live : ns[p] = "new" => first \in Live
  /\ \A p \in Pid : childns[p] = "new" => \/ ns[p] = "new"
                                          \/ /\ p = child
                                             /\ program = "legacy"
                                             /\ pc[p] # "unshare"

IInv == TypeOK /\ Fresh /\ InCode /\ Named /\ Family /\ ParentLast /\ Spaces

-----------------------------------------------------------------------------
(* What the steps are made of.                                             *)

\* A process ends, and others with it.
LEMMA EndsKept ==
  ASSUME IInv, NEW p \in Live, Ends(p),
         UNCHANGED <<program, older, uts, hostname, nsvars>>
  PROVE  IInv'
<1> USE MaxPidAssumption DEF IInv, Pid, Launcher, Host, Nobody
<1>0. /\ UNCHANGED <<lastpid, child, program, older, uts, hostname, ns,
                     childns, first>>
      /\ pc[p] \in Code \cup {"run"} /\ p \in Pid /\ pc'[p] = "zombie"
      /\ \A q \in Pid : q # p => \/ pc'[q] = pc[q]
                                 \/ /\ pc'[q] = "reaped" /\ pc[q] # "free"
                                    /\ p = first /\ ns[q] = "new"
      /\ p = first => \A q \in Pid :
                        q # p /\ ns[q] = "new" => pc'[q] \in {"free", "reaped"}
  BY DEF Ends, Live, TypeOK, DieWith, nsvars
<1>1. TypeOK'
  <2>1. pc' \in [Pid -> Code \cup {"free", "run", "zombie", "reaped"}]
    BY DEF Ends, TypeOK
  <2>2. parent' \in [Pid -> Pid \cup {Host}]
    BY DEF Ends, TypeOK, Spaces
  <2>3. pc'[Launcher] \notin ChildStages \cup {"free"}
    BY <1>0 DEF TypeOK, ChildStages
  <2> QED
    BY <1>0, <2>1, <2>2, <2>3 DEF TypeOK
<1>2. Fresh'
  BY <1>0 DEF Fresh, Code, ChildStages, TypeOK
<1>3. InCode'
  BY <1>0 DEF InCode, Code, ChildStages
<1>4. Named'
  BY <1>0 DEF Named, Unshared, TypeOK, Code, ChildStages
<1>5. Family'
  <2> SUFFICES ASSUME pc'[Launcher] \in {"fork", "wait"}, NEW q \in Pid
               PROVE  parent'[q] = Launcher <=> q = child
    BY <1>0 DEF Family
  <2>1. pc[Launcher] \in {"fork", "wait"} /\ p # Launcher
    BY <1>0
  <2>2. parent[q] = Launcher <=> q = child
    BY <2>1 DEF Family
  <2>3. ns[Launcher] # "new" /\ Launcher \notin DieWith(p)
    BY DEF Spaces, DieWith
  <2>4. parent'[q] = IF parent[q] \in {p} \cup DieWith(p)
                     THEN IF ns[p] = "new" /\ p # first THEN first ELSE Host
                     ELSE parent[q]
    BY DEF Ends
  <2>5. ns[p] = "new" => first # Launcher
    BY DEF Spaces
  <2> QED
    BY <2>1, <2>2, <2>3, <2>4, <2>5
<1>6. ParentLast'
  <2>1. pc'[Launcher] \in {"again", "run"} => pc'[Launcher] = pc[Launcher]
    BY <1>0
  <2>2. child # Nobody /\ pc[child] = "reaped" => pc'[child] = "reaped"
    BY <1>0 DEF TypeOK, Code, ChildStages
  <2> QED
    BY <1>0, <2>1, <2>2 DEF ParentLast
<1>7. Spaces'
  <2>1. first # Nobody => pc'[child] \in {"run", "zombie", "reaped"}
    BY <1>0 DEF Spaces, TypeOK
  <2>2. \A q \in Pid : pc'[q] = "free" <=> pc[q] = "free"
    BY <1>0 DEF Code, ChildStages
  <2>3. \A q \in Live' : q \in Live
    BY <1>0 DEF Live, Code, ChildStages
  <2>4. first \in Live /\ p # first => first \in Live'
    BY <1>0 DEF Live, Spaces
  <2>5. p = first => \A q \in Live' : ns[q] # "new"
    BY <1>0 DEF Live, Code, ChildStages
  <2>6. \A q \in Live' : ns[q] = "new" => first \in Live'
    BY <2>3, <2>4, <2>5 DEF Spaces
  <2>7. \A q \in Pid : pc'[q] = "unshare" => pc[q] = "unshare"
    BY <1>0
  <2>8. ASSUME NEW q \in Pid, ns[q] = "new"
        PROVE  q \notin {Launcher, child} /\ first # Nobody /\ pc'[q] # "free"
    <3>1. q \notin {Launcher, child} /\ first # Nobody /\ pc[q] # "free"
      BY <2>8 DEF Spaces
    <3> QED
      BY <2>2, <3>1
  <2>9. ASSUME NEW q \in Pid, childns[q] = "new"
        PROVE  ns[q] = "new" \/ /\ q = child /\ program = "legacy"
                                /\ pc'[q] # "unshare"
    BY <2>7, <2>9 DEF Spaces
  <2> QED
    BY <1>0, <2>1, <2>6, <2>8, <2>9 DEF Spaces
<1> QED
  BY <1>1, <1>2, <1>3, <1>4, <1>5, <1>6, <1>7

\* A zombie is reaped by whoever waited, or by the host; the launcher may go on
\* to its second execvp() when its child is gone.
LEMMA ReapKept ==
  ASSUME IInv, NEW c \in Pid, pc[c] = "zombie", Goto(c, "reaped"),
         UNCHANGED <<program, older, uts, hostname, nsvars>>
  PROVE  IInv'
<1> USE MaxPidAssumption DEF IInv, Pid, Launcher, Host, Nobody
<1>0. /\ UNCHANGED <<parent, lastpid, child, program, older, uts, hostname,
                     ns, childns, first>>
      /\ pc' = [pc EXCEPT ![c] = "reaped"]
      /\ pc \in [Pid -> Code \cup {"free", "run", "zombie", "reaped"}]
  BY DEF Goto, nsvars, TypeOK
<1>1. TypeOK'
  BY <1>0 DEF TypeOK, ChildStages
<1>2. Fresh'
  BY <1>0 DEF Fresh
<1>3. InCode'
  BY <1>0 DEF InCode, Code, ChildStages
<1>4. Named' /\ Family' /\ ParentLast'
  BY <1>0 DEF Named, Unshared, Family, ParentLast, TypeOK
<1>5. Spaces'
  <2>1. Live' = Live
    BY <1>0 DEF Live, Code, ChildStages
  <2> QED
    BY <1>0, <2>1 DEF Spaces, TypeOK
<1> QED
  BY <1>1, <1>2, <1>3, <1>4, <1>5

\* A process goes on to another place of the code, or execs.
LEMMA GotoKept ==
  ASSUME IInv, NEW p \in Pid, NEW place \in {"sethostname", "root", "exec",
                                             "wait", "again", "run"},
         pc[p] \in Code, Goto(p, place),
         UNCHANGED <<program, hostname, ns, first>>,
         older' = older \/ older' = "reaped",
         p = Launcher => place \in {"wait", "again", "run"},
         p # Launcher => p = child,
         p # Launcher /\ place \in {"wait", "again"} => program = "exec",
         place = "sethostname" => program \in {"uts", "legacy"},
         place = "root" => program = "legacy",
         p = Launcher /\ place = "wait" => pc[p] = "fork",
         p = Launcher /\ place \in {"again", "run"} /\ child # Nobody =>
           \/ pc[child] = "reaped"
           \/ program = "legacy" /\ older' = "reaped",
         uts' = uts \/ uts' = "own",
         place = "sethostname" => uts' = "own",
         place = "sethostname" /\ program = "legacy" =>
           childns' = [childns EXCEPT ![p] = "new"],
         pc[p] = "unshare" => place = "sethostname",
         childns' = childns \/ /\ program = "legacy" /\ p = child
                               /\ place = "sethostname"
                               /\ childns' = [childns EXCEPT ![p] = "new"]
  PROVE  IInv'
<1> USE MaxPidAssumption DEF IInv, Pid, Launcher, Host, Nobody
<1>0. /\ UNCHANGED <<parent, lastpid, child, program, hostname, ns, first>>
      /\ pc' = [pc EXCEPT ![p] = place]
      /\ pc \in [Pid -> Code \cup {"free", "run", "zombie", "reaped"}]
  BY DEF Goto, nsvars, TypeOK
<1>1. TypeOK'
  BY <1>0 DEF TypeOK, ChildStages, Code
<1>2. Fresh'
  BY <1>0 DEF Fresh, Code, ChildStages
<1>3. InCode'
  BY <1>0 DEF InCode, Code, ChildStages
<1>4. Named'
  <2> SUFFICES ASSUME child # Nobody, pc'[child] \in Unshared,
                      program \in {"uts", "legacy"}
               PROVE  /\ uts' = "own"
                      /\ program = "legacy" => childns'[child] = "new"
    BY <1>0 DEF Named
  <2>1. CASE p = child /\ place = "sethostname"
    BY <2>1 DEF TypeOK
  <2>2. CASE ~(p = child /\ place = "sethostname")
    <3>1. pc[child] \in Unshared
      BY <1>0, <2>2 DEF InCode, Unshared, Code, ChildStages, TypeOK
    <3> QED
      BY <1>0, <3>1 DEF Named, TypeOK
  <2> QED
    BY <2>1, <2>2
<1>5. Family'
  BY <1>0 DEF Family, TypeOK
<1>6. ParentLast'
  BY <1>0 DEF ParentLast, TypeOK, Code, ChildStages
<1>7. Spaces'
  <2>1. Live' = Live
    BY <1>0 DEF Live, Code, ChildStages
  <2>2. first # Nobody => p # child
    BY DEF Spaces, Code, ChildStages
  <2> QED
    BY <1>0, <2>1, <2>2 DEF Spaces, TypeOK, Code, ChildStages
<1> QED
  BY <1>1, <1>2, <1>3, <1>4, <1>5, <1>6, <1>7

\* fork(): the child is free before, and in the namespace its parent forks into.
LEMMA ForkKept ==
  ASSUME IInv, NEW p \in Pid, NEW here \in {"wait", "run"},
         NEW place \in {"unshare", "exec", "run"}, Fork(p, here, place),
         UNCHANGED <<program, older, uts, hostname>>,
         \/ /\ p = Launcher /\ pc[p] = "fork" /\ here = "wait"
            /\ place = ChildStarts
            /\ child' = lastpid + 1
         \/ /\ pc[p] = "run" /\ here = "run" /\ place = "run"
            /\ child' = child
  PROVE  IInv'
<1> USE MaxPidAssumption DEF IInv, Pid, Launcher, Host, Nobody
<1> DEFINE new == lastpid + 1
<1>0. /\ UNCHANGED <<program, older, uts, hostname>>
      /\ new \in Pid /\ new # p /\ new # Launcher /\ lastpid' = new
      /\ pc' = [pc EXCEPT ![p] = here, ![new] = place]
      /\ pc[new] = "free"
      /\ parent' = [parent EXCEPT ![new] = p]
      /\ ns' = [ns EXCEPT ![new] = childns[p]]
      /\ childns' = [childns EXCEPT ![new] = childns[p]]
      /\ first' = IF childns[p] = "new" /\ first = Nobody THEN new ELSE first
      /\ childns[p] = "new" => first = Nobody \/ first \in Live
      /\ pc \in [Pid -> Code \cup {"free", "run", "zombie", "reaped"}]
  BY DEF Fork, CanFork, TypeOK, Fresh, Code, ChildStages
<1>1. CASE p = Launcher /\ pc[p] = "fork"
  <2>0. /\ lastpid = Launcher /\ child = Nobody /\ new = 2 /\ child' = 2
        /\ here = "wait" /\ place = ChildStarts
        /\ \A q \in Pid : parent[q] # Launcher
        /\ \A q \in Pid : q # Launcher => pc[q] = "free"
    BY <1>0, <1>1 DEF Fresh, Family
  <2>1. first = Nobody /\ \A q \in Pid : ns[q] # "new" /\ childns[q] # "new"
    BY <2>0 DEF Spaces
  <2>2. TypeOK'
    BY <1>0, <1>1, <2>0, <2>1 DEF TypeOK, Code, ChildStages
  <2>3. Fresh' /\ InCode'
    BY <1>0, <1>1, <2>0 
       DEF Fresh, InCode, ChildStarts, Code, ChildStages, TypeOK, Loops
  <2>4. Named' /\ Family' /\ ParentLast'
    BY <1>0, <1>1, <2>0 DEF Named, Unshared, Family, ParentLast, ChildStarts, TypeOK
  <2>5. Spaces'
    <3>1. first' = Nobody
      BY <1>0, <1>1, <2>1
    <3>2. \A q \in Pid : ns'[q] # "new" /\ childns'[q] # "new"
      BY <1>0, <1>1, <2>1 DEF TypeOK
    <3> QED
      BY <3>1, <3>2 DEF Spaces, Live
  <2> QED
    BY <2>2, <2>3, <2>4, <2>5
<1>2. CASE pc[p] = "run" /\ here = "run" /\ place = "run" /\ child' = child
  <2>1. pc' = [pc EXCEPT ![new] = "run"]
    BY <1>0, <1>2
  <2>2. child # new /\ lastpid \in Nat
    BY <1>0 DEF Fresh, TypeOK
  <2>3. TypeOK'
    BY <1>0, <1>2, <2>1 DEF TypeOK
  <2>4. Fresh'
    <3>1. \A q \in Pid : q > new <=> q > lastpid /\ q # new
      BY <2>2
    <3>2. pc'[new] = "run" /\ \A q \in Pid \ {new} : pc'[q] = pc[q]
      BY <1>0, <2>1
    <3> QED
      <4>1. \A q \in Pid : pc'[q] = "free" <=> q > lastpid'
        BY <1>0, <3>1, <3>2 DEF Fresh
      <4>2. pc[Launcher] # "fork" => pc'[Launcher] # "fork"
        BY <1>0, <3>2
      <4>3. pc[Launcher] # "fork"
        BY <1>2, <1>0 DEF Fresh, TypeOK
      <4>4. child' # Nobody => lastpid' >= child'
        BY <1>0, <1>2, <2>2 DEF Fresh, TypeOK
      <4> QED
        BY <4>1, <4>2, <4>3, <4>4 DEF Fresh
  <2>5. InCode'
    BY <1>0, <1>2, <2>1 DEF InCode, Code, ChildStages
  <2>6. Named' /\ ParentLast'
    BY <1>0, <1>2, <2>1, <2>2 DEF Named, Unshared, ParentLast, TypeOK, Fresh
  <2>7. Family'
    BY <1>0, <1>2, <2>1, <2>2 DEF Family, TypeOK
  <2>8. childns[p] = "new" => /\ program = "legacy" /\ child # Nobody
                              /\ pc[child] \in {"run", "zombie", "reaped"}
    BY <1>0, <1>2 DEF Spaces
  <2>9. Spaces'
    <3>1. /\ pc'[new] = "run" /\ ns'[new] = childns[p]
          /\ childns'[new] = childns[p]
          /\ \A q \in Pid \ {new} : /\ pc'[q] = pc[q] /\ ns'[q] = ns[q]
                                    /\ childns'[q] = childns[q]
      BY <1>0, <2>1 DEF TypeOK
    <3>2. Live' = Live \cup {new}
      BY <3>1, <1>0 DEF Live
    <3>3. ns[new] # "new"
      BY <1>0 DEF Spaces
    <3>4. first' # Nobody => /\ program = "legacy" /\ child # Nobody
                             /\ pc'[child] \in {"run", "zombie", "reaped"}
                             /\ first' \notin {Launcher, child}
                             /\ ns'[first'] = "new"
      <4>1. CASE first' = new
        BY <1>0, <2>2, <2>8, <3>1, <4>1 DEF Spaces, TypeOK
      <4>2. CASE first' = first
        BY <1>0, <2>2, <3>1, <3>3, <4>2 DEF Spaces, TypeOK
      <4> QED
        BY <1>0, <4>1, <4>2
    <3>5. ASSUME NEW q \in Pid, ns'[q] = "new"
          PROVE  /\ q \notin {Launcher, child} /\ first' # Nobody
                 /\ pc'[q] # "free"
                 /\ q \in Live' => first' \in Live'
      <4>1. CASE q = new
        BY <1>0, <2>2, <3>1, <3>2, <3>5, <4>1
      <4>2. CASE q # new
        BY <1>0, <3>1, <3>2, <3>5, <4>2 DEF Spaces
      <4> QED
        BY <4>1, <4>2
    <3>6. ASSUME NEW q \in Pid, childns'[q] = "new"
          PROVE  ns'[q] = "new" \/ /\ q = child /\ program = "legacy"
                                   /\ pc'[q] # "unshare"
      BY <3>1, <3>6 DEF Spaces
    <3> QED
      BY <1>0, <1>2, <3>4, <3>5, <3>6 DEF Spaces, Live
  <2> QED
    BY <2>3, <2>4, <2>5, <2>6, <2>7, <2>9
<1> QED
  BY <1>1, <1>2
-----------------------------------------------------------------------------
(* The steps.                                                              *)

\* Before main() nobody has been forked.
LEMMA InitIInv == Init => IInv
BY MaxPidAssumption
   DEF Init, IInv, TypeOK, Fresh, InCode, Named, Family, ParentLast, Spaces,
       Live, Pid, Launcher, Host, Nobody, Code, ChildStages, Loops

\* The wait() of a process that has gone through the code.
LEMMA WaitsKept ==
  ASSUME IInv, NEW p \in Pid, Waits(p)
  PROVE  IInv'
<1> USE MaxPidAssumption DEF IInv
<1>0. /\ pc[p] = "wait" /\ UNCHANGED <<program, uts, hostname, nsvars>>
      /\ pc[p] \in Code /\ p \in Live
      /\ p # Launcher => p = child /\ program = "exec"
  BY DEF Waits, InCode, Code, Live
<1>1. CASE /\ program \in Loops /\ UNCHANGED older
           /\ \E c \in Zombies(p) : Goto(c, "reaped")
  BY <1>0, <1>1, ReapKept DEF Zombies
<1>2. CASE /\ program \notin Loops
           /\ \E c \in Zombies(p) :
                pc' = [pc EXCEPT ![c] = "reaped", ![p] = "again"]
           /\ UNCHANGED <<older, parent, lastpid, child>>
  <2>1. PICK c \in Pid : /\ parent[c] = p /\ pc[c] = "zombie"
                         /\ pc' = [pc EXCEPT ![c] = "reaped", ![p] = "again"]
    BY <1>2 DEF Zombies
  <2>2. p = Launcher /\ c = child /\ c # p
    BY <1>0, <1>2, <2>1 DEF Loops, Family
  <2>3. /\ pc'[p] = "again" /\ pc'[c] = "reaped"
        /\ \A q \in Pid \ {p, c} : pc'[q] = pc[q]
        /\ pc' \in [Pid -> Code \cup {"free", "run", "zombie", "reaped"}]
    BY <2>1, <2>2 DEF TypeOK, Code
  <2>4. UNCHANGED <<program, uts, hostname, ns, childns, first>>
    BY <1>0 DEF nsvars
  <2>5. TypeOK'
    BY <1>2, <2>2, <2>3, <2>4 DEF TypeOK, ChildStages
  <2>6. Fresh' /\ InCode' /\ Named'
    BY <1>0, <1>2, <2>1, <2>2, <2>3, <2>4
       DEF Fresh, InCode, Named, Unshared, Code, ChildStages
  <2>7. Family' /\ ParentLast'
    BY <2>2, <2>3, <1>2 DEF Family, ParentLast
  <2>8. Live' = Live
    BY <1>0, <2>1, <2>2, <2>3 DEF Live, Code, ChildStages
  <2>9. Spaces'
    BY <1>0, <1>2, <2>1, <2>2, <2>3, <2>4, <2>8 DEF Spaces
  <2> QED
    BY <2>5, <2>6, <2>7, <2>9
<1>3. CASE p = Launcher /\ older' = "reaped" /\ UNCHANGED procvars
  BY <1>0, <1>3 DEF TypeOK, Fresh, InCode, Named, Family, ParentLast, Spaces,
                    Live, procvars, nsvars
<1>4. CASE /\ p = Launcher /\ older' = "reaped" /\ program \notin Loops
           /\ Goto(p, "again")
  BY <1>0, <1>4, GotoKept DEF TypeOK, Loops, nsvars
<1>5. CASE Childless(p) /\ Waited(p) /\ UNCHANGED older
  <2>1. CASE Ends(p)
    BY <1>0, <1>5, <2>1, EndsKept
  <2>2. CASE Goto(p, "again")
    <3>1. p = Launcher /\ child # Nobody => pc[child] = "reaped"
      BY <1>0, <1>5 DEF Childless, Family, TypeOK, Fresh, Pid, Nobody, Launcher
    <3> QED
      BY <1>0, <1>5, <2>2, <3>1, GotoKept DEF nsvars
  <2> QED
    BY <1>5, <2>1, <2>2 DEF Waited
<1> QED
  BY <1>0, <1>1, <1>2, <1>3, <1>4, <1>5 DEF Waits

\* Every step preserves the invariant.
LEMMA NextIInv == IInv /\ [Next]_vars => IInv'
<1> SUFFICES ASSUME IInv, [Next]_vars PROVE IInv'
  OBVIOUS
<1> USE MaxPidAssumption DEF Pid, Launcher, Host, Nobody
<1>1. CASE ForkChild
  <2>1. ChildStarts \in {"unshare", "exec", "run"}
    BY DEF ChildStarts
  <2> QED
    BY <1>1, <2>1, ForkKept DEF ForkChild
<1>2. CASE ForkFails
  <2>1. Launcher \in Live /\ pc[Launcher] \in Code
    BY <1>2 DEF ForkFails, Live, Code
  <2> QED
    BY <1>2, <2>1, EndsKept, GotoKept DEF ForkFails, nsvars
<1>a. child # Nobody => child \in Pid /\ child # Launcher
  BY DEF IInv, TypeOK
<1>3. CASE Unshare
  <2>1. /\ child # Nobody /\ pc[child] = "unshare"
        /\ program \in {"uts", "legacy"} /\ pc[child] \in Code
    BY <1>3, <1>a DEF Unshare, IInv, InCode, Code, ChildStages
  <2> QED
    BY <1>3, <1>a, <2>1, GotoKept DEF Unshare
<1>4. CASE SetHostname
  <2>1. /\ child # Nobody /\ pc[child] \in Code /\ uts = "own"
        /\ UNCHANGED <<hostname, childns, ns, first>>
    BY <1>4, <1>a DEF SetHostname, IInv, InCode, Named, Unshared, Code, ChildStages, nsvars
  <2>2. CASE program = "legacy"
    BY <1>4, <1>a, <2>1, <2>2, GotoKept DEF SetHostname
  <2>3. CASE program # "legacy"
    BY <1>4, <1>a, <2>1, <2>3, GotoKept DEF SetHostname
  <2> QED
    BY <2>2, <2>3
<1>5. CASE SwitchRoot
  <2>1. child # Nobody /\ pc[child] \in Code
    BY <1>5 DEF SwitchRoot, Code, ChildStages
  <2> QED
    BY <1>5, <1>a, <2>1, GotoKept DEF SwitchRoot, nsvars
<1>6. CASE ChildExits
  BY <1>6, EndsKept DEF ChildExits, IInv, TypeOK, Live, Code, ChildStages
<1>7. CASE OlderEnds
  BY <1>7 DEF OlderEnds, IInv, TypeOK, Fresh, InCode, Named, Family,
              ParentLast, Spaces, Live, procvars, nsvars
<1>8. ASSUME NEW p \in Pid, Exec(p) \/ ExecFails(p) PROVE IInv'
  <2>1. /\ pc[p] \in {"exec", "again"} /\ pc[p] \in Code /\ p \in Live
        /\ UNCHANGED <<program, older, uts, hostname, nsvars>>
    BY <1>8 DEF Exec, ExecFails, Live, Code, ChildStages
  <2>2. p # Launcher => p = child
    BY <2>1 DEF IInv, InCode
  <2>3. p = Launcher => pc[p] = "again"
    BY <2>1 DEF IInv, TypeOK, ChildStages
  <2>4. CASE Goto(p, "run")
    <3>1. ASSUME p = Launcher, child # Nobody
          PROVE  \/ pc[child] = "reaped"
                 \/ program = "legacy" /\ older' = "reaped"
      BY <2>1, <2>3, <3>1 DEF IInv, ParentLast
    <3>2. UNCHANGED <<program, older, uts, hostname, childns, ns, first>>
      BY <2>1 DEF nsvars
    <3> QED
      BY <2>1, <2>2, <2>4, <3>1, <3>2, GotoKept
  <2>5. CASE pc[p] = "exec" /\ program = "exec" /\ Goto(p, "wait")
    BY <2>1, <2>2, <2>3, <2>5, GotoKept DEF nsvars
  <2>6. CASE Ends(p)
    BY <2>1, <2>6, EndsKept
  <2> QED
    BY <1>8, <2>4, <2>5, <2>6 DEF Exec, ExecFails
<1>9. ASSUME NEW p \in Pid, HostReaps(p) \/ UserWaits(p) PROVE IInv'
  BY <1>9, ReapKept DEF HostReaps, UserWaits, Zombies
<1>10. ASSUME NEW p \in Pid, UserForks(p) PROVE IInv'
  BY <1>10, ForkKept DEF UserForks
<1>11. ASSUME NEW p \in Pid, UserEnds(p) PROVE IInv'
  BY <1>11, EndsKept DEF UserEnds
<1>12. CASE UNCHANGED vars
  BY <1>12 DEF vars, IInv, TypeOK, Fresh, InCode, Named, Family, ParentLast,
               Spaces, Live, procvars, nsvars
<1> QED
  BY <1>1, <1>2, <1>3, <1>4, <1>5, <1>6, <1>7, <1>8, <1>9, <1>10,
     <1>11, <1>12, WaitsKept
     DEF Next, Setup, Runs

\* The inductive invariant holds of all four programs.
THEOREM InvariantHolds == Spec => []IInv
BY InitIInv, NextIInv, PTL DEF Spec

\* The variables keep their types, and the launcher is never in the branch of
\* the child.
THEOREM TypeCorrect == Spec => []TypeOK
<1>1. IInv => TypeOK
  BY DEF IInv
<1> QED
  BY <1>1, InvariantHolds, PTL

\* Only the child of exec.cpp ever runs on into the launcher's code, whatever
\* the programs that are exec'ed fork (exec.cpp:11-19).
THEOREM OneRunsOn == Spec => []OneLauncher
<1>1. IInv => OneLauncher
  BY DEF IInv, InCode, OneLauncher, Code
<1> QED
  BY <1>1, InvariantHolds, PTL

\* The launcher's program never runs beside the child's, unless the wait() of
\* the legacy program has returned an older child (exec.cpp:16-19,
\* doqueru-legacy.cpp:260-264).
THEOREM LauncherIsLast == Spec => []ParentLast
<1>1. IInv => ParentLast
  BY DEF IInv
<1> QED
  BY <1>1, InvariantHolds, PTL

\* The host keeps its name, and a program that was to have namespaces of its
\* own is not exec'ed without them, nor does anybody else fork into them
\* (uts.cpp:46-47, doqueru-legacy.cpp:188-189, 256).
THEOREM SeparateIsSeparate == Spec => []NamespacesApart
<1>1. IInv => NamespacesApart
  BY DEF IInv, Named, Unshared, Spaces, NamespacesApart
<1> QED
  BY <1>1, InvariantHolds, PTL
=============================================================================

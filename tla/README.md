# doqueru-kun in TLA+

doqueru-kun is a small Linux container launcher: one process unshares three
namespaces, makes a directory its root, forks the pid 1 of the container and
waits for it.  Its own program text is `src/doqueru.cpp`, an older
`src/doqueru-legacy.cpp` and a series of tutorial programs in `src/steps/`, most
of which are prefixes of `doqueru.cpp` or that file with the control group code
added.  There are no tests.  `src/doquerinhos_shell/` is the Ubuntu image that the
container runs in.  It is third-party software; the Python in it that has
state of its own (the debconf client, the gdb printers and xmethods of
libstdc++) is modelled too, after the launcher and separately from it.

Line numbers are those of `src/doqueru.cpp` unless another file is named.

## 1. Inventory

| Part | State | Operations | Module |
|---|---|---|---|
| Process tree: `main` 245, `doqueru` 221 | launcher's and pid 1's place in the code, the processes of the pid namespace and their parents | fork ×2, `execvp`, reaping loop 237, `wait` 242, `_assert` exits, kills | `Doqueru`, abstractly `Supervisor` |
| Namespaces and root: `unsharenamespaces` 59, `pivot_root_routine` 68, `mount_proc` 54 | namespaces, mounts, root, working directory of a launch; `oldroot` and `proc` on disk, the host's name and mounts | eleven system calls | `RootSwitch` |
| A whole launch | both of the above | both of the above | `Container` |
| Option parser: `config` 136, `cpu_quota` 87 | loop index, four settings, the array of rules | one turn of the loop per option, building the rules | `Config` |
| Control groups: `cgroup` 117, `cgroup_rule` 99 | the group's directories, limits and members in the kernel | mkdir, open/write of a limit, open/write of `cgroup.procs` | `Cgroup` |
| `steps/exec, defensive, uts.cpp`, `doqueru-legacy.cpp` | processes without an init, the legacy program's pid and UTS namespaces | fork, unshare, sethostname, execvp, wait | `Steps` |
| `steps/uts, pid, mnt, pivot_root, cgroup.cpp` | as the first two rows | prefixes of the above | programs of `RootSwitch` |
| debconf client (`dist-packages/debconf.py`) | two pipes, a child, a buffer | command, stop, shutdown, `__del__`, retry | `Debconf` |
| gdb printers (`libstdcxx/v6/printers.py`) | an iterator on the memory of a stopped program | `children`, `__next__`, `to_string`, look-up | `Deque`, `Vector`, `Nodes`, `Hashtable`, `Rbtree`, `Tuple`, `SharedPtr`, `Dispatch`, abstractly `Listing` |
| xmethods (`libstdcxx/v6/xmethods.py`) | none of their own | workers on the same memory, matchers | in the same modules |

**How the parts interact.**  The launcher has no message passing: everything
happens through the kernel.  `main` calls `doqueru`, which calls
`unsharenamespaces` and `pivot_root_routine` in the launcher and `mount_proc` in
pid 1, after the fork.  The two processes of the program and the user's program
share only the process tree: who may wait for whom.  Separate launches share
more than a reader of the code expects: the directory `./doquerinhos_shell` with
the transient `oldroot` and the lasting `proc` in it, and the control group
`doquerinho/` of every controller.  `config` calls `cgroup`; nothing calls
`config`, neither in `doqueru.cpp` nor in `steps/cgroup.cpp`.  So `Config` and
`Cgroup` describe functions, not launches: whatever `README.md`:45 documents as
`dokeru [OPTION]...`, `main` reads no option and executes `argv[1]`.

The debconf client talks to its child, or to the frontend that is its parent,
in lockstep over two pipes that any helper process may inherit.  gdb calls a
printer's iterator one element at a time while the program is stopped; what the
program was doing when it stopped is up to the program.

**What is hard.**  Interleavings of processes that fork, die and are adopted;
the single `wait` 242 that takes any child; the loop 237 that ends at the first
`ECHILD`; a launcher or pid 1 that dies at any point; launches that race for
`oldroot`; the propagation of mounts; assertions that compare with the wrong
number; a fixed array filled by the command line; arithmetic of mixed widths;
a child that runs on into its parent's code; a conversation with signals,
retries and a peer that dies; memory read between two stores.  `PROJECT.json`
lists each at its line, with the properties aimed at it.

**What makes each part correct.**

- process tree: the launcher returns when, and only when, nothing of its
  container is left; init is the first in and the last out; every process always
  has somebody to reap it; all of it ends if the user's program does.
- root: the host is never touched; pid 1 never starts with the host's tree in
  reach; a launch fails only for a reason outside it; a running container is not
  changed by later launches.
- a launch: nothing of the user's program runs before its root is switched.
- tutorial programs: only one process goes on as the launcher; it does not
  run on beside its child; the host keeps its name.
- parser: all of the command line or none of it is applied; the last value of an
  option counts; the array is not overrun; the rules mean what was asked.
- control groups: the launch that came last has its own limits and is in the
  groups.
- debconf: each command gets its own answer, unchanged; nothing blocks for ever;
  no child is left behind.
- printers: what is announced, listed and returned is what the object contains,
  whatever the program has done before and, for the operations that section 2
  opens up, in the middle of one; the listing ends.

## 2. Modules and code

### Doqueru
`launcher` is the launcher's place in `main`, `init` that of pid 1 in `doqueru`,
`state` and `parent` the life and the parent of the other pids of the namespace.
Actions named after the code (`ForkInit` 226, `MakeProcDir` 55, `MountProc` 56,
`ForkApp` 233, `ExecApp`/`ExecAsserts` 235, `InitReaps` 237, `InitExits` 239-247,
`LauncherWait` 242-247) are one system call with the code up to the next; init
really falls out of its branch into the launcher's `wait`, and so it does here.
`_assert` is `LauncherAsserts`, `InitAsserts` and `ExecAsserts`.  Everything else
is environment: the user's program (`UserForks`, `UserWaits`, `UserEnds`, in any
order and with any tree), signals (`KillInit`, `KillLauncher`), children that the
launcher had when it was exec'ed (`Inherited`; a shell may exec the launcher with
background jobs of its own), and the kernel.  Rules of the kernel used:

- pid 1 of a namespace adopts the children of a process that ends in it;
- when pid 1 exits, the kernel kills and reaps the rest, and only then does pid 1
  become a zombie for its parent; no pid is handed out meanwhile;
- `wait` returns a dead child, blocks while there are only live ones, and fails
  with `ECHILD` when there is none.  A `wait` interrupted by a signal does not
  occur: no handler is installed, and SIGCHLD has its default disposition;
- the launcher itself is outside the namespace; when it dies the host's init
  reaps pid 1.

The set-up before the first fork is the one step `SetUp`; `Container` opens it.
A user's process does not unshare namespaces or become a subreaper itself.

### Supervisor
What a caller may rely on: a set `alive` that pid 1 enters first and leaves last,
and a call that returns when the set is empty.  `Doqueru` implements it under
the mapping `phase`, `alive`.  With `OtherChildren` the call may return
early: line 242 permits that, and the specification says so openly.

### RootSwitch
One system call per step for each launch of `Inst`; `Program` says which of the
programs it runs (`"pivot_root"` stands for `doqueru.cpp`,
`steps/pivot_root.cpp` and `steps/cgroup.cpp`, whose three functions are the
same text).  `view` is what the launch's
process has: namespaces, propagation, bind mount, root, working directory, the old
root's mount.  `oldroot` and `procdir` are on disk and shared.  A call fails when the
kernel's rules say so (`Works`, `CallFails`, status `lost`), for any other reason
(`Denied`), and a launch may be killed anywhere (`Kill`).  Rules of the kernel used:
mounts of the host propagate into a new mount namespace and back until
`MS_PRIVATE`; `pivot_root` needs a mount point, not shared, as working directory;
`rmdir` of a directory that is a mount point in *another* namespace succeeds and
detaches that mount (Linux 3.18 and later), in the caller's own it fails.

### Container
`Tree == INSTANCE Doqueru` and `Roots == INSTANCE RootSwitch` share a state; each
action is the conjunction of an action of either, or one of them alone.  The
calls of `unsharenamespaces` and `pivot_root_routine` are the launcher's, those of
`mount_proc` are init's; a call that fails ends the process that made it, a kill of
that process leaves the calls where they are.  `Other` is a second launch on
the same directory, of which nothing is assumed.

### Steps
`program` says which of `exec.cpp`, `defensive.cpp`, `uts.cpp` and
`doqueru-legacy.cpp` runs; `pc`, `parent` are the processes on the host.  The programs
differ in what a failed call does: `_assert` and `TRY` exit, `exec.cpp` looks at
nothing, so its child runs on into the parent's `wait` loop 16 and second `execvp` 19.
The legacy program waits once, 260, instead of in a loop.  `childns` is the pid
namespace that a process's children will be in: line 188 changes that, not the
caller's own.  The programs that are exec'ed behind line 188 find what
`NamespacesApart` says: their own name of the host, and a pid namespace for their
children into which only they have forked.  That this namespace ends with its first
process, whoever started that, is in the model (`Ends`) and no property. `SwitchRoot`
is the user namespace and the mounts of lines 194-251 in one step.  The kernel's rules
are those above, except that what dies with pid 1 of the legacy program's namespace
dies in one step.

### Config
One action per option of the loop 149-191, plus the missing value (the NULL at
the end of `argv`), the invalid option, and `Apply` for lines 193-218.  `strtoul`
is a constant function from words to numbers, `ULong` and `UChar` the ranges of
the C types, `Slots` the length of `configs`.  An access past its end is the
outcome `overrun`, where nothing more is promised.  `ChecksMemory` is the one
difference of `steps/cgroup.cpp`, which tests another variable at its line 183.
`ASSERT(quota_percent <= 100L)` at 88 always holds after 166 and has no step.

### Cgroup
One step per iteration of `cgroup`'s mkdir, of the pair of lines 105/106 and of
112/113.  The failures that the assertions let pass are steps of their own
(`WriteLimitFails`, `RegisterFails`), and so is the one that they do not: a `write()`
that returns 0, always that of an empty value (`WritesNothing`).  `NoStdout` are
launches for which 112 gets the descriptor 1 that it refuses.  `latest`, `overlapped`
and `unnoticed` are history variables of the properties.  Rules come from a constant,
so every list that `Config` can build is an instance.

### Debconf
`commands` and `answers` are the pipes, a line being its number, its kind and whether
the capb before it asked for escape; `pc` is the client's place in `command` or
`shutdown`, `server` that of the other end: debconf-communicate, a child, if
`communicator`, otherwise the frontend, the parent.  `setUp`, 51-58, is three
commands before the program has the object; what raises there is followed by
`__del__` only (`pc = "deleting"`).  `Interrupt` and `Retry` are the loop 69-77 on a
signal, `ReadFails` its `else: raise` and what a handler raises: the command ends,
its answer stays in the pipe for the next.  Where the two Pythons differ, `python`
says which one runs: a line that could not be written stays in the buffer of Python 3
(`unflushed`), so that `close()` raises again, and is dropped by the stdio of
Python 2; descriptors are inherited by programs that are executed in Python 2 only,
unless `cloexec` has set the flag, which it has not for a helper that another thread
forks while the constructor runs (`early`).  The text of the file is the same under
`python2.7/` and `python3/`.

The other end is Perl: `ServerReads`, `ServerAnswers` and `Answer` are
`communicate()`, `process_command()` and the commands of ConfModule.pm,
`ServerEof`, `ServerFinishes` and `ServerSaves` the ends of debconf-communicate and
frontend.  Values are sequences of backslash, "n" and newline.  If the last capb it
has seen asked for escape it answers with `escape(value)`, otherwise with the value as
it is, of which the pipe's line ends at the first newline (`FirstLine`); `unescape` is
lines 86-96.  After STOP it no longer dies of SIGPIPE (`sigpipe`).

Left out: a carriage return in a value, at which `universal_newlines` ends a line too;
`EINTR` is possible in either Python, although Python 3.5 and later retry by themselves.

### Listing, and the printers
`Listing` says what an iterator promises: stopped, it gives each element once, in
order, numbered, and then StopIteration.  Each of the following modules has the
memory of one kind of object, steps of the *program* that change it as the library
does (external), and the Python that reads it; `contents` is what the object
holds, by the program's own account.

- `Deque`: map, nodes and slots; the iterator crosses nodes at `last`, 616-632.
  The workers of xmethods 170-250 as they are, with the offset they forget.
- `Vector`: plain, and `vector<bool>` by word and bit, 229-268.
- `Nodes`: `list` as a ring, `forward_list` and `slist` as chains; an insertion or
  removal is two stores, and gdb may stop between them.
- `Hashtable`: of TR1 (buckets, with a mark behind the last) and of std (one
  chain), stopped before or after `_M_element_count` is updated; a rehash may leave
  the nodes of a bucket in any order.
- `Rbtree`: successors over any shape of tree, stopped before or after
  `_M_node_count` is updated.
- `Tuple`: the base classes of GCC 4 and of GCC 5, which the iterator takes apart.
- `SharedPtr`: `use_count` and `weak_count`, which are two fields and two steps.
- `Dispatch`: names with versioned, debug and ABI namespaces against the
  dictionary 1328-1466 and the matchers of xmethods; stack, queue, any and optional
  around other values; printers switched off.  `places(type)` is the set of classes
  that the dictionary has for a name.  An any has a state that the constructor cannot
  read: memory that is not initialized, or a manager or type that gdb does not know
  (`Unreadable`, 914-937).

**Where the program stops.**  Between the two stores that link a node of a list,
between the relinking of a tree or hash table and its count, and between the two
counters of a shared_ptr.  The other operations are single steps: those of deque and
vector, the linking of one node of a tree or table, a rehash and a rotation.  In the
middle of these there are states where a part of the object cannot be reached from
its root or first node, or the map of a deque disagrees with its ends; no iterator
over the memory alone could list it, and no property is claimed of those stops.

Here `/` divides integers, as it does in Python 2 and, in either Python, on gdb's
values; in a gdb with Python 3 the `512 / sizeof` of xmethods.py:168 would be no
integer, which is not modelled.
`MCPrinters` puts one object of a kind chosen by the initial state behind one set
of variables, and states the properties over all kinds.  The modules of the kinds are
instances with parameters (`Vec(bits, word, values, items)`, `Linked(ring)`,
`Table(tr1, map)`, `Tree(map)`), so that one proof serves the kinds that share a module.

## 3. Runs

| Run | Question | Bounds | States |
|---|---|---|---|
| `doqueru` | are exits clean, is init last, is everybody reaped, does it end, does it implement `Supervisor` | `MaxPid = 5`, one inherited child | 3,348 |
| `rootswitch` | what can racing launches do to each other, and any of them to the host | four launches: pid, mnt, two of the full program | 413,304 |
| `container` | do both fit together: does the composition implement either, and nothing run unconfined | `MaxPid = 3`, one inherited child, one other launch | 22,678 |
| `steps` | who waits for whom without an init, and in which namespace | `MaxPid = 4`, each of four programs | 5,121 |
| `config` | is every command line applied wholly or not at all, and with what rules | five arguments over 5 options and 6 words, 4 slots | 392,328 |
| `cgroup` | does the last launch have its limits | launches with 3, 2 and 1 rules, one of these empty, one launch without stdout | 802,872 |
| `printers` | is what is announced, listed and returned what is there | 12 kinds of object, 3 or 4 nodes each | 86,220 |
| `debconf` | does each command get its answer, do conversations end | five lines, values of two characters | 524,103 |
| `config_percent`, `config_quota`, `cgroup_registered`, `deque_at` | statements of the repository that the code does not keep | | violated |

**Why the bounds are enough.**  Five pids give the program, a child, a grandchild and
another one: a chain of orphans two deep next to a sibling, adopted and reaped in
every order.  Pids are not reused, so `MaxPid` bounds the forks of one run; in
`container` the tree needs only init, the program and an orphan, since the bigger
trees are those of `doqueru`.  In `steps` four processes are launcher, child, first
process of the new namespace and one that it forks.  Two launches make the race for
`oldroot`; the others can arrive when the first has removed what the second uses. Five
arguments are two options with values and a stray one, or an option given twice; with
four slots of which three are the cpu rules, the array overruns at the second
`--memlimit` as it does in the code at the eighteenth.  The type ranges are `ULong =
2^24` and `UChar = 2^7`, because TLC calculates in 32 bits; 256 is 0 modulo either
`UChar`, and 2^24 - 1 plays the largest `unsigned long`; 2 and 50 are numbers of
processors that do not wrap, and 2, 50 and 200 percentages and periods. Five debconf
lines are the three of `setUp`, a command and one more, or a command that is two
lines; two characters are every pair of what is escaped and what can follow a
backslash; `title` and `cloexec` are both given, without `cloexec` nothing is promised
of the helpers of Python 2.  A deque has two elements to a node and three nodes, so
that it wraps at either end; `vector<bool>` has words of three bits and two words;
trees of four nodes have every shape in which a successor is up, down or the header.

Runs say `CHECK_DEADLOCK FALSE` because the programs really stop: launches
return, `config` ends, the debconf client ends.  Blocking that should not be is
found by the liveness properties.  `printers` never stops and is checked for
deadlock.

**Fairness.**

- `Doqueru`: weak fairness of the launcher's and of init's next step, of the
  exec of each forked child, and of the kernel's part.  These are processes that
  are ready to run, and the scheduler runs them; a blocked `wait` is not enabled.
  Nothing is assumed of the user's program, of signals or of inherited children:
  `ContainerEnds` carries the premise `UserTerminates`, that each process the program
  forks ends, and `ZombiesReaped` has no premise at all.
- `Container`: the same, of the same processes; the other launch has none.  That
  `ImplementsDoqueru` includes the fairness of `Doqueru` shows that a step of the
  set-up there is many here and still ends.
- `Steps`: the programs' own code and the host's reaper; `UserTerminates` again.
- `MCPrinters`: `Called`, gdb's calls of `__next__`, weakly: it asks until
  StopIteration, or the user lets the program run and ends the listing.
- `Debconf`: weak for both ends and for a forked helper's exec; strong for reading,
  because a signal may hit `readline()` again and again but not every time.  When the
  program sends, stops or ends, and when its helper ends, is nobody's promise.

## 4. Proofs

Eight modules hold machine-checked proofs for every value of the constants that
satisfies the named assumptions (`MaxPidAssumption`, `ProgramAssumption`,
`ConfigAssumption`, `CgroupAssumption`, `ContainerAssumption`, `DebconfAssumption`,
`DequeAssumption`, `PrintersAssumption`).  Each safety invariant that a passing run
checks is stated by one of their theorems.

**DoqueruProofs**: `TypeCorrect`, `NobodyIsOrphaned`, `ExitIsClean`, `InitIsLast`,
`ImplementsSupervisor`.  The point to prove is that one `ECHILD` in init is enough:
`wait` tells of its own children only, not of its descendants.  `InitLeavesLast` is
not inductive; `IInv` adds `NobodyOrphaned` (parents have smaller pids and are
running, or are init), `FreshPids` and `StagesAgree`.  Given a member of the namespace and
no child of init, the member with the least pid would need a parent that is less
still (`AloneIfChildless`, by well-foundedness of < on Nat).  The refinement uses
`IInv` in both states of a step.

**RootSwitchProofs**: `TypeCorrect`, `HostIsUntouched`, `InitIsConfined`,
`LosersLoseToOthers`, `LeftoversAreOfCrashes`, `UpIsUndisturbed`, for any number of
launches and any mix of programs.  `IInv` adds what the calls behind a launch have
done (`InOrder`), that a launch nobody disturbed still has its `oldroot`
(`HasItsOldRoot`), and that an `oldroot` on disk has a holder (`Holds`).  Most steps
are own steps of one launch (`OwnStep`), for which the other launches' parts
are free; only `RemoveOldRoot` reaches into others.

**ContainerProofs**: `MakesTheCalls` (the refinement of `RootSwitch`),
`IsAProcessTree` (the safety part of that of `Doqueru`) and `NothingRunsUnconfined`.
Both parts' proofs are instantiated: a step of the composition is a step of a part or
leaves it alone, so both inductive invariants hold of it as they stand.  What they do
not know is `Together`: at which call the launch is while init is at its own,
and that it is up when init is past them.  From that and `Confined` follows what
the user's program finds.

**StepsProofs**: `TypeCorrect`, `OneRunsOn`, `LauncherIsLast`, `SeparateIsSeparate`,
for any number of processes.  `ParentLast` needs that a launcher that gets `ECHILD` has
no child (`Family`: while it waits, the children that are its own are that one
child), and which process is where in the code (`InCode`).  `NamespacesApart` needs at
which call of `uts.cpp` and of the legacy program a process has which namespaces
(`Named`), and whom it can have forked into them (`Spaces`).

**ConfigProofs**: `TypeCorrect`, `ConfigIsAllOrNothing`, `LastOneWins` and
`SlotsAreEnough` (for command lines of any length) and `CpuIsInBounds` (the
arithmetic for all integers that do not wrap: quota and period grant no more than
`--cpus` processors and, for a period that 100 divides, no less than `--percent` of
them; that they grant all of them is finding 1).  `IInv` says that the turns behind the
index were valid, and that a run that ended has somebody to blame; `Settled` that each
setting is the last of the turns behind the index, and `Counted` that the n-th
`--memlimit` is in slot n, from which the cardinality of the turns that give
`--memlimit` bounds the slots used.

**CgroupProofs**: `TypeCorrect` and `LimitsAreInForce`, for any launches and lists of
rules.  The invariant is that the rules which the last launch has behind it are in force
(`InForce`), that whoever is still at work beside it has been noted as overlapping it
(`Alone`), and that a launch that is done is at its last rule (`AtLastRule`).

**DebconfProofs**: `TypeCorrect`, `OwnAnswers`, `ValuesReturned`, `ChildReaped`, and
`RoundTrip`: any text of backslashes, "n" and newlines, of any length, comes back from
`escape` and `unescape` as it was.  Both are recursive functions; that they exist and
what they give at each place of the text is shown by induction over the places
(`Induction`, `Descent`: a set of numbers without a least element outside it).
`AnswersAreOwn` is about what has been read, so `IInv` says what is on its way: the
numbers of the lines in both pipes follow one another (`Order`), as many of them are
pending as newlines, stops and unread answers account for (`Pending`), and the command
that waits is the last of them (`Owned`, `Quiet`).  `ValuesComeBack` needs that the
other end has the capb of the line it works on (`Turns`, `Works`, `Says`), and
`ChildIsReaped` who can be dead and why (`ServerServes`, `ServerEnds`, `Closings`,
`Stopping`).

**PrinterProofs**: `AnyTyped`, `XMethodsAgree`, `Announced`, `NestedShow`,
`NestedAreShown`, `FormsAreShown`, and the refinement of `Listing` (`ListsInOrder`),
for all twelve kinds of object, any elements, addresses, keys, nodes and handles, and
containers of any history.  `AnyInductive` is the invariant of them all, one part for
each kind.  What it says beyond the types is how the library keeps the memory that the
Python reads:

- *deque, vectors* (`DequeRow`, `VectorRow`): the i-th element is in the slot whose number
  is the first's plus i; a slot's number is node times size plus offset, so the
  crossing of a node or a word is division with rest (`Division`, `Places`);
- *lists* (`Leads`, `BackLeads`): the links lead from each place of `order` to
  the next, but for the one link that a half done insertion or removal has not
  stored yet;
- *hash tables* (`HashRow`): the chains hold different keys, each in the bucket of its hash;
  pointers and marks are those of the chains; the contents are the chains joined
  (`JoinedIs`, `JoinedOffsets`), so that the next full bucket begins where the
  chain ends (`HashSeeks`, `HashAdvances`).  Insertion, removal and rehashing keep it, and
  the number stored is off by the one node that is not counted yet (`HashCounts`);
- *trees* (`IsTree`, `IsRow`): each node has a place `at` in the order, and the nodes below
  it are the places from `lo` to `hi`; a child's span ends where its parent begins.
  `GetFirst` and `successor` then find the next place, by descent or by climbing out of
  spans (`LeftmostIs`, `ClimbIs`); a new leaf, a removed one and a rotation are new spans
  of the same order (`TreeGrows`, `TreeShrinks`, `TreeTurns`).  `TreeCounts` is the one
  node by which `_M_node_count` may be wrong;
- *tuples*: the level of the tower is the number of the element (`TupleLevel`);
- *pointers*: the counters are the cardinalities of the sets of owners and observers;
- *look-up*: values are sequences of layers with known names.

To each belongs where the iterator stands: what is listed is the contents up to it.
`Element` of `Listing` follows from the place it moves to, and StopIteration from
there being no further place.  `XMethodsAgree` leaves out what finding 4 is about:
size() and the indices of a deque whose first element is not the first of its node.
`NestedShow` is about every value, of any number of layers of any types, and goes over
them from the inside (the recursive functions `visualizer`, `to_string`, `children`,
`display_hint` exist and satisfy their equations for any number of layers);
`NestedAreShown` is the same of the run's values.  `FormsAreShown` goes over the rows
of the dictionary (`OnePrinter`, `Known`, `Unknown`): for the names in `Names`, of
which the two of std::__cxx11::list have no printer at all, and that is all it says of
them.  Not parameters of these proofs but numbers of `MCPrinters` are: three buckets,
words of 64 and three bits, at most four and two items of storage, tuples of up to
four, and the names and layers of the values looked up.  The lemmas on vectors, lists
and trees are stated without such numbers.

**Only model-checked.**  Everything under fairness (`ContainerEnds`,
`ZombiesReaped`, `AllReaped`, `CommandsReturn`, `ConversationsEnd`, `ListingEnds`, and that
`Container` inherits the fairness of `Doqueru`): fairness and `ENABLED` are out of the
prover's reach.  Induction over data is done through induction over numbers, places
in a sequence or a span, because the library's general theorems take an operator as
a parameter.  No module with theorems uses RECURSIVE operators.

## 5. Findings

1. **--percent has no effect** (`config_percent`): line 203 scales the period
   and line 211 the quota, and the kernel enforces their quotient, which is all that
   `--cpus` grants.  README.md:55 defines the option as a percentage.
2. **--cpus 256 means none** (`config_quota`): asserted positive as `unsigned long` at
   172, truncated to `unsigned char` at 87.
3. **Unnoticed failures** (`cgroup_registered`): 112 and 113 compare with 1 and 0,
   system calls fail with -1.
4. **at() of a deque** (`deque_at`): size() at xmethods.py:175 and the index at 179
   count from the start of the first node and not from the first element, so that
   after a `push_front()` or `pop_front()` the bound that 248 reports is not the size.

Seen, and not a run: `README.md`:45 documents options that `main` does not read.

## 6. Not modelled, and why

- The stops inside an operation of a container that section 2 names.
- Output (messages, the order of `printf` and `errno` at 47) and the text of paths
  and numbers.  The exit status: `main` drops it.  Devices, cgroup v2, systemd's
  own mounts: not in the code.
- `steps/fork.cpp`, `steps/tests.cpp`, `hello_worldo.cpp`: two processes that
  sleep, and programs that print; there is no state to go wrong.
- The functions of `doqueru-legacy.cpp` that its `main` does not call, and its
  mounts call by call: `RootSwitch` has those of `doqueru.cpp`, which replaced them.
- The printers of bitset, strings, paths and iterators, each one formatted value
  read in one step, and the type printers (printers.py:1121-1326), which rewrite
  names by regular expressions; the workers of array and unique_ptr, each one member
  access.
- The loading of the printers into gdb, the apport hooks: path prefixes, and
  straight calls of libraries that are not in the repository.
- The rest of the image: binaries and package data.

## 7. Order of work and what is left

The modules were written in this order: `Doqueru`, `Supervisor`, `RootSwitch`,
`Config`, `Cgroup`, `Container`, `Steps`, the printers, `Debconf`; the proofs after the
runs of their module, `DebconfProofs` and `PrinterProofs` last.  What would be next:

1. the number of buckets of a table and the size of a tuple as parameters of
   `AnyInductive`: the lemmas on joined chains are stated for any number already;
2. the mounts of `doqueru-legacy.cpp` call by call, as a fifth program of `RootSwitch`;
3. the printers of paths and of the iterators, which format a single value.

----------------------------- MODULE SharedPtr -----------------------------
(***************************************************************************)
(* SharedPointerPrinter of libstdcxx/v6/printers.py, which shows the       *)
(* owners of an object from the two counters of its control block.  The    *)
(* counters are those of the library: _M_use_count counts the shared_ptrs, *)
(* _M_weak_count the weak_ptrs and one more for all shared_ptrs together.  *)
(* The threads of the program change them one at a time, and the program   *)
(* can be stopped after each step.                                         *)
(***************************************************************************)
EXTENDS Integers, FiniteSets

CONSTANT Handles   \* the variables of type shared_ptr and weak_ptr

VARIABLES kind,    \* what each handle is: "empty", "shared", "weak", or a
                   \* "disposing" shared_ptr that was the last one
          block,   \* whether the control block is allocated
          use, weak   \* _M_use_count, _M_weak_count

vars == <<kind, block, use, weak>>

Of(k) == {h \in Handles : kind[h] = k}

Init == /\ kind = [h \in Handles |-> "empty"]
        /\ block = FALSE
        /\ use = 0
        /\ weak = 0
-----------------------------------------------------------------------------
\* The program's side (bits/shared_ptr_base.h).

Make(h) == /\ kind[h] = "empty"
           /\ ~block
           /\ kind' = [kind EXCEPT ![h] = "shared"]
           /\ block' = TRUE
           /\ use' = 1
           /\ weak' = 1

Copy(h, g) == /\ kind[h] = "empty"
              /\ kind[g] = "shared"
              /\ kind' = [kind EXCEPT ![h] = "shared"]
              /\ use' = use + 1
              /\ UNCHANGED <<block, weak>>

Observe(h, g) == /\ kind[h] = "empty"
                 /\ kind[g] \in {"shared", "weak"}
                 /\ kind' = [kind EXCEPT ![h] = "weak"]
                 /\ weak' = weak + 1
                 /\ UNCHANGED <<block, use>>

Lock(h, g) == /\ kind[h] = "empty"
              /\ kind[g] = "weak"
              /\ use # 0
              /\ kind' = [kind EXCEPT ![h] = "shared"]
              /\ use' = use + 1
              /\ UNCHANGED <<block, weak>>

ReleaseShared(h) ==
    /\ kind[h] = "shared"
    /\ use' = use - 1
    /\ kind' = [kind EXCEPT ![h] = IF use = 1 THEN "disposing" ELSE "empty"]
    /\ UNCHANGED <<block, weak>>

\* The weak count loses h: a weak_ptr, or the last shared_ptr, whose object
\* has been destroyed.
ReleaseWeak(h) ==
    /\ kind[h] \in {"weak", "disposing"}
    /\ weak' = weak - 1
    /\ block' = (weak # 1)
    /\ kind' = [kind EXCEPT ![h] = "empty"]
    /\ UNCHANGED use

Next == \E h \in Handles :
           \/ Make(h)
           \/ \E g \in Handles : Copy(h, g) \/ Observe(h, g) \/ Lock(h, g)
           \/ ReleaseShared(h)
           \/ ReleaseWeak(h)

Spec == Init /\ [][Next]_vars
-----------------------------------------------------------------------------
\* The state in what to_string shows.  A handle that is not empty points to
\* the block.
to_string(h) ==
    IF kind[h] = "empty" THEN [state |-> "empty"]
    ELSE IF use = 0 THEN [state |-> "expired", weak |-> weak]
    ELSE [state |-> "count", count |-> use, weak |-> weak - 1]
-----------------------------------------------------------------------------
TypeOK == /\ kind \in [Handles -> {"empty", "shared", "weak", "disposing"}]
          /\ block \in BOOLEAN
          /\ use \in Nat
          /\ weak \in Nat

Owners == Cardinality(Of("shared"))
Observers == Cardinality(Of("weak"))
Leaving == Cardinality(Of("disposing"))

\* What is shown of a shared_ptr is how many shared_ptrs and weak_ptrs there
\* are, wherever the threads have been stopped (printers.py:114-119).
ShowsOwners ==
    \A h \in Of("shared") :
        to_string(h) = [state |-> "count", count |-> Owners,
                        weak |-> Observers]

\* A weak_ptr is shown as expired exactly when no shared_ptr is left, and with
\* the number of weak_ptrs; one too many if the last owner is just leaving.
ShowsObservers ==
    \A h \in Of("weak") :
        to_string(h) = IF Owners = 0
                       THEN [state |-> "expired", weak |-> Observers + Leaving]
                       ELSE [state |-> "count", count |-> Owners,
                             weak |-> Observers]

\* The inductive invariant: what the counters count.
CountersCount ==
    /\ use = Owners
    /\ weak = Observers + (IF Owners # 0 \/ Leaving # 0 THEN 1 ELSE 0)
    /\ block <=> weak # 0
    /\ Leaving # 0 => Owners = 0 /\ Leaving = 1
IInv == TypeOK /\ CountersCount
=============================================================================

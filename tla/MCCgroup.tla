------------------------------ MODULE MCCgroup ------------------------------
(* An instance of Cgroup for TLC: a gives --memlimit twice, b once, c an    *)
(* empty one; each of them asks for another quota.                         *)
EXTENDS Cgroup

CONSTANTS a, b, c

MCLaunch == {a, b, c}

R(ctl, nam, val) == [controller |-> ctl, name |-> nam, value |-> val]

MCRules == [l \in MCLaunch |->
  CASE l = a -> << R("memory", "limit", "1M"), R("memory", "limit", "2M"),
                   R("cpu", "quota", "Q1") >>
    [] l = b -> << R("memory", "limit", "3M"), R("cpu", "quota", "Q2") >>
    [] l = c -> << R("memory", "limit", ""), R("cpu", "quota", "Q3") >>]
=============================================================================

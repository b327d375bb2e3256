------------------------------ MODULE MCConfig ------------------------------
(* Instances of Config for TLC. *)
EXTENDS Config, TLC

\* Text, a few processors, a percentage, a period that 100 divides, a number
\* that is 0 modulo UChar, and the largest unsigned long (what strtoul() makes
\* of "-1").
MCWords   == {"text", "2", "50", "200", "256", "-1"}
MCstrtoul == "text" :> 0 @@ "2" :> 2 @@ "50" :> 50 @@ "200" :> 200
               @@ "256" :> 256 @@ "-1" :> ULong - 1
=============================================================================

--------------------------- MODULE MCSpaceKeeper ---------------------------
(* Instances of SpaceKeeper for TLC. *)
EXTENDS SpaceKeeper

CONSTANTS s1, s2, c1, c2

(* s1 has the smaller ordinal: it is plotted first. *)
MCPriority == [s \in {s1, s2} |-> IF s = s1 THEN 2 ELSE 1]

(* One thread makes every call there is; two threads race. *)
Sequential == [ops |-> Ops, by |-> {c1}, left |-> 3, fails |-> TRUE]
Racing == [ops |-> {"mine", "stop", "delete", "start"}, by |-> {c1, c2}, left |-> 4, fails |-> TRUE]
Safety == {Sequential, Racing}

(* Two threads mine and stop spaces and the service; no plot fails. *)
Liveness == {[ops |-> {"mine", "stop", "start", "halt"}, by |-> {c1, c2}, left |-> 3, fails |-> FALSE]}
=============================================================================

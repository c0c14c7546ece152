------------------------------ MODULE Loggers ------------------------------
(***************************************************************************)
(* What pkg/logging promises about the loggers a service derives from one  *)
(* another (slog's With and WithGroup), whoever derives and writes when.   *)
(*                                                                         *)
(* A logger is the chain of operations it was derived by, its own for      *)
(* good.  A record carries each set of attributes under the groups opened  *)
(* before it, and the trace of its context at the top, outside any group.  *)
(***************************************************************************)
EXTENDS Sequences, Naturals

CONSTANTS Ids,      \* names of loggers
          Attrs,    \* sets of attributes a logger may be derived with
          Groups,   \* groups it may open
          Empty,    \* a derivation without attributes, or with the name ""
          Traces,   \* trace ids
          Nothing   \* no logger, no record, no trace

VARIABLES chain,    \* the operations of each logger, or Nothing
          record    \* what the latest step wrote, or Nothing

\* The groups open after the first n operations, by their place in the chain.
Opened(ops, n) == [k \in {j \in 1 .. n : ops[j] \in Groups} |-> ops[k]]

\* Where the attributes of the chain, and those of the record itself, end up.
Placed(ops) == {<<Opened(ops, n), ops[n]>> : n \in {k \in DOMAIN ops : ops[k] \in Attrs}}
Innermost(ops) == Opened(ops, Len(ops))

Record(ops, t) == [trace |-> IF t = Nothing THEN Nothing ELSE <<t, << >> >>,
                   attrs |-> Placed(ops), own |-> Innermost(ops)]

Init == /\ \E root \in Ids : chain = [l \in Ids |-> IF l = root THEN << >> ELSE Nothing]
        /\ record = Nothing

Derive(l, child, o) ==
  /\ chain[l] # Nothing /\ chain[child] = Nothing
  /\ chain' = [chain EXCEPT ![child] = IF o = Empty THEN chain[l] ELSE Append(chain[l], o)]
  /\ record' = Nothing

Write(l, t) == /\ chain[l] # Nothing
               /\ record' = Record(chain[l], t)
               /\ UNCHANGED chain

\* Something else happens.
Elsewhere == record' = Nothing /\ UNCHANGED chain

Next == \/ Elsewhere
        \/ \E l, child \in Ids, o \in Attrs \cup Groups \cup {Empty} : Derive(l, child, o)
        \/ \E l \in Ids, t \in Traces \cup {Nothing} : Write(l, t)

Spec == Init /\ [][Next]_<<chain, record>>
=============================================================================

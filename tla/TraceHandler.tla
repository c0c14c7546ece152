---------------------------- MODULE TraceHandler ----------------------------
(***************************************************************************)
(* pkg/logging: traceHandler, the slog handler that puts trace_id at the   *)
(* top of every record.                                                    *)
(*                                                                         *)
(* It keeps its chain twice: built into the slog handler (the fast way, of *)
(* use while no group is open) and as a slice of operations to be replayed *)
(* over the handler's base.  The slice is a Go slice: handlers derived     *)
(* from one another point into arrays, and append may write in place.      *)
(***************************************************************************)
EXTENDS Sequences, Naturals

CONSTANTS Ids, Attrs, Groups, Empty, Traces, Nothing,   \* see Loggers
          Root,      \* the logger logging.New returns
          MaxSpare   \* bound on the spare capacity growslice gives

ASSUME IdsAssumption == Root \in Ids
ASSUME OpsAssumption == /\ Attrs \cap Groups = {} /\ Empty \notin Attrs \cup Groups
                        /\ Nothing \notin Attrs \cup Groups \cup Traces
ASSUME SpareAssumption == MaxSpare \in Nat

Ops == Attrs \cup Groups

\* A slice of operations: an array of the heap, a length and a capacity.
Slice == [array : Nat, len : Nat, cap : Nat]
HandlerType == [eager : Seq(Ops), ops : Slice, inGroup : BOOLEAN]

ASSUME NothingAssumption == Nothing \notin HandlerType /\ Nothing \notin Seq(Ops)

VARIABLES
  heap,      \* arrays of operations; unused elements hold Nothing
  handler,   \* the traceHandler of each logger, or Nothing
  record     \* what the latest step wrote, or Nothing

logVars == <<heap, handler, record>>

-----------------------------------------------------------------------------
(* Go slices.  The nil slice has array 0. *)

NilSlice == [array |-> 0, len |-> 0, cap |-> 0]

Contents(s) == IF s.array = 0 THEN << >> ELSE SubSeq(heap[s.array], 1, s.len)

\* Mutant: append without slices.Clip.
Unclipped(s) == s

Clip(s) == [s EXCEPT !.cap = s.len]

\* What append(s, o) may do: write in place while there is room, else move to a
\* new array with room to spare.
Appended(s, o) ==
  IF s.len < s.cap
  THEN {[heap |-> [heap EXCEPT ![s.array][s.len + 1] = o],
         slice |-> [s EXCEPT !.len = @ + 1]]}
  ELSE {[heap |-> Append(heap, Contents(s) \o <<o>> \o [k \in 1 .. spare |-> Nothing]),
         slice |-> [array |-> Len(heap) + 1, len |-> s.len + 1, cap |-> s.len + 1 + spare]]
          : spare \in 0 .. MaxSpare}

-----------------------------------------------------------------------------
(* The handler. *)

newTraceHandler == [eager |-> << >>, ops |-> NilSlice, inGroup |-> FALSE]

LogInit == /\ heap = << >>
           /\ handler = [l \in Ids |-> IF l = Root THEN newTraceHandler ELSE Nothing]
           /\ record = Nothing

\* WithAttrs, WithGroup.  With nothing to add they return the handler itself.
Derive(l, child, o) ==
  /\ handler[l] # Nothing /\ handler[child] = Nothing
  /\ LET h == handler[l] IN
     IF o = Empty
     THEN handler' = [handler EXCEPT ![child] = h] /\ UNCHANGED heap
     ELSE \E a \in Appended(Clip(h.ops), o) :
            /\ heap' = a.heap
            /\ handler' = [handler EXCEPT ![child] =
                 [eager |-> Append(h.eager, o), ops |-> a.slice,
                  inGroup |-> h.inGroup \/ o \in Groups]]
  /\ record' = Nothing

\* slog's own handlers: attributes go under the groups opened before them.
Opened(ops, n) == [k \in {j \in 1 .. n : ops[j] \in Groups} |-> ops[k]]
Written(t, ops) ==
  [trace |-> t, own |-> Opened(ops, Len(ops)),
   attrs |-> {<<Opened(ops, n), ops[n]>> : n \in {k \in DOMAIN ops : ops[k] \in Attrs}}]

\* Mutant: the trace is added to the record also when a group is open.
HandleFast(l, t) ==
  LET h == handler[l]
  IN /\ h # Nothing
     /\ record' = IF t = Nothing THEN Written(Nothing, h.eager)
                  ELSE Written(<<t, Opened(h.eager, Len(h.eager))>>, h.eager)
     /\ UNCHANGED <<heap, handler>>

\* Handle: without a trace as it is; without a group the trace joins the
\* attributes of the record; else it goes on the base and the operations are
\* replayed over it.
Handle(l, t) ==
  LET h == handler[l]
  IN /\ h # Nothing
     /\ record' = IF t = Nothing THEN Written(Nothing, h.eager)
                  ELSE IF ~h.inGroup THEN Written(<<t, Opened(h.eager, Len(h.eager))>>, h.eager)
                  ELSE Written(<<t, << >> >>, Contents(h.ops))
     /\ UNCHANGED <<heap, handler>>

\* A step that has nothing to do with loggers.
Quiet == record' = Nothing /\ UNCHANGED <<heap, handler>>

\* The loggers as Loggers sees them.
chain == [l \in Ids |-> IF handler[l] = Nothing THEN Nothing ELSE Contents(handler[l].ops)]

Promised == INSTANCE Loggers WITH chain <- chain, record <- record

\* Every logger keeps the chain it was derived by, and every record shows it with
\* the trace at the top: loggers that come from one parent do not write into
\* each other's array, a group never swallows the trace, and the two ways a
\* record can take (the eager handler, the replay) put everything in one place.
ImplementsLoggers == Promised!Spec
=============================================================================

----------------------------- MODULE Lifecycle -----------------------------
(***************************************************************************)
(* What a service built on the scratch library promises about the calls it *)
(* has accepted, with no mention of servers, goroutines or ports.          *)
(*                                                                         *)
(* A service takes calls until it exits.  Once it has been told to stop it *)
(* drains; it may only give a call up after the grace period has run out   *)
(* or a part of it has broken, and it may only exit when it holds no       *)
(* unfinished call or the grace period has run out.                        *)
(***************************************************************************)
CONSTANT Calls

VARIABLES phase,    \* "up", "draining", "overdue" or "down"
          broken,   \* a part of the service has failed
          work      \* what became of each call

vars == <<phase, broken, work>>

Running == {c \in Calls : work[c] = "running"}

Init == /\ phase = "up"
        /\ broken = FALSE
        /\ work = [c \in Calls |-> "new"]

Begin(c) == /\ phase # "down"
            /\ work[c] = "new"
            /\ work' = [work EXCEPT ![c] = "running"]
            /\ UNCHANGED <<phase, broken>>

Finish(c) == /\ work[c] = "running"
             /\ work' = [work EXCEPT ![c] = "answered"]
             /\ UNCHANGED <<phase, broken>>

\* The caller gives up waiting.  Its handler may go on.
Leave(c) == /\ work[c] = "running"
            /\ work' = [work EXCEPT ![c] = "left"]
            /\ UNCHANGED <<phase, broken>>

Break == /\ phase # "down"
         /\ broken' = TRUE
         /\ UNCHANGED <<phase, work>>

Drain == /\ phase = "up"
         /\ phase' = "draining"
         /\ UNCHANGED <<broken, work>>

RunOut == /\ phase = "draining"
          /\ phase' = "overdue"
          /\ UNCHANGED <<broken, work>>

\* Some of the unfinished calls are given up.
GiveUp == /\ phase = "overdue" \/ broken
          /\ \E lost \in SUBSET Running :
               work' = [c \in Calls |-> IF c \in lost THEN "lost" ELSE work[c]]
          /\ UNCHANGED <<phase, broken>>

\* Run returns: whatever is still unfinished is lost with the process.
Exit == /\ phase \in {"up", "draining", "overdue"}
        /\ Running = {} \/ phase = "overdue"
        /\ phase' = "down"
        /\ work' = [c \in Calls |-> IF c \in Running THEN "lost" ELSE work[c]]
        /\ UNCHANGED broken

Next == \/ \E c \in Calls : Begin(c) \/ Finish(c) \/ Leave(c)
        \/ Break \/ Drain \/ RunOut \/ GiveUp \/ Exit

Spec == Init /\ [][Next]_vars
=============================================================================

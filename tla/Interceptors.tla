---------------------------- MODULE Interceptors ----------------------------
(***************************************************************************)
(* A gRPC call on its way through the service: the interceptors App.Run    *)
(* puts in front of every handler (pkg/grpcmw: Recovery, then Logging, in  *)
(* a unary and a stream form), a handler that returns, fails or panics,    *)
(* and the loggers handlers derive and write to meanwhile (TraceHandler).  *)
(*                                                                         *)
(* Calls run concurrently and share the loggers; the client may go away    *)
(* before the answer.  grpc-go is external: it runs the chain in a         *)
(* goroutine of its own, and a panic that leaves it ends the process.      *)
(* Interceptors a service adds come last and count as part of the handler. *)
(***************************************************************************)
EXTENDS TraceHandler

CONSTANTS Calls,
          Stream,    \* calls of streaming methods
          Owner,     \* whose each logger is: a call, or Service
          Service,   \* the service itself, at start-up and in the background
          TraceOf,   \* the trace in the context of a call, or Nothing
          Spellings  \* of LOG_LEVEL

ASSUME CallsAssumption == /\ Stream \subseteq Calls /\ Service \notin Calls
                          /\ Owner \in [Ids -> Calls \cup {Service}]
                          /\ Owner[Root] = Service
                          /\ TraceOf \in [Calls -> Traces \cup {Nothing}]

VARIABLES
  level,     \* the configured log level
  at,        \* where a call is: "new", "handler", "leaving", "answered"
  depth,     \* how many interceptors it still has around it
  result,    \* how it came out of what they surround
  status,    \* what the client was told
  verdicts,  \* what Recovery and Logging wrote about it
  crashed    \* a panic has ended the process

callVars == <<at, depth, result, status, verdicts>>
vars == <<logVars, level, callVars, crashed>>

\* What may come out of a handler: an answer, an error with a status, a bare error
\* of its context, an error whose own methods panic (a nil pointer in an error
\* interface), or a panic.
Outcomes == {"ok", "failed", "ctxError", "badError", "panic"}

\* Mutant: the error is logged as it is.
LoggedRaw(r) == r

\* status.Code, as Logging calls it, knows statuses only.
LoggedCode(r) == IF r = "ctxError" THEN "unknown" ELSE r

\* grpc-go recognises the errors of a context (status.FromContextError).
SentCode(r) == IF r = "ctxError" THEN "deadline" ELSE r

\* Mutant: the stream form has no Recovery.
StreamUnguarded(c) == IF c \in Stream THEN <<"Logging">> ELSE <<"Recovery", "Logging">>

\* Mutant: Logging comes first.
LoggingFirst(c) == <<"Logging", "Recovery">>

\* Run's lists unary and stream, outermost first.
Chain(c) == <<"Recovery", "Logging">>

\* pkg/logging, parseLevel, of a lower-case name; "info" is the default.
parseLevel(s) == IF s = "debug" THEN "debug"
                 ELSE IF s \in {"warn", "warning"} THEN "warn"
                 ELSE IF s = "error" THEN "error"
                 ELSE "info"
InfoShown == level \in {"debug", "info"}

Init ==
  /\ LogInit
  /\ \E s \in Spellings : level = parseLevel(s)
  /\ at = [c \in Calls |-> "new"]
  /\ depth = [c \in Calls |-> 0]
  /\ result = [c \in Calls |-> Nothing]
  /\ status = [c \in Calls |-> Nothing]
  /\ verdicts = [c \in Calls |-> << >>]
  /\ crashed = FALSE

-----------------------------------------------------------------------------
(* The service and its handlers use the loggers.  A call knows the service's *)
(* and those it has derived itself.                                           *)

Known(w) == {l \in Ids : Owner[l] \in {w, Service}}

Derives(w) ==
  /\ w \in Calls => at[w] = "handler"
  /\ \E l \in Known(w), child \in Ids, o \in Ops \cup {Empty} :
       Owner[child] = w /\ Derive(l, child, o)
  /\ UNCHANGED <<level, callVars, crashed>>

Logs(c) ==
  /\ at[c] = "handler"
  /\ \E l \in Known(c) : Handle(l, TraceOf[c])
  /\ UNCHANGED <<level, callVars, crashed>>

-----------------------------------------------------------------------------
(* The call. *)

Arrive(c) ==
  /\ at[c] = "new"
  /\ at' = [at EXCEPT ![c] = "handler"]
  /\ depth' = [depth EXCEPT ![c] = Len(Chain(c))]
  /\ Quiet
  /\ UNCHANGED <<level, result, status, verdicts, crashed>>

HandlerEnds(c) ==
  /\ at[c] = "handler"
  /\ at' = [at EXCEPT ![c] = "leaving"]
  /\ \E r \in Outcomes : result' = [result EXCEPT ![c] = r]
  /\ Quiet
  /\ UNCHANGED <<level, depth, status, verdicts, crashed>>

\* An interceptor writes through the logger App.New was given.
Says(c, by, code) ==
  /\ Handle(Root, TraceOf[c])
  /\ verdicts' = [verdicts EXCEPT ![c] = Append(@, [by |-> by, code |-> code,
                                                   trace |-> record'.trace])]

Within(c, interceptor) ==
  /\ at[c] = "leaving" /\ depth[c] > 0 /\ Chain(c)[depth[c]] = interceptor
  /\ depth' = [depth EXCEPT ![c] = @ - 1]
  /\ UNCHANGED <<level, at, status, crashed>>

\* Logging, LoggingStream: a panic passes them by, and asking a broken error for
\* its code or text is one.
Logging(c) ==
  /\ Within(c, "Logging")
  /\ \/ /\ result[c] \in {"panic", "badError"}
        /\ result' = [result EXCEPT ![c] = "panic"]
        /\ Quiet /\ UNCHANGED verdicts
     \/ /\ result[c] \notin {"panic", "badError"}
        /\ IF result[c] # "ok" \/ InfoShown
           THEN Says(c, IF c \in Stream THEN "grpc stream" ELSE "grpc call",
                     LoggedCode(result[c]))
           ELSE Quiet /\ UNCHANGED verdicts
        /\ UNCHANGED result

\* Recovery, RecoveryStream: the deferred function.
Recovery(c) ==
  /\ Within(c, "Recovery")
  /\ \/ /\ result[c] = "panic"
        /\ Says(c, "panic recovered", "internal")
        /\ result' = [result EXCEPT ![c] = "internal"]
     \/ /\ result[c] # "panic"
        /\ Quiet /\ UNCHANGED <<verdicts, result>>

\* Out of the chain: grpc-go sends the status, to a client that may have cancelled
\* the call in the meantime, or the runtime ends the process.
Reply(c) ==
  /\ at[c] = "leaving" /\ depth[c] = 0
  /\ \/ /\ result[c] \in {"panic", "badError"}
        /\ crashed' = TRUE
        /\ UNCHANGED <<at, status>>
     \/ /\ result[c] \notin {"panic", "badError"}
        /\ at' = [at EXCEPT ![c] = "answered"]
        /\ \E told \in {SentCode(result[c]), "cancelled"} :
             status' = [status EXCEPT ![c] = told]
        /\ UNCHANGED crashed
  /\ Quiet
  /\ UNCHANGED <<level, depth, result, verdicts>>

CallStep(c) == \/ Arrive(c) \/ HandlerEnds(c)
               \/ Logging(c) \/ Recovery(c) \/ Reply(c)

Next == /\ ~crashed
        /\ \/ \E w \in Calls \cup {Service} : Derives(w)
           \/ \E c \in Calls : Logs(c) \/ CallStep(c)

Spec == Init /\ [][Next]_vars

-----------------------------------------------------------------------------
Codes == {"ok", "failed", "unknown", "deadline", "internal"}

TypeOK ==
  /\ heap \in Seq(Seq(Ops \cup {Nothing}))
  /\ handler \in [Ids -> HandlerType \cup {Nothing}]
  /\ \A l \in Ids : handler[l] # Nothing =>
       LET s == handler[l].ops IN
       /\ s.len <= s.cap /\ s.array <= Len(heap)
       /\ s.array # 0 => s.cap = Len(heap[s.array])
  /\ level \in {"debug", "info", "warn", "error"}
  /\ at \in [Calls -> {"new", "handler", "leaving", "answered"}]
  /\ \A c \in Calls : depth[c] \in 0 .. Len(Chain(c))
  /\ result \in [Calls -> Outcomes \cup {"internal", Nothing}]
  /\ status \in [Calls -> Codes \cup {"cancelled", Nothing}]
  /\ \A c \in Calls : \A n \in DOMAIN verdicts[c] : verdicts[c][n].code \in Codes
  /\ crashed \in BOOLEAN

\* No call takes the process down, unary or streaming: neither a handler that
\* panics nor one whose error panics when Logging asks for its text, which is
\* why Recovery is outside Logging.
ProcessSurvives == ~crashed

\* Every call that is answered has left exactly one closing record, under its own
\* trace and with the code its client was told, unless it went well and the level
\* hides that: Logging's for a call that returned, Recovery's for one that
\* panicked, never both.  The code of a bare context error is set apart: see
\* LoggedCodeIsSent.
OneVerdict ==
  \A c \in Calls : at[c] = "answered" =>
    IF result[c] = "ok" /\ ~InfoShown THEN verdicts[c] = << >>
    ELSE /\ Len(verdicts[c]) = 1
         /\ LET v == verdicts[c][1] IN
            /\ v.trace = IF TraceOf[c] = Nothing THEN Nothing ELSE <<TraceOf[c], << >> >>
            /\ v.by = "panic recovered" <=> result[c] = "internal"
            /\ status[c] = "cancelled" \/ result[c] = "ctxError" \/ v.code = status[c]

-----------------------------------------------------------------------------
(* What a comment of the repository says, and the code does not do. *)

\* grpcmw.go: Logging logs every call with its method, code and duration.  For a
\* handler that returns its context's error the logged code is Unknown, while
\* the client is told DeadlineExceeded (or Canceled).
LoggedCodeIsSent ==
  \A c \in Calls : at[c] = "answered" /\ status[c] # "cancelled" =>
    \A n \in DOMAIN verdicts[c] : verdicts[c][n].code = status[c]
=============================================================================

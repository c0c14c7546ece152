------------------------- MODULE InterceptorsProofs -------------------------
(***************************************************************************)
(* Theorems about Interceptors: no call takes the process down, each       *)
(* answered call has its one closing record, and the loggers implement     *)
(* Loggers, for any calls, loggers, traces and attributes.                 *)
(***************************************************************************)
EXTENDS Interceptors, SequenceTheorems, TLAPS

-----------------------------------------------------------------------------
(* The loggers. *)

\* A slice into a heap, and what it holds there.
InHeap(hp, s) == /\ s.len <= s.cap /\ s.array <= Len(hp)
                 /\ s.array = 0 => s = NilSlice
                 /\ s.array # 0 => s.cap = Len(hp[s.array])
ContentsIn(hp, s) == IF s.array = 0 THEN << >> ELSE SubSeq(hp[s.array], 1, s.len)

\* A handler keeps one chain in two forms, and knows whether it has groups.
OneChain(hp, h) == /\ InHeap(hp, h.ops)
                   /\ h.eager = ContentsIn(hp, h.ops)
                   /\ h.inGroup <=> \E k \in DOMAIN h.eager : h.eager[k] \in Groups

LoggersInv == /\ heap \in Seq(Seq(Ops \cup {Nothing}))
              /\ handler \in [Ids -> HandlerType \cup {Nothing}]
              /\ handler[Root] = newTraceHandler
              /\ \A l \in Ids : handler[l] # Nothing => OneChain(heap, handler[l])

LEMMA ContentsAreIn ==
  /\ \A s : Contents(s) = ContentsIn(heap, s)
  /\ chain = [l \in Ids |-> IF handler[l] = Nothing THEN Nothing
                                             ELSE ContentsIn(heap, handler[l].ops)]
BY DEF Contents, ContentsIn, chain

\* The handler of logging.New has an empty chain.
LEMMA RootHandler == /\ newTraceHandler \in HandlerType /\ newTraceHandler # Nothing
                     /\ NilSlice \in Slice /\ Contents(NilSlice) = << >>
<1>1. NilSlice \in Slice /\ Contents(NilSlice) = << >>
  BY DEF NilSlice, Slice, Contents
<1>2. newTraceHandler \in HandlerType
  BY <1>1 DEF newTraceHandler, HandlerType
<1> QED
  BY <1>1, <1>2, NothingAssumption

LEMMA LoggersStart == LogInit => LoggersInv /\ Promised!Init
<1> SUFFICES ASSUME LogInit PROVE LoggersInv /\ Promised!Init
  OBVIOUS
<1>1. handler = [l \in Ids |-> IF l = Root THEN newTraceHandler ELSE Nothing]
      /\ heap = << >> /\ record = Nothing
  BY DEF LogInit
<1>2. handler[Root] = newTraceHandler /\ Root \in Ids
  BY <1>1, IdsAssumption
<1>3. OneChain(heap, newTraceHandler)
  BY <1>1, RootHandler DEF OneChain, InHeap, ContentsIn, newTraceHandler, NilSlice
<1>4. LoggersInv
  BY <1>1, <1>2, <1>3, RootHandler DEF LoggersInv
<1>5. chain = [l \in Ids |-> IF l = Root THEN << >> ELSE Nothing]
  BY <1>1, RootHandler DEF chain, newTraceHandler
<1> QED
  BY <1>1, <1>2, <1>4, <1>5 DEF Promised!Init

\* The contents of a slice are operations, as many as it is long.
LEMMA ContentsType ==
  ASSUME LoggersInv, NEW l \in Ids, handler[l] # Nothing
  PROVE  /\ handler[l] \in HandlerType
         /\ Contents(handler[l].ops) \in Seq(Ops)
         /\ Len(Contents(handler[l].ops)) = handler[l].ops.len
<1>1. handler[l] \in HandlerType /\ OneChain(heap, handler[l])
  BY DEF LoggersInv
<1>2. Contents(handler[l].ops) \in Seq(Ops)
  BY <1>1, ContentsAreIn DEF OneChain, HandlerType
<1> DEFINE s == handler[l].ops
<1>3. s \in Slice /\ InHeap(heap, s)
  BY <1>1 DEF OneChain, HandlerType
<1>4. Len(Contents(s)) = s.len
  <2>1. CASE s.array = 0
    <3>1. Contents(s) = << >> /\ s.len = 0
      BY <1>3, <2>1 DEF InHeap, Contents, NilSlice
    <3> QED
      BY <3>1
  <2>2. CASE s.array # 0
    <3>1. s.array \in 1 .. Len(heap) /\ s.len \in Nat /\ s.cap \in Nat
      BY <1>3, <2>2 DEF InHeap, Slice, LoggersInv
    <3>2. heap[s.array] \in Seq(Ops \cup {Nothing})
      BY <3>1 DEF LoggersInv
    <3>3. s.len <= Len(heap[s.array])
      BY <1>3, <2>2 DEF InHeap
    <3>4. Len(SubSeq(heap[s.array], 1, s.len)) = s.len
      BY <3>1, <3>2, <3>3
    <3> QED
      BY <2>2, <3>4 DEF Contents
  <2> QED
    BY <2>1, <2>2
<1> QED
  BY <1>1, <1>2, <1>4

\* What append does to a clipped slice: it moves to a new array, and every slice
\* that was there keeps its contents.
LEMMA ClippedMoves ==
  ASSUME LoggersInv, NEW l \in Ids, handler[l] # Nothing, NEW o \in Ops,
         NEW a \in Appended(Clip(handler[l].ops), o)
  PROVE  \E spare \in 0 .. MaxSpare :
           /\ a.heap = Append(heap, Contents(handler[l].ops) \o <<o>>
                                      \o [k \in 1 .. spare |-> Nothing])
           /\ a.slice = [array |-> Len(heap) + 1, len |-> handler[l].ops.len + 1,
                         cap |-> handler[l].ops.len + 1 + spare]
<1> DEFINE s == handler[l].ops
<1>1. s \in Slice
  BY ContentsType DEF HandlerType
<1>2. /\ Clip(s).len = s.len /\ Clip(s).cap = s.len /\ Clip(s).array = s.array
      /\ Contents(Clip(s)) = Contents(s)
  BY <1>1 DEF Clip, Slice, Contents
<1>3. ~(Clip(s).len < Clip(s).cap)
  BY <1>1, <1>2 DEF Slice
<1> DEFINE c == Clip(s)
<1>4. PICK spare \in 0 .. MaxSpare :
        a = [heap |-> Append(heap, Contents(c) \o <<o>> \o [k \in 1 .. spare |-> Nothing]),
             slice |-> [array |-> Len(heap) + 1, len |-> c.len + 1, cap |-> c.len + 1 + spare]]
  <2> HIDE DEF c
  <2>1. a \in Appended(c, o)
    BY DEF c
  <2>2. ~(c.len < c.cap)
    BY <1>3 DEF c
  <2> QED
    BY <2>1, <2>2 DEF Appended
<1>5. /\ a.heap = Append(heap, Contents(c) \o <<o>> \o [k \in 1 .. spare |-> Nothing])
      /\ a.slice = [array |-> Len(heap) + 1, len |-> c.len + 1, cap |-> c.len + 1 + spare]
  <2> HIDE DEF c
  <2> QED
    BY <1>4
<1>6. c.len = s.len /\ Contents(c) = Contents(s)
  BY <1>2
<1> HIDE DEF c
<1> QED
  BY <1>5, <1>6

\* The new array begins with the chain and the operation added to it.
LEMMA ArrayBegins ==
  ASSUME NEW ops \in Seq(Ops), NEW o \in Ops, NEW spare \in Nat
  PROVE  LET array == ops \o <<o>> \o [k \in 1 .. spare |-> Nothing]
         IN /\ array \in Seq(Ops \cup {Nothing})
            /\ Len(array) = Len(ops) + 1 + spare
            /\ SubSeq(array, 1, Len(ops) + 1) = Append(ops, o)
<1> DEFINE room == [k \in 1 .. spare |-> Nothing]
           array == ops \o <<o>> \o room
<1>1. room \in Seq(Ops \cup {Nothing}) /\ Len(room) = spare
  BY DEF room
<1>2. ops \o <<o>> \in Seq(Ops \cup {Nothing}) /\ Len(ops \o <<o>>) = Len(ops) + 1
  OBVIOUS
<1> HIDE DEF room
<1>3. array \in Seq(Ops \cup {Nothing}) /\ Len(array) = Len(ops) + 1 + spare
  BY <1>1, <1>2
<1>4. \A k \in 1 .. Len(ops) + 1 : array[k] = Append(ops, o)[k]
  BY <1>1, <1>2
<1>5. SubSeq(array, 1, Len(ops) + 1) = Append(ops, o)
  <2>1. /\ SubSeq(array, 1, Len(ops) + 1) \in Seq(Ops \cup {Nothing})
        /\ Len(SubSeq(array, 1, Len(ops) + 1)) = Len(ops) + 1
        /\ \A k \in 1 .. Len(ops) + 1 : SubSeq(array, 1, Len(ops) + 1)[k] = array[k]
    BY <1>3
  <2>2. Append(ops, o) \in Seq(Ops \cup {Nothing}) /\ Len(Append(ops, o)) = Len(ops) + 1
    OBVIOUS
  <2> HIDE DEF array
  <2> QED
    BY <1>4, <2>1, <2>2, SeqEqual
<1> QED
  BY <1>3, <1>5 DEF room

-----------------------------------------------------------------------------
(* Deriving and writing, and what Loggers makes of them. *)

\* Other slices are where they were when the heap has grown by an array.
LEMMA HeapGrows ==
  ASSUME NEW hp \in Seq(Seq(Ops \cup {Nothing})), NEW array \in Seq(Ops \cup {Nothing}),
         NEW h \in HandlerType, OneChain(hp, h)
  PROVE  /\ OneChain(Append(hp, array), h)
         /\ ContentsIn(Append(hp, array), h.ops) = ContentsIn(hp, h.ops)
<1> DEFINE s == h.ops
           grown == Append(hp, array)
<1>1. s \in Slice /\ InHeap(hp, s) /\ s.array \in Nat
  BY DEF OneChain, HandlerType, Slice
<1>2. Len(grown) = Len(hp) + 1 /\ Len(hp) \in Nat /\ \A k \in 1 .. Len(hp) : grown[k] = hp[k]
  OBVIOUS
<1>3. s.array # 0 => grown[s.array] = hp[s.array]
  BY <1>1, <1>2 DEF InHeap
<1>4. ContentsIn(grown, s) = ContentsIn(hp, s)
  BY <1>3 DEF ContentsIn
<1>5. InHeap(grown, s)
  BY <1>1, <1>2, <1>3 DEF InHeap
<1> QED
  BY <1>4, <1>5 DEF OneChain

\* The array and the handler that are made, with some room to spare.
NewArray(h, o, spare) == h.eager \o <<o>> \o [k \in 1 .. spare |-> Nothing]
NewHandler(hp, h, o, spare) ==
  [eager |-> Append(h.eager, o),
   ops |-> [array |-> Len(hp) + 1, len |-> h.ops.len + 1, cap |-> h.ops.len + 1 + spare],
   inGroup |-> h.inGroup \/ o \in Groups]

\* The handler that is made has its parent's chain and the operation.
LEMMA Made ==
  ASSUME NEW hp \in Seq(Seq(Ops \cup {Nothing})), NEW h \in HandlerType, NEW o \in Ops,
         NEW spare \in Nat, OneChain(hp, h), Len(h.eager) = h.ops.len
  PROVE  LET array == NewArray(h, o, spare)
             made == NewHandler(hp, h, o, spare)
         IN /\ array \in Seq(Ops \cup {Nothing})
            /\ made \in HandlerType
            /\ OneChain(Append(hp, array), made)
            /\ ContentsIn(Append(hp, array), made.ops) = Append(h.eager, o)
<1> DEFINE array == NewArray(h, o, spare)
           new == [array |-> Len(hp) + 1, len |-> h.ops.len + 1,
                   cap |-> h.ops.len + 1 + spare]
           longer == Append(h.eager, o)
           made == [eager |-> longer, ops |-> new, inGroup |-> h.inGroup \/ o \in Groups]
           grown == Append(hp, array)
<1>1. /\ h.eager \in Seq(Ops) /\ h.inGroup \in BOOLEAN /\ h.ops.len \in Nat /\ Len(hp) \in Nat
      /\ Len(h.eager) \in Nat
  BY DEF HandlerType, Slice
<1>2. /\ array \in Seq(Ops \cup {Nothing}) /\ Len(array) = h.ops.len + 1 + spare
      /\ SubSeq(array, 1, h.ops.len + 1) = longer
  BY <1>1, ArrayBegins DEF NewArray
<1> HIDE DEF array
<1>3. Len(grown) = Len(hp) + 1 /\ grown[Len(hp) + 1] = array
  BY <1>2
<1>4. /\ new \in Slice /\ new.len <= new.cap
      /\ new.array = Len(hp) + 1 /\ new.array # 0 /\ new.len = h.ops.len + 1
  BY <1>1 DEF Slice
<1>5. /\ longer \in Seq(Ops) /\ Len(longer) = Len(h.eager) + 1
      /\ \A k \in 1 .. Len(h.eager) : longer[k] = h.eager[k]
      /\ longer[Len(h.eager) + 1] = o
  BY <1>1
<1> HIDE DEF grown
<1>6. InHeap(grown, new)
  BY <1>1, <1>2, <1>3 DEF InHeap
<1> HIDE DEF longer, new
<1>7. ContentsIn(grown, new) = longer
  <2>1. grown[new.array] = array
    BY <1>3, <1>4
  <2>2. SubSeq(grown[new.array], 1, new.len) = longer
    BY <1>2, <1>4, <2>1
  <2> QED
    BY <1>4, <2>2 DEF ContentsIn
<1>8. made \in HandlerType
  BY <1>4, <1>5 DEF HandlerType
<1>9. (h.inGroup \/ o \in Groups) <=> \E k \in DOMAIN longer : longer[k] \in Groups
  <2>1. DOMAIN longer = 1 .. Len(h.eager) + 1 /\ DOMAIN h.eager = 1 .. Len(h.eager)
    BY <1>1, <1>5
  <2>2. h.inGroup <=> \E k \in DOMAIN h.eager : h.eager[k] \in Groups
    BY DEF OneChain
  <2>3. ASSUME NEW k \in DOMAIN longer, longer[k] \in Groups
        PROVE  h.inGroup \/ o \in Groups
    <3>1. k \in 1 .. Len(h.eager) \/ k = Len(h.eager) + 1
      BY <1>1, <2>1
    <3> QED
      BY <1>5, <2>1, <2>2, <2>3, <3>1
  <2>4. h.inGroup => \E k \in DOMAIN longer : longer[k] \in Groups
    <3> SUFFICES ASSUME NEW k \in 1 .. Len(h.eager), h.eager[k] \in Groups
                 PROVE  k \in DOMAIN longer /\ longer[k] \in Groups
      BY <2>1, <2>2
    <3> QED
      BY <1>1, <1>5, <2>1
  <2>5. o \in Groups => \E k \in DOMAIN longer : longer[k] \in Groups
    BY <1>1, <1>5, <2>1
  <2> QED
    BY <2>3, <2>4, <2>5
<1>10. made.eager = longer /\ made.ops = new /\ made.inGroup = (h.inGroup \/ o \in Groups)
  OBVIOUS
<1> HIDE DEF made
<1>11. OneChain(grown, made)
  BY <1>6, <1>7, <1>9, <1>10 DEF OneChain
<1> QED
  BY <1>2, <1>7, <1>8, <1>10, <1>11 DEF made, grown, longer, new, array, NewHandler

\* A logger is made: the others keep what they have, and for Loggers the new one
\* has its parent's chain and the operation.
LEMMA DeriveKeeps ==
  ASSUME LoggersInv, NEW l \in Ids, NEW child \in Ids, NEW o \in Ops \cup {Empty},
         Derive(l, child, o)
  PROVE  LoggersInv' /\ Promised!Derive(l, child, o)
<1> DEFINE h == handler[l]
<1>1. /\ h # Nothing /\ handler[child] = Nothing /\ record' = Nothing
      /\ h \in HandlerType /\ h.eager \in Seq(Ops)
      /\ OneChain(heap, h) /\ child # Root
  BY RootHandler DEF Derive, LoggersInv, HandlerType
<1>2. chain[l] = h.eager /\ chain[l] # Nothing /\ chain[child] = Nothing
  BY <1>1, NothingAssumption, ContentsAreIn DEF OneChain
<1>3. chain' = [k \in Ids |-> IF handler'[k] = Nothing THEN Nothing
                              ELSE ContentsIn(heap', handler'[k].ops)]
  BY DEF chain, Contents, ContentsIn
<1>4. CASE o = Empty
  <2>1. handler' = [handler EXCEPT ![child] = h] /\ heap' = heap
    BY <1>4 DEF Derive
  <2>2. LoggersInv'
    BY <1>1, <2>1 DEF LoggersInv
  <2>3. chain' = [chain EXCEPT ![child] = chain[l]]
    BY <1>1, <1>3, <2>1, ContentsAreIn DEF LoggersInv
  <2> QED
    BY <1>1, <1>2, <1>4, <2>2, <2>3 DEF Promised!Derive
<1>5. CASE o # Empty
  <2>1. o \in Ops
    BY <1>5
  <2>2. PICK a \in Appended(Clip(h.ops), o) :
          /\ heap' = a.heap
          /\ handler' = [handler EXCEPT ![child] =
               [eager |-> Append(h.eager, o), ops |-> a.slice,
                inGroup |-> h.inGroup \/ o \in Groups]]
    BY <1>5 DEF Derive
  <2>3. PICK spare \in 0 .. MaxSpare :
           /\ a.heap = Append(heap, Contents(h.ops) \o <<o>> \o [k \in 1 .. spare |-> Nothing])
           /\ a.slice = [array |-> Len(heap) + 1, len |-> h.ops.len + 1,
                         cap |-> h.ops.len + 1 + spare]
    BY <1>1, <2>1, ClippedMoves
  <2>4. Contents(h.ops) = h.eager /\ Len(h.eager) = h.ops.len /\ spare \in Nat
    BY <1>1, ContentsType, ContentsAreIn, SpareAssumption DEF OneChain
  <2> DEFINE array == NewArray(h, o, spare)
             made == NewHandler(heap, h, o, spare)
  <2>5. heap' = Append(heap, array) /\ handler' = [handler EXCEPT ![child] = made]
    BY <2>2, <2>3, <2>4 DEF NewArray, NewHandler
  <2>6. heap \in Seq(Seq(Ops \cup {Nothing}))
    BY DEF LoggersInv
  <2>7. /\ array \in Seq(Ops \cup {Nothing}) /\ made \in HandlerType
        /\ OneChain(Append(heap, array), made)
        /\ ContentsIn(Append(heap, array), made.ops) = Append(h.eager, o)
    BY <1>1, <2>1, <2>4, <2>6, Made
  <2> HIDE DEF array, made
  <2>8. heap' \in Seq(Seq(Ops \cup {Nothing}))
    BY <2>5, <2>6, <2>7
  <2>9. /\ handler' \in [Ids -> HandlerType \cup {Nothing}] /\ handler'[child] = made
        /\ \A k \in Ids \ {child} : handler'[k] = handler[k]
    BY <2>5, <2>7 DEF LoggersInv
  <2>10. ASSUME NEW k \in Ids \ {child}, handler[k] # Nothing
         PROVE  /\ OneChain(heap', handler[k])
                /\ ContentsIn(heap', handler[k].ops) = ContentsIn(heap, handler[k].ops)
    <3>1. handler[k] \in HandlerType /\ OneChain(heap, handler[k])
      BY <2>10 DEF LoggersInv
    <3> QED
      BY <2>5, <2>6, <2>7, <3>1, HeapGrows
  <2>11. LoggersInv'
    <3>1. handler'[Root] = newTraceHandler
      BY <1>1, <2>9, IdsAssumption DEF LoggersInv
    <3>2. \A k \in Ids : handler'[k] # Nothing => OneChain(heap', handler'[k])
      BY <2>5, <2>7, <2>9, <2>10
    <3> QED
      BY <2>8, <2>9, <3>1, <3>2 DEF LoggersInv
  <2>12. chain' = [chain EXCEPT ![child] = Append(chain[l], o)]
    <3>1. made # Nothing
      BY <2>7, NothingAssumption
    <3>2. chain'[child] = Append(h.eager, o)
      BY <1>3, <2>5, <2>7, <2>9, <3>1
    <3>3. \A k \in Ids \ {child} : chain'[k] = chain[k]
      BY <1>3, <2>9, <2>10, ContentsAreIn
    <3> QED
      BY <1>2, <1>3, <3>2, <3>3, ContentsAreIn
  <2> QED
    BY <1>1, <1>2, <1>5, <2>11, <2>12 DEF Promised!Derive
<1> QED
  BY <1>4, <1>5

\* A record is written: the eager handler and the replay say what Loggers says.
LEMMA HandleKeeps ==
  ASSUME LoggersInv, NEW l \in Ids, NEW t \in Traces \cup {Nothing}, Handle(l, t)
  PROVE  /\ LoggersInv' /\ Promised!Write(l, t)
         /\ record'.trace = IF t = Nothing THEN Nothing ELSE <<t, << >>>>
<1> DEFINE h == handler[l]
<1>1. /\ h # Nothing /\ UNCHANGED <<heap, handler>> /\ OneChain(heap, h)
      /\ h.eager \in Seq(Ops)
  BY DEF Handle, LoggersInv, HandlerType
<1>2. LoggersInv'
  BY <1>1 DEF LoggersInv
<1>3. chain[l] = h.eager /\ chain[l] # Nothing /\ Contents(h.ops) = h.eager
  BY <1>1, NothingAssumption, ContentsAreIn DEF OneChain
<1>4. UNCHANGED chain
  BY <1>1 DEF chain, Contents
<1>5. ~h.inGroup => Opened(h.eager, Len(h.eager)) = << >>
  <2> SUFFICES ASSUME ~h.inGroup PROVE Opened(h.eager, Len(h.eager)) = << >>
    OBVIOUS
  <2>1. {j \in 1 .. Len(h.eager) : h.eager[j] \in Groups} = {}
    BY <1>1 DEF OneChain
  <2> QED
    BY <2>1 DEF Opened
<1>6. record' = Written(IF t = Nothing THEN Nothing ELSE <<t, << >>>>, h.eager)
  BY <1>3, <1>5 DEF Handle
<1>7. Promised!Record(chain[l], t) = Written(IF t = Nothing THEN Nothing ELSE <<t, << >>>>, h.eager)
  BY <1>3 DEF Promised!Record, Promised!Placed, Promised!Innermost, Promised!Opened,
              Written, Opened
<1>8. Promised!Write(l, t)
  BY <1>3, <1>4, <1>6, <1>7 DEF Promised!Write
<1>9. record'.trace = IF t = Nothing THEN Nothing ELSE <<t, << >>>>
  BY <1>6 DEF Written
<1> QED
  BY <1>2, <1>8, <1>9

\* Anything else.
LEMMA QuietKeeps ==
  ASSUME LoggersInv, UNCHANGED <<heap, handler>>
  PROVE  LoggersInv' /\ UNCHANGED chain
BY DEF LoggersInv, chain, Contents

-----------------------------------------------------------------------------
(* The calls. *)

Verdict(c, by, code) ==
  [by |-> by, code |-> code,
   trace |-> IF TraceOf[c] = Nothing THEN Nothing ELSE <<TraceOf[c], << >>>>]

Returned == {"ok", "failed", "ctxError"}

\* What Logging writes of a call that returned.
Logged(c) == IF result[c] = "ok" /\ ~InfoShown THEN << >>
             ELSE <<Verdict(c, IF c \in Stream THEN "grpc stream" ELSE "grpc call",
                            LoggedCode(result[c]))>>

\* A call that is out of the chain.
Closed(c) == \/ /\ result[c] = "internal"
                /\ verdicts[c] = <<Verdict(c, "panic recovered", "internal")>>
             \/ /\ result[c] \in Returned
                /\ verdicts[c] = Logged(c)

\* How far a call is, and what has been written of it.
CallInv(c) ==
  /\ at[c] \in {"new", "handler"} => verdicts[c] = << >>
  /\ at[c] = "handler" => depth[c] = 2
  /\ at[c] = "leaving" =>
       \/ depth[c] = 2 /\ result[c] \in Outcomes /\ verdicts[c] = << >>
       \/ depth[c] = 1 /\ result[c] = "panic" /\ verdicts[c] = << >>
       \/ depth[c] = 1 /\ result[c] \in Returned /\ verdicts[c] = Logged(c)
       \/ depth[c] = 0 /\ Closed(c)
  /\ at[c] = "answered" => Closed(c) /\ status[c] \in {SentCode(result[c]), "cancelled"}

CallTypes ==
  /\ level \in {"debug", "info", "warn", "error"}
  /\ at \in [Calls -> {"new", "handler", "leaving", "answered"}]
  /\ depth \in [Calls -> 0 .. 2]
  /\ result \in [Calls -> Outcomes \cup {"internal", Nothing}]
  /\ status \in [Calls -> Codes \cup {"cancelled", Nothing}]
  /\ DOMAIN verdicts = Calls

CallsInv == CallTypes /\ crashed = FALSE /\ \A c \in Calls : CallInv(c)

LEMMA ChainIs ==
  ASSUME NEW c
  PROVE  Len(Chain(c)) = 2 /\ Chain(c)[1] = "Recovery" /\ Chain(c)[2] = "Logging"
BY DEF Chain

LEMMA CallsStart == Init => CallsInv
<1> SUFFICES ASSUME Init PROVE CallsInv
  OBVIOUS
<1>1. CallTypes /\ crashed = FALSE
  BY DEF Init, CallTypes, parseLevel
<1> QED
  BY <1>1 DEF Init, CallsInv, CallInv

\* A call is left alone by the steps of others.
LEMMA OthersKeep ==
  ASSUME CallsInv, NEW d \in Calls, level' = level, at'[d] = at[d], depth'[d] = depth[d],
         result'[d] = result[d], status'[d] = status[d], verdicts'[d] = verdicts[d]
  PROVE  CallInv(d)'
BY DEF CallsInv, CallInv, Closed, Logged, InfoShown, Verdict, Returned

\* An interceptor's record is the verdict on its call.
LEMMA SaysVerdict ==
  ASSUME LoggersInv, NEW c \in Calls, NEW by, NEW code, Says(c, by, code)
  PROVE  verdicts' = [verdicts EXCEPT ![c] = Append(@, Verdict(c, by, code))]
<1>1. Root \in Ids /\ TraceOf[c] \in Traces \cup {Nothing}
  BY IdsAssumption, CallsAssumption
<1>2. record'.trace = IF TraceOf[c] = Nothing THEN Nothing ELSE <<TraceOf[c], << >>>>
  BY <1>1, HandleKeeps DEF Says
<1> QED
  BY <1>2 DEF Says, Verdict

LEMMA ArriveKeeps ==
  ASSUME CallsInv, NEW c \in Calls, Arrive(c) \/ HandlerEnds(c)
  PROVE  CallsInv'
<1>1. CASE Arrive(c)
  <2>1. /\ at[c] = "new" /\ at' = [at EXCEPT ![c] = "handler"]
        /\ depth' = [depth EXCEPT ![c] = 2]
        /\ UNCHANGED <<level, result, status, verdicts, crashed>>
    BY <1>1, ChainIs DEF Arrive
  <2>2. CallTypes'
    BY <2>1 DEF CallsInv, CallTypes
  <2>3. CallInv(c)'
    BY <2>1 DEF CallsInv, CallInv, CallTypes
  <2>4. \A d \in Calls \ {c} : CallInv(d)'
    BY <2>1, OthersKeep DEF CallsInv, CallTypes
  <2> QED
    BY <2>1, <2>2, <2>3, <2>4 DEF CallsInv
<1>2. CASE HandlerEnds(c)
  <2>1. PICK r \in Outcomes : result' = [result EXCEPT ![c] = r]
    BY <1>2 DEF HandlerEnds
  <2>2. /\ at[c] = "handler" /\ at' = [at EXCEPT ![c] = "leaving"]
        /\ UNCHANGED <<level, depth, status, verdicts, crashed>>
    BY <1>2 DEF HandlerEnds
  <2>3. CallTypes'
    BY <2>1, <2>2 DEF CallsInv, CallTypes
  <2>4. CallInv(c)'
    <3>1. at'[c] = "leaving" /\ result'[c] \in Outcomes
      BY <2>1, <2>2 DEF CallsInv, CallTypes
    <3>2. depth'[c] = 2 /\ verdicts'[c] = << >>
      BY <2>2 DEF CallsInv, CallInv
    <3> QED
      BY <3>1, <3>2 DEF CallInv
  <2>5. \A d \in Calls \ {c} : CallInv(d)'
    BY <2>1, <2>2, OthersKeep DEF CallsInv, CallTypes
  <2> QED
    BY <2>2, <2>3, <2>4, <2>5 DEF CallsInv
<1> QED
  BY <1>1, <1>2

LEMMA LoggingKeeps ==
  ASSUME CallsInv, LoggersInv, NEW c \in Calls, Logging(c)
  PROVE  CallsInv'
<1>1. /\ at[c] = "leaving" /\ depth[c] = 2 /\ depth' = [depth EXCEPT ![c] = 1]
      /\ UNCHANGED <<level, at, status, crashed>>
  <2>1. /\ at[c] = "leaving" /\ depth[c] > 0 /\ Chain(c)[depth[c]] = "Logging"
        /\ depth' = [depth EXCEPT ![c] = depth[c] - 1]
        /\ UNCHANGED <<level, at, status, crashed>>
    BY DEF Logging, Within
  <2>2. depth[c] \in 0 .. 2
    BY DEF CallsInv, CallTypes
  <2>3. depth[c] = 1 \/ depth[c] = 2
    BY <2>1, <2>2
  <2>4. depth[c] = 2
    BY <2>1, <2>3, ChainIs
  <2> QED
    BY <2>1, <2>4
<1>2. result[c] \in Outcomes /\ verdicts[c] = << >>
  BY <1>1 DEF CallsInv, CallInv
<1>3. CASE result[c] \in {"panic", "badError"}
  <2>1. result' = [result EXCEPT ![c] = "panic"] /\ verdicts' = verdicts
    BY <1>3 DEF Logging
  <2>2. CallTypes'
    BY <1>1, <2>1 DEF CallsInv, CallTypes, Outcomes
  <2>3. CallInv(c)'
    BY <1>1, <1>2, <2>1 DEF CallsInv, CallInv, CallTypes
  <2>4. \A d \in Calls \ {c} : CallInv(d)'
    BY <1>1, <2>1, OthersKeep DEF CallsInv, CallTypes
  <2> QED
    BY <1>1, <2>2, <2>3, <2>4 DEF CallsInv
<1>4. CASE result[c] \notin {"panic", "badError"}
  <2>1. result' = result /\ result[c] \in Returned
    BY <1>2, <1>4 DEF Logging, Outcomes, Returned
  <2>2. /\ verdicts'[c] = Logged(c) /\ DOMAIN verdicts' = Calls
        /\ \A d \in Calls \ {c} : verdicts'[d] = verdicts[d]
    <3>1. CASE result[c] # "ok" \/ InfoShown
      <4> DEFINE by == IF c \in Stream THEN "grpc stream" ELSE "grpc call"
                 v == Verdict(c, by, LoggedCode(result[c]))
      <4>1. Says(c, by, LoggedCode(result[c]))
        BY <1>4, <3>1 DEF Logging
      <4>2. verdicts' = [verdicts EXCEPT ![c] = Append(@, v)]
        BY <4>1, SaysVerdict
      <4>3. Logged(c) = <<v>>
        BY <3>1 DEF Logged
      <4> HIDE DEF v
      <4>4. Append(verdicts[c], v) = <<v>>
        BY <1>2
      <4> QED
        BY <4>2, <4>3, <4>4 DEF CallsInv, CallTypes
    <3>2. CASE ~(result[c] # "ok" \/ InfoShown)
      <4>1. verdicts' = verdicts
        BY <1>4, <3>2 DEF Logging
      <4>2. Logged(c) = << >>
        BY <3>2 DEF Logged
      <4> QED
        BY <1>2, <4>1, <4>2 DEF CallsInv, CallTypes
    <3> QED
      BY <3>1, <3>2
  <2>3. CallTypes'
    BY <1>1, <2>1, <2>2 DEF CallsInv, CallTypes
  <2>4. CallInv(c)'
    <3>1. Logged(c)' = Logged(c)
      BY <1>1, <2>1 DEF Logged, InfoShown, Verdict
    <3>2. verdicts'[c] = Logged(c)' /\ depth'[c] = 1 /\ result'[c] \in Returned /\ at'[c] = "leaving"
      BY <1>1, <2>1, <2>2, <3>1 DEF CallsInv, CallTypes
    <3> QED
      BY <3>2 DEF CallInv
  <2>5. \A d \in Calls \ {c} : CallInv(d)'
    BY <1>1, <2>1, <2>2, OthersKeep DEF CallsInv, CallTypes
  <2> QED
    BY <1>1, <2>3, <2>4, <2>5 DEF CallsInv
<1> QED
  BY <1>3, <1>4

LEMMA RecoveryKeeps ==
  ASSUME CallsInv, LoggersInv, NEW c \in Calls, Recovery(c)
  PROVE  CallsInv'
<1>1. /\ at[c] = "leaving" /\ depth[c] = 1 /\ depth' = [depth EXCEPT ![c] = 0]
      /\ UNCHANGED <<level, at, status, crashed>>
  <2>1. /\ at[c] = "leaving" /\ depth[c] > 0 /\ Chain(c)[depth[c]] = "Recovery"
        /\ depth' = [depth EXCEPT ![c] = depth[c] - 1]
        /\ UNCHANGED <<level, at, status, crashed>>
    BY DEF Recovery, Within
  <2>2. depth[c] \in 0 .. 2
    BY DEF CallsInv, CallTypes
  <2>3. depth[c] = 1 \/ depth[c] = 2
    BY <2>1, <2>2
  <2>4. depth[c] = 1
    BY <2>1, <2>3, ChainIs
  <2> QED
    BY <2>1, <2>4
<1>2. CASE result[c] = "panic"
  <2>1. result' = [result EXCEPT ![c] = "internal"] /\ Says(c, "panic recovered", "internal")
    BY <1>2 DEF Recovery
  <2>2. verdicts[c] = << >>
    BY <1>1, <1>2 DEF CallsInv, CallInv, Closed, Returned
  <2> DEFINE v == Verdict(c, "panic recovered", "internal")
  <2>3. verdicts' = [verdicts EXCEPT ![c] = Append(@, v)]
    BY <2>1, SaysVerdict
  <2>4. verdicts'[c] = <<v>> /\ DOMAIN verdicts' = Calls
    <3> HIDE DEF v
    <3> QED
      BY <2>2, <2>3 DEF CallsInv, CallTypes
  <2>5. v' = v
    BY DEF Verdict
  <2>6. CallTypes'
    <3>1. result' \in [Calls -> Outcomes \cup {"internal", Nothing}]
      BY <2>1 DEF CallsInv, CallTypes
    <3>2. depth' \in [Calls -> 0 .. 2]
      BY <1>1 DEF CallsInv, CallTypes
    <3> QED
      BY <1>1, <2>4, <3>1, <3>2 DEF CallsInv, CallTypes
  <2>7. CallInv(c)'
    BY <1>1, <2>1, <2>4, <2>5 DEF CallsInv, CallTypes, CallInv, Closed
  <2>8. \A d \in Calls \ {c} : CallInv(d)'
    <3> HIDE DEF v
    <3> QED
      BY <1>1, <2>1, <2>3, OthersKeep DEF CallsInv, CallTypes
  <2> QED
    BY <1>1, <2>6, <2>7, <2>8 DEF CallsInv
<1>3. CASE result[c] # "panic"
  <2>1. UNCHANGED <<result, verdicts>>
    BY <1>3 DEF Recovery
  <2>2. result[c] \in Returned /\ verdicts[c] = Logged(c)
    BY <1>1, <1>3 DEF CallsInv, CallInv
  <2>3. Logged(c)' = Logged(c)
    BY <1>1, <2>1 DEF Logged, InfoShown, Verdict
  <2>4. CallTypes'
    BY <1>1, <2>1 DEF CallsInv, CallTypes
  <2>5. CallInv(c)'
    BY <1>1, <2>1, <2>2, <2>3 DEF CallsInv, CallTypes, CallInv, Closed
  <2>6. \A d \in Calls \ {c} : CallInv(d)'
    BY <1>1, <2>1, OthersKeep DEF CallsInv, CallTypes
  <2> QED
    BY <1>1, <2>4, <2>5, <2>6 DEF CallsInv
<1> QED
  BY <1>2, <1>3

LEMMA ReplyKeeps ==
  ASSUME CallsInv, NEW c \in Calls, Reply(c)
  PROVE  CallsInv'
<1>1. at[c] = "leaving" /\ depth[c] = 0 /\ UNCHANGED <<level, depth, result, verdicts>>
  BY DEF Reply
<1>2. Closed(c)
  BY <1>1 DEF CallsInv, CallInv
<1>3. /\ at' = [at EXCEPT ![c] = "answered"] /\ UNCHANGED crashed
      /\ \E told \in {SentCode(result[c]), "cancelled"} : status' = [status EXCEPT ![c] = told]
  BY <1>2 DEF Reply, Closed, Returned
<1>4. Closed(c)'
  BY <1>1, <1>2 DEF Closed, Logged, InfoShown, Verdict, Returned
<1>5. SentCode(result[c]) \in Codes
  BY <1>2 DEF Closed, Returned, SentCode, Codes
<1>6. CallTypes'
  BY <1>1, <1>3, <1>5 DEF CallsInv, CallTypes
<1>7. CallInv(c)'
  BY <1>1, <1>3, <1>4 DEF CallsInv, CallTypes, CallInv, SentCode
<1>8. \A d \in Calls \ {c} : CallInv(d)'
  BY <1>1, <1>3, OthersKeep DEF CallsInv, CallTypes
<1> QED
  BY <1>3, <1>6, <1>7, <1>8 DEF CallsInv

-----------------------------------------------------------------------------
(* Every step. *)

\* For Loggers every step is one of its own.
LEMMA LoggersStep ==
  ASSUME LoggersInv, [Next]_vars
  PROVE  LoggersInv' /\ [Promised!Next]_<<chain, record>>
<1>1. ASSUME NEW w \in Calls \cup {Service}, Derives(w)
      PROVE  LoggersInv' /\ Promised!Next
  <2>1. PICK l \in Ids, child \in Ids, o \in Ops \cup {Empty} : Derive(l, child, o)
    BY <1>1 DEF Derives, Known
  <2>2. o \in Attrs \cup Groups \cup {Empty}
    BY DEF Ops
  <2> QED
    BY <2>1, <2>2, DeriveKeeps DEF Promised!Next
<1>2. ASSUME NEW c \in Calls, NEW l \in Ids, Handle(l, TraceOf[c])
      PROVE  LoggersInv' /\ Promised!Next
  <2>1. TraceOf[c] \in Traces \cup {Nothing}
    BY CallsAssumption
  <2> QED
    BY <1>2, <2>1, HandleKeeps DEF Promised!Next
<1>3. ASSUME Quiet PROVE LoggersInv' /\ Promised!Next
  <2>1. LoggersInv' /\ UNCHANGED chain
    BY <1>3, QuietKeeps DEF Quiet
  <2> QED
    BY <1>3, <2>1 DEF Quiet, Promised!Next, Promised!Elsewhere
<1>4. ASSUME NEW c \in Calls, Logs(c) PROVE LoggersInv' /\ Promised!Next
  BY <1>2, <1>4 DEF Logs, Known
<1>5. ASSUME NEW c \in Calls, CallStep(c) PROVE LoggersInv' /\ Promised!Next
  <2>1. Quiet \/ Handle(Root, TraceOf[c])
    BY <1>5 DEF CallStep, Arrive, HandlerEnds, Logging, Recovery, Reply, Says
  <2>2. Root \in Ids
    BY IdsAssumption
  <2>3. CASE Handle(Root, TraceOf[c])
    BY <1>2, <2>2, <2>3
  <2> QED
    BY <1>3, <2>1, <2>3
<1>6. CASE UNCHANGED vars
  BY <1>6, QuietKeeps DEF vars, logVars
<1> QED
  BY <1>1, <1>4, <1>5, <1>6 DEF Next

LEMMA CallsStep ==
  ASSUME LoggersInv, CallsInv, [Next]_vars
  PROVE  CallsInv'
<1>1. ASSUME UNCHANGED <<level, callVars, crashed>> PROVE CallsInv'
  <2>1. \A d \in Calls : CallInv(d)'
    BY <1>1, OthersKeep DEF callVars
  <2> QED
    BY <1>1, <2>1 DEF CallsInv, CallTypes, callVars
<1>2. ASSUME NEW c \in Calls, CallStep(c) PROVE CallsInv'
  BY <1>2, ArriveKeeps, LoggingKeeps, RecoveryKeeps, ReplyKeeps DEF CallStep
<1>3. ASSUME NEW w \in Calls \cup {Service}, Derives(w) PROVE CallsInv'
  BY <1>1, <1>3 DEF Derives
<1>4. ASSUME NEW c \in Calls, Logs(c) PROVE CallsInv'
  BY <1>1, <1>4 DEF Logs
<1>5. CASE UNCHANGED vars
  BY <1>1, <1>5 DEF vars
<1> QED
  BY <1>2, <1>3, <1>4, <1>5 DEF Next

LEMMA Inductive == Spec => [](LoggersInv /\ CallsInv)
<1>1. Init => LoggersInv /\ CallsInv
  BY LoggersStart, CallsStart DEF Init
<1>2. LoggersInv /\ CallsInv /\ [Next]_vars => (LoggersInv /\ CallsInv)'
  BY LoggersStep, CallsStep
<1> QED
  BY <1>1, <1>2, PTL DEF Spec

-----------------------------------------------------------------------------
\* Calls, loggers and the heap of operations keep their types, for any of them.
THEOREM CallsTypeCorrect == Spec => []TypeOK
<1>1. LoggersInv /\ CallsInv => TypeOK
  <2> SUFFICES ASSUME LoggersInv, CallsInv PROVE TypeOK
    OBVIOUS
  <2>1. \A c \in Calls : depth[c] \in 0 .. Len(Chain(c))
    BY ChainIs DEF CallsInv, CallTypes
  <2>2. ASSUME NEW c \in Calls PROVE \A n \in DOMAIN verdicts[c] : verdicts[c][n].code \in Codes
    <3>1. CallInv(c) /\ at[c] \in {"new", "handler", "leaving", "answered"}
      BY DEF CallsInv, CallTypes
    <3>2. \/ verdicts[c] = << >>
          \/ \E by, code : code \in Codes /\ verdicts[c] = <<Verdict(c, by, code)>>
      BY <3>1 DEF CallInv, Closed, Logged, LoggedCode, Returned, Codes
    <3>3. CASE verdicts[c] = << >>
      BY <3>3
    <3>4. ASSUME NEW by, NEW code \in Codes, verdicts[c] = <<Verdict(c, by, code)>>
          PROVE  \A n \in DOMAIN verdicts[c] : verdicts[c][n].code \in Codes
      BY <3>4 DEF Verdict
    <3> QED
      BY <3>2, <3>3, <3>4
  <2>3. ASSUME NEW l \in Ids, handler[l] # Nothing
        PROVE  LET s == handler[l].ops IN
               /\ s.len <= s.cap /\ s.array <= Len(heap)
               /\ s.array # 0 => s.cap = Len(heap[s.array])
    BY <2>3 DEF LoggersInv, OneChain, InHeap
  <2>4. /\ heap \in Seq(Seq(Ops \cup {Nothing}))
        /\ handler \in [Ids -> HandlerType \cup {Nothing}]
    BY DEF LoggersInv
  <2>5. /\ level \in {"debug", "info", "warn", "error"}
        /\ at \in [Calls -> {"new", "handler", "leaving", "answered"}]
        /\ result \in [Calls -> Outcomes \cup {"internal", Nothing}]
        /\ status \in [Calls -> Codes \cup {"cancelled", Nothing}]
        /\ crashed \in BOOLEAN
    BY DEF CallsInv, CallTypes
  <2> QED
    BY <2>1, <2>2, <2>3, <2>4, <2>5 DEF TypeOK
<1> QED
  BY <1>1, Inductive, PTL

\* No call takes the process down, whatever its handler does and however many run.
THEOREM ProcessStaysUp == Spec => []ProcessSurvives
<1>1. LoggersInv /\ CallsInv => ProcessSurvives
  BY DEF CallsInv, ProcessSurvives
<1> QED
  BY <1>1, Inductive, PTL

\* Every answered call has its one closing record, of the right interceptor, under
\* its own trace and with the code that was sent.
THEOREM VerdictIsGiven == Spec => []OneVerdict
<1>1. LoggersInv /\ CallsInv => OneVerdict
  <2> SUFFICES ASSUME LoggersInv, CallsInv, NEW c \in Calls, at[c] = "answered"
               PROVE  IF result[c] = "ok" /\ ~InfoShown THEN verdicts[c] = << >>
                      ELSE /\ Len(verdicts[c]) = 1
                           /\ LET v == verdicts[c][1] IN
                              /\ v.trace = IF TraceOf[c] = Nothing THEN Nothing
                                           ELSE <<TraceOf[c], << >>>>
                              /\ v.by = "panic recovered" <=> result[c] = "internal"
                              /\ \/ status[c] = "cancelled" \/ result[c] = "ctxError"
                                 \/ v.code = status[c]
    BY DEF OneVerdict
  <2>1. Closed(c) /\ status[c] \in {SentCode(result[c]), "cancelled"}
    BY DEF CallsInv, CallInv
  <2>2. CASE result[c] = "ok" /\ ~InfoShown
    BY <2>1, <2>2 DEF Closed, Logged
  <2>3. CASE ~(result[c] = "ok" /\ ~InfoShown)
    <3>1. \E by, code :
            /\ verdicts[c] = <<Verdict(c, by, code)>>
            /\ (by = "panic recovered") <=> (result[c] = "internal")
            /\ code = LoggedCode(result[c])
      <4>1. CASE result[c] = "internal"
        BY <2>1, <4>1 DEF Closed, Returned, LoggedCode
      <4>2. CASE result[c] # "internal"
        <5> DEFINE by == IF c \in Stream THEN "grpc stream" ELSE "grpc call"
        <5>1. verdicts[c] = <<Verdict(c, by, LoggedCode(result[c]))>>
          BY <2>1, <2>3, <4>2 DEF Closed, Logged
        <5>2. by # "panic recovered"
          OBVIOUS
        <5> HIDE DEF by
        <5> QED
          BY <4>2, <5>1, <5>2
      <4> QED
        BY <4>1, <4>2
    <3>2. PICK by, code :
            /\ verdicts[c] = <<Verdict(c, by, code)>>
            /\ (by = "panic recovered") <=> (result[c] = "internal")
            /\ code = LoggedCode(result[c])
      BY <3>1
    <3>3. Len(verdicts[c]) = 1 /\ verdicts[c][1] = Verdict(c, by, code)
      <4> DEFINE v == Verdict(c, by, code)
      <4> HIDE DEF v
      <4>1. verdicts[c] = <<v>>
        BY <3>2 DEF v
      <4>2. Len(verdicts[c]) = 1 /\ verdicts[c][1] = v
        BY <4>1
      <4> QED
        BY <4>2 DEF v
    <3>4. /\ verdicts[c][1].trace = IF TraceOf[c] = Nothing THEN Nothing
                                    ELSE <<TraceOf[c], << >>>>
          /\ verdicts[c][1].by = by /\ verdicts[c][1].code = code
      BY <3>3 DEF Verdict
    <3>5. status[c] = "cancelled" \/ result[c] = "ctxError" \/ code = status[c]
      BY <2>1, <3>2 DEF SentCode, LoggedCode
    <3> QED
      BY <2>3, <3>2, <3>3, <3>4, <3>5
  <2> QED
    BY <2>2, <2>3
<1> QED
  BY <1>1, Inductive, PTL

\* The handlers of pkg/logging, with their shared slices, implement Loggers under
\* any concurrent use: each logger keeps its chain, each record shows it with the
\* trace at the top.
THEOREM LoggersAreKept == Spec => ImplementsLoggers
<1>1. Init => Promised!Init
  BY LoggersStart DEF Init
<1>2. LoggersInv /\ [Next]_vars => [Promised!Next]_<<chain, record>>
  BY LoggersStep
<1> QED
  BY <1>1, <1>2, Inductive, PTL DEF Spec, ImplementsLoggers, Promised!Spec
=============================================================================

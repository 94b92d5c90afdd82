--------------------------- MODULE FirewallProofs ---------------------------
(***************************************************************************)
(* Proofs about the two places where a panic must stop: the entry points   *)
(* (CallBoundary), for any number of threads and streams and calls nested  *)
(* to any depth, and the exported Arrow streams (GuardedStream), for any   *)
(* number of scanners and streams of any length.                           *)
(***************************************************************************)
EXTENDS CallBoundary, GuardedStream, TLAPS

-----------------------------------------------------------------------------
(* Entry points (CallBoundary).                                            *)

\* The slot of t agrees with the answer host code has not yet disposed of.
SlotAgrees(t) ==
  answer[t] # None =>
    /\ answer[t].outcome = "ok" => slot[t] = NoError
    /\ answer[t].outcome # "ok" => slot[t].by = answer[t].call
    /\ slot[t].code = "Panic" <=> answer[t].outcome \in {"panic", "Explosive"}

Frames(t) == 1..Len(stack[t])

\* A call that has taken its stream owns it; one that has not, does not.
FrameInv(t, i) ==
  LET f == stack[t][i] IN
  /\ f.entry = "other" => f.stream = Null
  /\ f.stream # Null =>
       (f.at = "entered" <=> stream[f.stream].owner # "call")

\* No stream is given to two calls in progress.
Exclusive ==
  \A t, u \in Threads : \A i \in Frames(t), j \in Frames(u) :
    stack[t][i].stream = stack[u][j].stream /\ stack[t][i].stream # Null =>
      t = u /\ i = j

\* A stream that was moved out of the caller's struct has a call.
Owned(s) == stream[s].owner = "call" =>
              \E t \in Threads : \E i \in Frames(t) : stack[t][i].stream = s

Counted(s) == stream[s].released = IF stream[s].owner = "gone" THEN 1 ELSE 0

Disposed(g) ==
  stream[g.stream].owner = "gone" \/ (g.early /\ g.entry = "write_fragments")

StackInv ==
  /\ \A t \in Threads : Len(stack[t]) <= MaxDepth
  /\ \A t \in Threads : \A i \in Frames(t) : FrameInv(t, i)
  /\ Exclusive

StreamInv ==
  /\ \A s \in Streams : Owned(s) /\ Counted(s)
  /\ \A g \in given : Disposed(g)

\* The inductive invariant.
IInv == /\ TypeOK
        /\ \A t \in Threads : SlotAgrees(t)
        /\ StackInv
        /\ StreamInv

\* Initially there are no calls, and the host has every stream.
LEMMA InitIInv == Init => IInv
<1> SUFFICES ASSUME Init PROVE IInv
  OBVIOUS
<1>1. TypeOK
  BY BoundaryAssumption DEF Init, TypeOK, NoError, None, StreamState
<1>2. \A t \in Threads : SlotAgrees(t) /\ Len(stack[t]) = 0
  BY DEF Init, SlotAgrees
<1>3. StackInv
  BY <1>2, BoundaryAssumption DEF StackInv, Exclusive, Frames
<1>4. StreamInv
  BY DEF Init, StreamInv, Owned, Counted
<1> QED BY <1>1, <1>2, <1>3, <1>4 DEF IInv

-----------------------------------------------------------------------------
(* The stack.                                                              *)

\* A frame is a frame of the stack.
LEMMA FrameType ==
  ASSUME TypeOK, NEW t \in Threads
  PROVE  /\ Len(stack[t]) \in Nat
         /\ \A i \in Frames(t) : stack[t][i] \in Frame
         /\ stack[t] # <<>> => Len(stack[t]) \in Frames(t) /\ Top(t) \in Frame
BY DEF TypeOK, Frames, Top

\* InUse looks at all frames, which are at most MaxDepth.
LEMMA InUseFrames ==
  ASSUME TypeOK, StackInv, NEW s
  PROVE  InUse(s) <=> \E t \in Threads : \E i \in Frames(t) : stack[t][i].stream = s
BY FrameType, BoundaryAssumption DEF InUse, StackInv, Frames

\* A call that proceeds changes nothing but where its own frame is.
LEMMA ProceedStack ==
  ASSUME TypeOK, NEW t \in Threads, stack[t] # <<>>,
         NEW p \in {"entered", "working", "callback"}, Proceed(t, p)
  PROVE  /\ stack' \in [Threads -> Seq(Frame)]
         /\ \A u \in Threads : Len(stack'[u]) = Len(stack[u])
         /\ \A u \in Threads : \A i \in Frames(u) :
              /\ stack'[u][i].stream = stack[u][i].stream
              /\ stack'[u][i].entry = stack[u][i].entry
              /\ stack'[u][i].at = IF u = t /\ i = Len(stack[t]) THEN p ELSE stack[u][i].at
<1> DEFINE n == Len(stack[t])
           f == [Top(t) EXCEPT !.at = p]
           q == [stack[t] EXCEPT ![n] = f]
<1>1. n \in Frames(t) /\ Top(t) \in Frame /\ Top(t) = stack[t][n]
  BY FrameType DEF Top
<1>2. f \in Frame /\ f.stream = Top(t).stream /\ f.entry = Top(t).entry /\ f.at = p
  BY <1>1 DEF Frame
<1>3. stack[t] \in Seq(Frame)
  BY DEF TypeOK
<1>4. q \in Seq(Frame) /\ Len(q) = Len(stack[t])
  BY <1>1, <1>2, <1>3 DEF Frames
<1>5. \A i \in Frames(t) : q[i] = IF i = n THEN f ELSE stack[t][i]
  BY <1>3 DEF Frames
<1>6. stack' = [stack EXCEPT ![t] = q]
  BY DEF Proceed
<1>7. stack'[t] = q /\ \A u \in Threads \ {t} : stack'[u] = stack[u]
  BY <1>6 DEF TypeOK
<1>8. stack' \in [Threads -> Seq(Frame)]
  BY <1>4, <1>6 DEF TypeOK
<1> QED BY <1>1, <1>2, <1>4, <1>5, <1>7, <1>8

\* A call that returns leaves the frames below it.
LEMMA PopStack ==
  ASSUME TypeOK, NEW t \in Threads, stack[t] # <<>>,
         stack' = [stack EXCEPT ![t] = SubSeq(@, 1, Len(@) - 1)]
  PROVE  /\ stack' \in [Threads -> Seq(Frame)]
         /\ Len(stack'[t]) = Len(stack[t]) - 1
         /\ \A i \in 1..(Len(stack[t]) - 1) : stack'[t][i] = stack[t][i]
         /\ \A u \in Threads \ {t} : stack'[u] = stack[u]
<1> DEFINE q == SubSeq(stack[t], 1, Len(stack[t]) - 1)
<1>1. stack[t] \in Seq(Frame) /\ Len(stack[t]) \in Nat /\ Len(stack[t]) > 0
  BY FrameType DEF TypeOK, Frames
<1>2. /\ q \in Seq(Frame) /\ Len(q) = Len(stack[t]) - 1
      /\ \A i \in 1..(Len(stack[t]) - 1) : q[i] = stack[t][i]
  BY <1>1
<1>3. stack' = [stack EXCEPT ![t] = q]
  OBVIOUS
<1> QED BY <1>2, <1>3 DEF TypeOK

-----------------------------------------------------------------------------
(* Returning.                                                              *)

\* The slot after a call, and what it shows of the outcome.
LEMMA GuardFacts ==
  ASSUME NEW old, NEW call \in 1..MaxCalls, NEW o \in Outcomes
  PROVE  LET r == ffi_guard_with(old, call, o) IN
         /\ r \in [code : Codes, by : 1..MaxCalls] \cup {NoError}
         /\ o = "ok" => r = NoError
         /\ o # "ok" => r.by = call
         /\ r.code = "Panic" <=> o \in {"panic", "Explosive"}
<1>1. CASE o = "ok"
  BY <1>1 DEF ffi_guard_with, NoError
<1>2. CASE o \in {"panic", "Explosive"}
  BY <1>2 DEF ffi_guard_with, Codes
<1>3. CASE o \notin {"ok", "panic", "Explosive"}
  <2>1. error_code_from_lance(o) \in Codes \ {"Panic"}
    BY <1>3 DEF error_code_from_lance, Codes
  <2>2. ffi_guard_with(old, call, o) = [code |-> error_code_from_lance(o), by |-> call]
    BY <1>3 DEF ffi_guard_with
  <2> QED BY <1>3, <2>1, <2>2
<1> QED BY <1>1, <1>2, <1>3

\* A call returns: it has disposed of its stream, or refused early.
LEMMA ReturnIInv ==
  ASSUME IInv, NEW t \in Threads, stack[t] # <<>>, NEW o \in Outcomes,
         NEW early \in BOOLEAN, Return(t, o, early), calls' = calls,
         stream' \in [Streams -> StreamState],
         \A r \in Streams : r # Top(t).stream => stream'[r] = stream[r],
         Top(t).stream # Null =>
           /\ stream'[Top(t).stream].owner # "call"
           /\ stream'[Top(t).stream].released =
                IF stream'[Top(t).stream].owner = "gone" THEN 1 ELSE 0
           /\ stream[Top(t).stream].owner = "gone" => stream'[Top(t).stream].owner = "gone"
           /\ \/ stream'[Top(t).stream].owner = "gone"
              \/ early /\ Top(t).entry = "write_fragments"
  PROVE  IInv'
<1> DEFINE f == Top(t)
           s == f.stream
           n == Len(stack[t])
<1>1. /\ TypeOK /\ n \in Frames(t) /\ n \in Nat /\ f \in Frame /\ f = stack[t][n]
      /\ f.call \in 1..MaxCalls /\ s \in Streams \cup {Null}
      /\ f.entry \in Entries /\ FrameInv(t, n)
  BY FrameType DEF IInv, StackInv, Top, Frame
<1>2. /\ stack' \in [Threads -> Seq(Frame)]
      /\ Len(stack'[t]) = n - 1
      /\ \A i \in 1..(n - 1) : stack'[t][i] = stack[t][i]
      /\ \A u \in Threads \ {t} : stack'[u] = stack[u]
  BY <1>1, PopStack DEF Return
<1>3. \A u \in Threads : \A i \in Frames(u)' :
        /\ i \in Frames(u) /\ stack'[u][i] = stack[u][i]
        /\ s # Null => stack[u][i].stream # s
  <2> SUFFICES ASSUME NEW u \in Threads, NEW i \in Frames(u)'
               PROVE  /\ i \in Frames(u) /\ stack'[u][i] = stack[u][i]
                      /\ s # Null => stack[u][i].stream # s
    OBVIOUS
  <2>1. i \in Frames(u) /\ stack'[u][i] = stack[u][i] /\ ~(u = t /\ i = n)
    BY <1>1, <1>2 DEF Frames
  <2> QED BY <1>1, <2>1 DEF IInv, StackInv, Exclusive
<1>4. given' \in SUBSET [entry : StreamEntries, stream : Streams, early : BOOLEAN]
  <2>1. s # Null => f.entry \in StreamEntries /\ s \in Streams
    BY <1>1 DEF FrameInv, Entries
  <2> QED BY <1>1, <2>1 DEF Return, TypeOK
<1>5. /\ slot'[t] = ffi_guard_with(slot[t], f.call, o)
      /\ answer'[t] = [call |-> f.call, outcome |-> o]
      /\ \A u \in Threads \ {t} : slot'[u] = slot[u] /\ answer'[u] = answer[u]
  BY <1>1 DEF Return, TypeOK
<1>6. TypeOK'
  <2>1. slot' \in [Threads -> [code : Codes, by : 1..MaxCalls] \cup {NoError}]
    BY <1>1, GuardFacts DEF Return, TypeOK
  <2>2. answer' \in [Threads -> [call : 1..MaxCalls, outcome : Outcomes] \cup {None}]
    BY <1>1 DEF Return, TypeOK
  <2> QED BY <1>1, <1>2, <1>4, <2>1, <2>2 DEF TypeOK
<1>7. ASSUME NEW u \in Threads PROVE SlotAgrees(u)'
  <2>1. CASE u = t
    BY <1>1, <1>5, <2>1, GuardFacts DEF SlotAgrees
  <2>2. CASE u # t
    BY <1>5, <2>2 DEF SlotAgrees, IInv
  <2> QED BY <2>1, <2>2
<1>8. StackInv'
  <2>1. ASSUME NEW u \in Threads PROVE Len(stack'[u]) <= MaxDepth
    <3>1. Len(stack[u]) <= MaxDepth /\ Len(stack[u]) \in Nat
      BY <1>1, FrameType DEF IInv, StackInv
    <3> QED BY <1>2, <3>1, BoundaryAssumption
  <2>2. ASSUME NEW u \in Threads, NEW i \in Frames(u)' PROVE FrameInv(u, i)'
    <3>1. /\ FrameInv(u, i) /\ stack'[u][i] = stack[u][i] /\ stack[u][i] \in Frame
          /\ s # Null => stack[u][i].stream # s
      BY <1>1, <1>3, FrameType DEF IInv, StackInv
    <3>2. stack[u][i].stream # Null => stream'[stack[u][i].stream] = stream[stack[u][i].stream]
      BY <3>1 DEF Frame
    <3> QED BY <3>1, <3>2 DEF FrameInv
  <2>3. Exclusive'
    BY <1>3 DEF IInv, StackInv, Exclusive
  <2> QED BY <2>1, <2>2, <2>3 DEF StackInv
<1>9. ASSUME NEW r \in Streams PROVE Owned(r)' /\ Counted(r)'
  <2>1. CASE r = s
    <3>1. /\ stream'[r].owner # "call"
          /\ stream'[r].released = IF stream'[r].owner = "gone" THEN 1 ELSE 0
      BY <2>1, BoundaryAssumption
    <3> QED BY <3>1 DEF Owned, Counted
  <2>2. CASE r # s
    <3>1. stream'[r] = stream[r] /\ Owned(r) /\ Counted(r)
      BY <2>2 DEF IInv, StreamInv
    <3>2. ASSUME stream[r].owner = "call"
          PROVE  \E u \in Threads : \E i \in Frames(u)' : stack'[u][i].stream = r
      <4>1. PICK u \in Threads : \E i \in Frames(u) : stack[u][i].stream = r
        BY <3>1, <3>2 DEF Owned
      <4>2. PICK i \in Frames(u) : stack[u][i].stream = r
        BY <4>1
      <4>3. ~(u = t /\ i = n)
        BY <1>1, <2>2, <4>2
      <4>4. i \in Frames(u)' /\ stack'[u][i] = stack[u][i]
        BY <1>1, <1>2, <4>2, <4>3 DEF Frames
      <4> QED BY <4>2, <4>4
    <3> QED BY <3>1, <3>2 DEF Owned, Counted
  <2> QED BY <2>1, <2>2
<1>10. ASSUME NEW g \in given' PROVE Disposed(g)'
  <2>1. CASE g \in given
    <3>1. Disposed(g) /\ g.stream \in Streams
      BY <1>1, <2>1 DEF IInv, StreamInv, TypeOK
    <3>2. stream[g.stream].owner = "gone" => stream'[g.stream].owner = "gone"
      BY <3>1, BoundaryAssumption
    <3> QED BY <3>1, <3>2 DEF Disposed
  <2>2. CASE g \notin given
    <3>1. s # Null /\ g = [entry |-> f.entry, stream |-> s, early |-> early]
      BY <2>2 DEF Return
    <3> QED BY <3>1 DEF Disposed
  <2> QED BY <2>1, <2>2
<1> QED BY <1>6, <1>7, <1>8, <1>9, <1>10 DEF IInv, StreamInv

-----------------------------------------------------------------------------
(* The steps.                                                              *)

\* A step that leaves the stack and the streams alone.
LEMMA QuietStep ==
  ASSUME IInv, TypeOK', \A t \in Threads : SlotAgrees(t)',
         UNCHANGED <<stack, stream, given>>
  PROVE  IInv'
<1>1. StackInv'
  BY DEF IInv, StackInv, FrameInv, Exclusive, Frames
<1>2. StreamInv'
  BY DEF IInv, StreamInv, Owned, Counted, Disposed, Frames
<1> QED BY <1>1, <1>2 DEF IInv

\* Host code takes the message of its thread.
LEMMA LastErrorMessageIInv ==
  ASSUME IInv, NEW t \in Threads, LastErrorMessage(t)
  PROVE  IInv'
<1>1. TypeOK'
  BY DEF IInv, TypeOK, LastErrorMessage
<1>2. \A u \in Threads : SlotAgrees(u)'
  BY DEF IInv, TypeOK, LastErrorMessage, SlotAgrees
<1> QED BY <1>1, <1>2, QuietStep DEF LastErrorMessage

\* Host code closes a handle.
LEMMA CloseHandleIInv ==
  ASSUME IInv, NEW t \in Threads, CloseHandle(t)
  PROVE  IInv'
<1>1. TypeOK'
  BY BoundaryAssumption DEF IInv, TypeOK, CloseHandle
<1>2. \A u \in Threads : SlotAgrees(u)'
  BY DEF IInv, CloseHandle, SlotAgrees
<1> QED BY <1>1, <1>2, QuietStep DEF CloseHandle

\* The struct of a stream after its release callback has run.
LEMMA ReleasedState ==
  ASSUME NEW r \in StreamState, r.released = 0
  PROVE  Released(r) \in StreamState /\ Released(r).owner = "gone"
         /\ Released(r).released = 1
BY DEF Released, StreamState

\* The host releases a stream that no call in progress has.
LEMMA HostReleasesIInv ==
  ASSUME IInv, NEW s \in Streams, HostReleases(s)
  PROVE  IInv'
<1>1. /\ TypeOK /\ stream[s] \in StreamState /\ stream[s].released = 0
      /\ stream' = [stream EXCEPT ![s] = Released(stream[s])]
  BY DEF IInv, TypeOK, HostReleases, StreamInv, Counted
<1>2. /\ stream' \in [Streams -> StreamState]
      /\ stream'[s].owner = "gone" /\ stream'[s].released = 1
      /\ \A r \in Streams \ {s} : stream'[r] = stream[r]
  BY <1>1, ReleasedState DEF TypeOK
<1>3. TypeOK'
  BY <1>2 DEF IInv, TypeOK, HostReleases
<1>4. \A u \in Threads : SlotAgrees(u)'
  BY DEF IInv, HostReleases, SlotAgrees
<1>5. \A t \in Threads : \A i \in Frames(t) : stack[t][i].stream # s
  BY InUseFrames DEF IInv, HostReleases
<1>6. StackInv'
  <2>1. ASSUME NEW t \in Threads, NEW i \in Frames(t) PROVE FrameInv(t, i)'
    <3>1. stack[t][i].stream \in (Streams \ {s}) \cup {Null} /\ FrameInv(t, i)
      BY <1>1, <1>5, FrameType DEF Frame, IInv, StackInv
    <3> QED BY <1>2, <3>1 DEF FrameInv, HostReleases
  <2> QED BY <2>1 DEF IInv, StackInv, Exclusive, Frames, HostReleases
<1>7. \A r \in Streams : Owned(r)' /\ Counted(r)'
  BY <1>2 DEF IInv, StreamInv, Owned, Counted, Frames, HostReleases
<1>8. \A g \in given' : Disposed(g)'
  <2>1. \A g \in given : g.stream \in Streams /\ Disposed(g)
    BY DEF IInv, TypeOK, StreamInv
  <2> QED BY <1>2, <2>1 DEF Disposed, HostReleases
<1> QED BY <1>3, <1>4, <1>6, <1>7, <1>8 DEF IInv, StreamInv

\* A call proceeds and takes its stream, if it had not done so before.
LEMMA ProceedIInv ==
  ASSUME IInv, NEW t \in Threads, stack[t] # <<>>,
         NEW p \in {"working", "callback"}, Proceed(t, p),
         stream' \in [Streams -> StreamState],
         \A r \in Streams : /\ r # Top(t).stream => stream'[r].owner = stream[r].owner
                            /\ stream'[r].released = stream[r].released,
         Top(t).stream # Null =>
           stream[Top(t).stream].owner # "gone" /\ stream'[Top(t).stream].owner = "call",
         TypeOK', \A u \in Threads : SlotAgrees(u)', UNCHANGED given
  PROVE  IInv'
<1> DEFINE f == Top(t)
           n == Len(stack[t])
<1>1. /\ TypeOK /\ n \in Frames(t) /\ n \in Nat /\ f \in Frame /\ f = stack[t][n]
      /\ f.stream \in Streams \cup {Null}
  BY FrameType DEF IInv, Top, Frame
<1>2. /\ \A u \in Threads : Len(stack'[u]) = Len(stack[u]) /\ Frames(u)' = Frames(u)
      /\ \A u \in Threads : \A i \in Frames(u) :
           /\ stack'[u][i].stream = stack[u][i].stream
           /\ stack'[u][i].entry = stack[u][i].entry
           /\ stack'[u][i].at = IF u = t /\ i = n THEN p ELSE stack[u][i].at
  BY <1>1, ProceedStack DEF Frames
<1>3. StackInv'
  <2>1. ASSUME NEW u \in Threads, NEW i \in Frames(u) PROVE FrameInv(u, i)'
    <3>1. FrameInv(u, i) /\ stack[u][i].stream \in Streams \cup {Null}
      BY <1>1, FrameType DEF IInv, StackInv, Frame
    <3>2. CASE u = t /\ i = n
      BY <1>1, <1>2, <3>1, <3>2 DEF FrameInv
    <3>3. CASE ~(u = t /\ i = n)
      <4>1. stack[u][i].stream # Null => stack[u][i].stream # f.stream
        BY <1>1, <3>3 DEF IInv, StackInv, Exclusive
      <4>2. stack[u][i].stream # Null =>
              stream'[stack[u][i].stream].owner = stream[stack[u][i].stream].owner
        BY <3>1, <4>1
      <4> QED BY <1>2, <3>1, <3>3, <4>2 DEF FrameInv
    <3> QED BY <3>2, <3>3
  <2>2. Exclusive'
    <3>1. Exclusive
      BY DEF IInv, StackInv
    <3> QED BY <1>2, <3>1 DEF Exclusive
  <2> QED BY <1>2, <2>1, <2>2 DEF IInv, StackInv
<1>4. ASSUME NEW r \in Streams PROVE Owned(r)' /\ Counted(r)'
  <2>1. Owned(r) /\ Counted(r)
    BY DEF IInv, StreamInv
  <2>2. CASE r = f.stream
    <3>1. /\ stream[r].owner # "gone" /\ stream'[r].owner = "call"
          /\ stream'[r].released = stream[r].released
      BY <2>2, BoundaryAssumption
    <3>2. stack'[t][n].stream = r /\ n \in Frames(t)'
      BY <1>1, <1>2, <2>2
    <3> QED BY <2>1, <3>1, <3>2 DEF Owned, Counted
  <2>3. CASE r # f.stream
    BY <1>2, <2>1, <2>3 DEF Owned, Counted
  <2> QED BY <2>2, <2>3
<1>5. \A g \in given' : Disposed(g)'
  <2>1. \A g \in given : g.stream \in Streams /\ Disposed(g)
    BY DEF IInv, TypeOK, StreamInv
  <2>2. \A r \in Streams : stream[r].owner = "gone" => stream'[r].owner = "gone"
    BY BoundaryAssumption
  <2> QED BY <2>1, <2>2 DEF Disposed
<1> QED BY <1>3, <1>4, <1>5 DEF IInv, StreamInv

\* Host code makes a call, with a stream no call in progress has.
LEMMA EnterIInv ==
  ASSUME IInv, NEW t \in Threads, NEW e \in Entries, NEW s \in Streams \cup {Null},
         Enter(t, e, s)
  PROVE  IInv'
<1> DEFINE n == Len(stack[t])
           f == [call |-> calls', entry |-> e, stream |-> s, at |-> "entered"]
<1>1. /\ TypeOK /\ n \in Nat /\ stack[t] \in Seq(Frame) /\ n < MaxDepth
      /\ calls' \in 1..MaxCalls /\ f \in Frame /\ (e = "other" => s = Null)
      /\ stream' = stream
  <2>1. TypeOK /\ n \in Nat /\ stack[t] \in Seq(Frame)
    BY FrameType DEF IInv, TypeOK
  <2>2. calls' \in 1..MaxCalls
    BY <2>1, BoundaryAssumption DEF TypeOK, Enter
  <2>3. f \in Frame
    BY <2>2 DEF Frame
  <2> QED BY <2>1, <2>2, <2>3 DEF Enter
<1>2. /\ stack' \in [Threads -> Seq(Frame)] /\ stack'[t] = Append(stack[t], f)
      /\ \A u \in Threads \ {t} : stack'[u] = stack[u]
  BY <1>1 DEF TypeOK, Enter
<1>3. /\ Len(stack'[t]) = n + 1 /\ stack'[t][n + 1] = f
      /\ \A i \in Frames(t) : stack'[t][i] = stack[t][i]
  BY <1>1, <1>2 DEF Frames
<1>4. \A u \in Threads : \A i \in Frames(u)' :
        \/ i \in Frames(u) /\ stack'[u][i] = stack[u][i]
        \/ u = t /\ i = n + 1 /\ stack'[u][i] = f
  BY <1>1, <1>2, <1>3 DEF Frames
<1>5. \A u \in Threads : \A i \in Frames(u) :
        i \in Frames(u)' /\ stack'[u][i] = stack[u][i]
  <2> SUFFICES ASSUME NEW u \in Threads, NEW i \in Frames(u)
               PROVE  i \in Frames(u)' /\ stack'[u][i] = stack[u][i]
    OBVIOUS
  <2>1. CASE u = t
    BY <1>1, <1>3, <2>1 DEF Frames
  <2>2. CASE u # t
    BY <1>2, <2>2 DEF Frames
  <2> QED BY <2>1, <2>2
<1>6. s # Null => \A u \in Threads : \A i \in Frames(u) : stack[u][i].stream # s
  BY InUseFrames DEF IInv, Enter
<1>7. TypeOK'
  BY <1>1, <1>2 DEF TypeOK, Enter
<1>8. \A u \in Threads : SlotAgrees(u)'
  BY <1>1 DEF IInv, TypeOK, Enter, SlotAgrees
<1>9. StackInv'
  <2>1. ASSUME NEW u \in Threads PROVE Len(stack'[u]) <= MaxDepth
    <3>1. Len(stack[u]) <= MaxDepth
      BY DEF IInv, StackInv
    <3> QED BY <1>1, <1>2, <1>3, <3>1, BoundaryAssumption
  <2>2. ASSUME NEW u \in Threads, NEW i \in Frames(u)' PROVE FrameInv(u, i)'
    <3>1. CASE i \in Frames(u) /\ stack'[u][i] = stack[u][i]
      BY <3>1 DEF IInv, StackInv, FrameInv, Enter
    <3>2. CASE stack'[u][i] = f
      <4>1. s # Null => stream[s].owner # "call"
        BY <1>6 DEF IInv, StreamInv, Owned
      <4>2. /\ stack'[u][i].entry = e /\ stack'[u][i].stream = s
            /\ stack'[u][i].at = "entered"
        BY <3>2
      <4> QED BY <1>1, <4>1, <4>2 DEF FrameInv
    <3> QED BY <1>4, <3>1, <3>2
  <2>3. Exclusive'
    <3> SUFFICES ASSUME NEW u \in Threads, NEW v \in Threads,
                        NEW i \in Frames(u)', NEW j \in Frames(v)',
                        stack'[u][i].stream = stack'[v][j].stream,
                        stack'[u][i].stream # Null
                 PROVE  u = v /\ i = j
      BY DEF Exclusive
    <3>1. CASE i \in Frames(u) /\ stack'[u][i] = stack[u][i]
      <4>1. ~(v = t /\ j = n + 1 /\ stack'[v][j] = f)
        BY <1>6, <3>1
      <4>2. j \in Frames(v) /\ stack'[v][j] = stack[v][j]
        BY <1>4, <4>1
      <4> QED BY <3>1, <4>2 DEF IInv, StackInv, Exclusive
    <3>2. CASE u = t /\ i = n + 1 /\ stack'[u][i] = f
      <4>1. ~(j \in Frames(v) /\ stack'[v][j] = stack[v][j])
        BY <1>6, <3>2
      <4> QED BY <1>4, <3>2, <4>1
    <3> QED BY <1>4, <3>1, <3>2
  <2> QED BY <2>1, <2>2, <2>3 DEF StackInv
<1>10. ASSUME NEW r \in Streams PROVE Owned(r)' /\ Counted(r)'
  <2>1. Owned(r) /\ Counted(r)
    BY DEF IInv, StreamInv
  <2>2. Counted(r)'
    BY <1>1, <2>1 DEF Counted
  <2>3. Owned(r)'
    BY <1>1, <1>5, <2>1 DEF Owned
  <2> QED BY <2>2, <2>3
<1>11. \A g \in given' : Disposed(g)'
  BY DEF IInv, StreamInv, Disposed, Enter
<1> QED BY <1>7, <1>8, <1>9, <1>10, <1>11 DEF IInv, StreamInv

\* The frame of the innermost call, and the stream it was given.
LEMMA TopFacts ==
  ASSUME IInv, NEW t \in Threads, stack[t] # <<>>
  PROVE  /\ Top(t).stream \in Streams \cup {Null}
         /\ Top(t).entry = "other" => Top(t).stream = Null
         /\ Top(t).stream # Null =>
              /\ Top(t).stream \in Streams /\ stream[Top(t).stream] \in StreamState
              /\ Top(t).at = "entered" <=> stream[Top(t).stream].owner # "call"
              /\ stream[Top(t).stream].released =
                   IF stream[Top(t).stream].owner = "gone" THEN 1 ELSE 0
<1>1. Len(stack[t]) \in Frames(t) /\ Top(t) \in Frame /\ Top(t) = stack[t][Len(stack[t])]
  BY FrameType DEF IInv, Top
<1>2. FrameInv(t, Len(stack[t]))
  BY <1>1 DEF IInv, StackInv
<1>3. Top(t).stream \in Streams \cup {Null}
  BY <1>1 DEF Frame
<1> QED BY <1>1, <1>2, <1>3 DEF FrameInv, IInv, TypeOK, StreamInv, Counted

\* Callbacks begin and end, and a call without a stream gets to work.
LEMMA CallbackIInv ==
  ASSUME IInv, NEW t \in Threads, CallbackBegins(t) \/ CallbackEnds(t) \/ Begin(t)
  PROVE  IInv'
<1>1. /\ stack[t] # <<>> /\ UNCHANGED <<slot, stream, given, calls>>
      /\ \E p \in {"working", "callback"} : Proceed(t, p)
      /\ Top(t).at = "entered" => Top(t).entry = "other"
      /\ answer' = answer \/ answer' = [answer EXCEPT ![t] = None]
  BY DEF CallbackBegins, CallbackEnds, Begin, InCall
<1>2. PICK p \in {"working", "callback"} : Proceed(t, p)
  BY <1>1
<1>3. TypeOK'
  <2>1. stack' \in [Threads -> Seq(Frame)]
    BY <1>1, <1>2, ProceedStack DEF IInv
  <2> QED BY <1>1, <2>1 DEF IInv, TypeOK
<1>4. \A u \in Threads : SlotAgrees(u)'
  BY <1>1 DEF IInv, TypeOK, SlotAgrees
<1>5. /\ stream' \in [Streams -> StreamState]
      /\ Top(t).stream # Null => stream[Top(t).stream].owner = "call"
  BY <1>1, TopFacts DEF IInv, TypeOK
<1> QED BY <1>1, <1>2, <1>3, <1>4, <1>5, ProceedIInv

\* A refusal before the stream is taken.
LEMMA RefuseEarlyIInv ==
  ASSUME IInv, NEW t \in Threads, RefuseEarly(t)
  PROVE  IInv'
<1>1. /\ stack[t] # <<>> /\ Top(t).at = "entered"
      /\ Top(t).stream = Null \/ Top(t).entry = "write_fragments"
      /\ stream' = stream /\ calls' = calls
  BY DEF RefuseEarly, InCall, RefusesEarly
<1>2. Return(t, "InvalidInput", TRUE) /\ "InvalidInput" \in Outcomes
  BY DEF RefuseEarly, Outcomes, Errors
<1>3. stream' \in [Streams -> StreamState]
  BY <1>1 DEF IInv, TypeOK
<1> QED BY <1>1, <1>2, <1>3, TopFacts, ReturnIInv

\* A call that returns with its stream released, by itself or before it began.
LEMMA DisposeIInv ==
  ASSUME IInv, NEW t \in Threads, stack[t] # <<>>, NEW o \in Outcomes,
         Return(t, o, FALSE), calls' = calls,
         \/ Top(t).stream = Null /\ stream' = stream
         \/ Top(t).stream # Null /\ stream[Top(t).stream].owner = "gone" /\ stream' = stream
         \/ /\ Top(t).stream # Null /\ stream[Top(t).stream].owner # "gone"
            /\ stream' = [stream EXCEPT ![Top(t).stream] = Released(stream[Top(t).stream])]
  PROVE  IInv'
<1> DEFINE s == Top(t).stream
<1>1. stream \in [Streams -> StreamState]
  BY DEF IInv, TypeOK
<1>2. CASE s = Null /\ stream' = stream
  BY <1>1, <1>2, ReturnIInv
<1>3. CASE s # Null /\ stream[s].owner = "gone" /\ stream' = stream
  BY <1>1, <1>3, TopFacts, ReturnIInv
<1>4. CASE /\ s # Null /\ stream[s].owner # "gone"
           /\ stream' = [stream EXCEPT ![s] = Released(stream[s])]
  <2>1. s \in Streams /\ stream[s] \in StreamState /\ stream[s].released = 0
    BY <1>4, TopFacts
  <2>2. /\ stream' \in [Streams -> StreamState]
        /\ stream'[s].owner = "gone" /\ stream'[s].released = 1
        /\ \A r \in Streams : r # s => stream'[r] = stream[r]
    BY <1>1, <1>4, <2>1, ReleasedState
  <2> QED BY <2>2, ReturnIInv
<1> QED BY <1>2, <1>3, <1>4

\* add_columns_stream releases what it rejects.
LEMMA PreflightIInv ==
  ASSUME IInv, NEW t \in Threads, Preflight(t)
  PROVE  IInv'
<1>1. /\ stack[t] # <<>> /\ Top(t).stream # Null /\ calls' = calls
      /\ Return(t, "InvalidInput", FALSE) /\ "InvalidInput" \in Outcomes
  BY DEF Preflight, InCall, Outcomes, Errors
<1>2. stream' = IF stream[Top(t).stream].owner = "gone" THEN stream
                ELSE [stream EXCEPT ![Top(t).stream] = Released(stream[Top(t).stream])]
  BY DEF Preflight
<1> QED BY <1>1, <1>2, DisposeIInv

\* from_raw moves the stream into the call, or releases it.
LEMMA FromRawIInv ==
  ASSUME IInv, NEW t \in Threads, FromRaw(t)
  PROVE  IInv'
<1> DEFINE s == Top(t).stream
<1>1. /\ stack[t] # <<>> /\ s # Null /\ Top(t).at = "entered" /\ calls' = calls
      /\ "InvalidInput" \in Outcomes /\ "panic" \in Outcomes
  BY DEF FromRaw, InCall, Outcomes, Errors
<1>2. CASE stream[s].owner = "gone" /\ Return(t, "InvalidInput", FALSE) /\ UNCHANGED stream
  BY <1>1, <1>2, DisposeIInv
<1>3. CASE /\ stream[s].owner = "caller"
           /\ stream' = [stream EXCEPT ![s] = Released(stream[s])]
           /\ \E o \in {"InvalidInput", "panic"} : Return(t, o, FALSE)
  BY <1>1, <1>3, DisposeIInv
<1>4. CASE /\ stream[s].owner = "caller"
           /\ stream' = [stream EXCEPT ![s].owner = "call"]
           /\ Proceed(t, "working") /\ UNCHANGED <<slot, answer, given>>
  <2>1. s \in Streams /\ stream[s] \in StreamState /\ stream \in [Streams -> StreamState]
    BY <1>1, TopFacts DEF IInv, TypeOK
  <2>2. /\ stream' \in [Streams -> StreamState]
        /\ stream'[s].owner = "call" /\ stream'[s].released = stream[s].released
        /\ \A r \in Streams : r # s => stream'[r] = stream[r]
    BY <1>4, <2>1 DEF StreamState
  <2>3. TypeOK'
    <3>1. stack' \in [Threads -> Seq(Frame)]
      BY <1>1, <1>4, ProceedStack DEF IInv
    <3> QED BY <1>1, <1>4, <2>2, <3>1 DEF IInv, TypeOK
  <2>4. \A u \in Threads : SlotAgrees(u)'
    BY <1>4 DEF IInv, SlotAgrees
  <2> QED BY <1>1, <1>4, <2>2, <2>3, <2>4, ProceedIInv
<1> QED BY <1>2, <1>3, <1>4 DEF FromRaw

\* The work of a call ends, and its reader is dropped.
LEMMA FinishIInv ==
  ASSUME IInv, NEW t \in Threads, NEW o \in Ends, Finish(t, o)
  PROVE  IInv'
<1>1. /\ stack[t] # <<>> /\ Top(t).at = "working" /\ calls' = calls
      /\ Return(t, o, FALSE) /\ o \in Outcomes
  BY BoundaryAssumption DEF Finish, InCall, Outcomes, Ends
<1>2. stream' = IF Top(t).stream = Null THEN stream
                ELSE [stream EXCEPT ![Top(t).stream] = Released(stream[Top(t).stream])]
  BY DEF Finish
<1>3. Top(t).stream # Null => stream[Top(t).stream].owner = "call"
  BY <1>1, TopFacts
<1> QED BY <1>1, <1>2, <1>3, DisposeIInv

\* Every step of the host or of a call preserves the invariant.
LEMMA NextIInv == IInv /\ [Next]_vars => IInv'
<1> SUFFICES ASSUME IInv, [Next]_vars PROVE IInv'
  OBVIOUS
<1>1. ASSUME NEW t \in Threads, NEW e \in Entries, NEW s \in Streams \cup {Null},
             Enter(t, e, s)
      PROVE  IInv'
  BY <1>1, EnterIInv
<1>2. ASSUME NEW t \in Threads, LastErrorMessage(t) \/ CloseHandle(t) PROVE IInv'
  BY <1>2, LastErrorMessageIInv, CloseHandleIInv
<1>3. ASSUME NEW s \in Streams, HostReleases(s) PROVE IInv'
  BY <1>3, HostReleasesIInv
<1>4. ASSUME NEW t \in Threads, CallbackBegins(t) \/ CallbackEnds(t) \/ Begin(t) PROVE IInv'
  BY <1>4, CallbackIInv
<1>5. ASSUME NEW t \in Threads, RefuseEarly(t) \/ Preflight(t) \/ FromRaw(t) PROVE IInv'
  BY <1>5, RefuseEarlyIInv, PreflightIInv, FromRawIInv
<1>6. ASSUME NEW t \in Threads, NEW o \in Ends, Finish(t, o) PROVE IInv'
  BY <1>6, FinishIInv
<1>7. CASE UNCHANGED vars
  <2>1. TypeOK' /\ \A t \in Threads : SlotAgrees(t)'
    BY <1>7 DEF IInv, TypeOK, SlotAgrees, vars
  <2> QED BY <1>7, <2>1, QuietStep DEF vars
<1> QED BY <1>1, <1>2, <1>3, <1>4, <1>5, <1>6, <1>7 DEF Next

LEMMA Inductive == Spec => []IInv
BY InitIInv, NextIInv, PTL DEF Spec

-----------------------------------------------------------------------------
(* Theorems.                                                               *)

\* Every variable of the boundary keeps its type, the code in the slot among
\* the ones error.rs knows.
THEOREM TypeCorrect == Spec => []TypeOK
<1>1. IInv => TypeOK
  BY DEF IInv
<1> QED BY <1>1, Inductive, PTL

\* The slot shows the answer host code has got, for any nesting of callbacks
\* and calls on any number of threads (ffi_guard_with, swallow_unwind).
THEOREM AnswersStay == Spec => []LastErrorIsTheAnswer
<1>1. IInv => LastErrorIsTheAnswer
  BY DEF IInv, SlotAgrees, LastErrorIsTheAnswer
<1> QED BY <1>1, Inductive, PTL

\* The input stream of a call is released exactly once, on every return path,
\* except for an early refusal by lance_write_fragments.
THEOREM StreamsAreConsumed == Spec => []StreamsConsumedOnce
<1>1. IInv => StreamsConsumedOnce
  <2> SUFFICES ASSUME IInv PROVE StreamsConsumedOnce
    OBVIOUS
  <2>1. \A s \in Streams : stream[s].owner = "call" => InUse(s)
    BY InUseFrames DEF IInv, StreamInv, Owned
  <2> QED BY <2>1 DEF IInv, StreamInv, Counted, Disposed, StreamsConsumedOnce
<1> QED BY <1>1, Inductive, PTL

-----------------------------------------------------------------------------
(* Exported streams (GuardedStream).                                       *)

\* The consumer of r has received a panic error.
Told(r) == \E i \in 1..Len(seen[r]) : seen[r][i] = "panic"

\* Nothing but the end follows a panic error.
Terminal(r) == \A i, j \in 1..Len(seen[r]) :
                 i < j /\ seen[r][i] = "panic" => seen[r][j] = "end"

\* Where the panic of a stream is: nowhere, in the item being returned, or in
\* what the consumer has seen.
PanicPlaced(r) ==
  /\ reader[r] \in {"none", "live"} => ~Told(r) /\ item[r].kind # "panic"
  /\ at[r] = "polling" => reader[r] = "live"
  /\ at[r] = "returning" => reader[r] \in {"live", "fused"}
  /\ reader[r] = "fused" /\ at[r] = "idle" => Told(r)
  /\ at[r] = "returning" /\ reader[r] = "fused" =>
       \/ item[r].kind = "panic" /\ ~Told(r)
       \/ item[r].kind = "end" /\ Told(r)
  /\ at[r] = "returning" /\ item[r].kind = "panic" =>
       {owner[r]} \cap Scanners \subseteq flag

\* The inductive invariant.
GuardIInv ==
  /\ GuardTypeOK
  /\ NeverAborts
  /\ \A r \in Exports : item[r].text = "plain"
  /\ \A r \in Exports : PanicPlaced(r) /\ Terminal(r)
  /\ heard \subseteq flag

\* Initially there is no stream and no panic.
LEMMA GuardInitIInv == GuardInit => GuardIInv
<1> SUFFICES ASSUME GuardInit PROVE GuardIInv
  OBVIOUS
<1>1. GuardTypeOK
  <2>1. /\ owner \in [Exports -> Scanners \cup {Unowned}]
        /\ reader \in [Exports -> {"none", "live", "fused", "released"}]
        /\ at \in [Exports -> {"idle", "polling", "returning"}]
        /\ flag \in SUBSET Scanners /\ closed \in SUBSET Scanners
        /\ heard \in SUBSET Scanners /\ aborted \in BOOLEAN
    BY DEF GuardInit
  <2>2. item \in [Exports -> Item]
    BY DEF GuardInit, Item, End, Kinds, Texts
  <2>3. seen \in [Exports -> Seq(Kinds)]
    BY DEF GuardInit
  <2>4. accepted \in [Scanners -> 0..MaxAccepts]
    BY StreamAssumption DEF GuardInit
  <2> QED BY <2>1, <2>2, <2>3, <2>4 DEF GuardTypeOK
<1>2. NeverAborts /\ heard \subseteq flag
  BY DEF GuardInit, NeverAborts
<1>3. \A r \in Exports : item[r].text = "plain"
  BY DEF GuardInit, End
<1>4. ASSUME NEW r \in Exports PROVE PanicPlaced(r) /\ Terminal(r)
  <2>1. /\ reader[r] = "none" /\ at[r] = "idle" /\ item[r].kind = "end"
        /\ seen[r] = <<>>
    BY DEF GuardInit, End
  <2> QED BY <2>1 DEF PanicPlaced, Terminal, Told
<1> QED BY <1>1, <1>2, <1>3, <1>4 DEF GuardIInv

\* A step that leaves every stream alone and only adds to the flags.
LEMMA HostKeeps ==
  ASSUME GuardIInv, UNCHANGED <<owner, reader, at, item, seen, heard, aborted>>,
         flag \subseteq flag', GuardTypeOK'
  PROVE  GuardIInv'
<1>1. \A r \in Exports : PanicPlaced(r)' /\ Terminal(r)'
  BY DEF GuardIInv, PanicPlaced, Terminal, Told
<1> QED BY <1>1 DEF GuardIInv, NeverAborts

\* A step that gives a new stream to a consumer.
LEMMA NewStreamKeeps ==
  ASSUME GuardIInv, NEW r \in Exports, reader[r] = "none",
         reader' = [reader EXCEPT ![r] = "live"],
         \/ owner' = owner
         \/ \E s \in Scanners : owner' = [owner EXCEPT ![r] = s],
         UNCHANGED <<at, item, seen, heard, flag, aborted>>, GuardTypeOK'
  PROVE  GuardIInv'
<1>1. ASSUME NEW q \in Exports PROVE PanicPlaced(q)' /\ Terminal(q)'
  <2>1. Terminal(q)' /\ (Told(q)' <=> Told(q))
    BY DEF GuardIInv, Terminal, Told
  <2>2. CASE q # r
    BY <2>1, <2>2 DEF GuardIInv, GuardTypeOK, PanicPlaced
  <2>3. CASE q = r
    BY <2>1, <2>3 DEF GuardIInv, GuardTypeOK, PanicPlaced
  <2> QED BY <2>1, <2>2, <2>3
<1> QED BY <1>1 DEF GuardIInv, NeverAborts

\* A call that is accepted keeps the count within its bound.
LEMMA AcceptType ==
  ASSUME GuardTypeOK, NEW s \in Scanners, Accept(s)
  PROVE  accepted' \in [Scanners -> 0..MaxAccepts]
BY StreamAssumption DEF GuardTypeOK, Accept

\* Steps of the host preserve the invariant.
LEMMA HostIInv ==
  ASSUME GuardIInv, NEW s \in Scanners, HostStep(s)
  PROVE  GuardIInv'
<1>1. GuardTypeOK
  BY DEF GuardIInv
<1>2. CASE ScannerCall(s)
  BY <1>1, <1>2, AcceptType, HostKeeps DEF ScannerCall, GuardTypeOK, streamVars
<1>3. CASE ExportPanics(s)
  BY <1>1, <1>3, AcceptType, HostKeeps DEF ExportPanics, GuardTypeOK, streamVars
<1>4. CASE Close(s)
  BY <1>1, <1>4, HostKeeps DEF Close, GuardTypeOK, streamVars
<1>5. ASSUME NEW r \in Exports, Export(s, r) PROVE GuardIInv'
  <2>1. GuardTypeOK'
    BY <1>1, <1>5, AcceptType DEF Export, GuardTypeOK
  <2> QED BY <1>5, <2>1, NewStreamKeeps DEF Export
<1>6. ASSUME NEW r \in Exports, AsyncExport(s, r) PROVE GuardIInv'
  <2>1. GuardTypeOK'
    BY <1>1, <1>6 DEF AsyncExport, GuardTypeOK, scannerVars
  <2> QED BY <1>6, <2>1, NewStreamKeeps DEF AsyncExport, scannerVars
<1> QED BY <1>2, <1>3, <1>4, <1>5, <1>6 DEF HostStep

\* Producing an item on stream r: the other streams are not concerned.
LEMMA ProduceIInv ==
  ASSUME GuardIInv, NEW r \in Exports, NEW i \in Item, Produce(r, i),
         at[r] \in {"idle", "polling"},
         i.text = "plain", UNCHANGED <<owner, seen, closed, accepted, heard, aborted>>,
         \/ /\ reader[r] = "live" /\ i.kind # "panic"
            /\ UNCHANGED <<reader, flag>>
         \/ /\ reader[r] = "fused" /\ i.kind = "end" /\ at[r] = "idle"
            /\ UNCHANGED <<reader, flag>>
         \/ /\ reader[r] = "live" /\ i.kind = "panic"
            /\ reader' = [reader EXCEPT ![r] = "fused"]
            /\ flag' = flag \cup ({owner[r]} \cap Scanners)
  PROVE  GuardIInv'
<1>1. GuardTypeOK'
  BY DEF GuardIInv, GuardTypeOK, Produce
<1>2. \A q \in Exports : item'[q].text = "plain"
  BY DEF GuardIInv, GuardTypeOK, Produce
<1>3. ASSUME NEW q \in Exports PROVE PanicPlaced(q)' /\ Terminal(q)'
  <2>1. Terminal(q)' /\ (Told(q)' <=> Told(q))
    BY DEF GuardIInv, Terminal, Told
  <2>2. CASE q # r
    BY <2>1, <2>2 DEF GuardIInv, GuardTypeOK, PanicPlaced, Produce
  <2>3. CASE q = r
    <3>1. at'[r] = "returning" /\ item'[r] = i
      BY DEF GuardIInv, GuardTypeOK, Produce
    <3>2. reader[r] = "live" => ~Told(r)
      BY DEF GuardIInv, PanicPlaced
    <3>3. reader[r] = "fused" /\ at[r] = "idle" => Told(r)
      BY DEF GuardIInv, PanicPlaced
    <3> QED BY <2>1, <2>3, <3>1, <3>2, <3>3 DEF PanicPlaced, GuardIInv, GuardTypeOK
  <2> QED BY <2>1, <2>2, <2>3
<1> QED BY <1>1, <1>2, <1>3 DEF GuardIInv, NeverAborts

\* Returning the item of stream r to its consumer.
LEMMA ItemReturnIInv ==
  ASSUME GuardIInv, NEW r \in Exports, ReturnItem(r)
  PROVE  GuardIInv'
<1> DEFINE kind == item[r].kind
<1>1. /\ at[r] = "returning" /\ at' = [at EXCEPT ![r] = "idle"]
      /\ seen' = [seen EXCEPT ![r] = Append(@, kind)]
      /\ item' = [item EXCEPT ![r] = End]
      /\ UNCHANGED <<owner, reader, flag, closed, accepted>>
  BY DEF ReturnItem
<1>2. kind \in Kinds /\ seen[r] \in Seq(Kinds) /\ item[r].text = "plain"
  BY DEF GuardIInv, GuardTypeOK, Item
<1>3. ~aborted'
  BY <1>2 DEF ReturnItem, GuardIInv, NeverAborts
<1>4. heard' \subseteq flag'
  <2>1. kind = "panic" => {owner[r]} \cap Scanners \subseteq flag
    BY <1>1 DEF GuardIInv, PanicPlaced
  <2> QED BY <1>1, <2>1 DEF ReturnItem, GuardIInv
<1>5. End \in Item /\ End.text = "plain" /\ End.kind = "end"
  BY DEF End, Item, Kinds, Texts
<1>6. GuardTypeOK'
  <2>1. seen' \in [Exports -> Seq(Kinds)]
    BY <1>1, <1>2 DEF GuardIInv, GuardTypeOK
  <2>2. item' \in [Exports -> Item]
    BY <1>1, <1>5 DEF GuardIInv, GuardTypeOK
  <2>3. heard' \in SUBSET Scanners
    BY DEF ReturnItem, GuardIInv, GuardTypeOK
  <2>4. aborted' \in BOOLEAN
    BY Zenon DEF ReturnItem
  <2>5. at' \in [Exports -> {"idle", "polling", "returning"}]
    BY <1>1 DEF GuardIInv, GuardTypeOK
  <2> QED BY <1>1, <2>1, <2>2, <2>3, <2>4, <2>5 DEF GuardIInv, GuardTypeOK
<1>7. \A q \in Exports : item'[q].text = "plain"
  BY <1>1, <1>5 DEF GuardIInv, GuardTypeOK
<1>8. ASSUME NEW q \in Exports PROVE PanicPlaced(q)' /\ Terminal(q)'
  <2>1. CASE q # r
    <3>1. seen'[q] = seen[q] /\ at'[q] = at[q] /\ item'[q] = item[q]
      BY <1>1, <2>1 DEF GuardIInv, GuardTypeOK
    <3>2. Terminal(q)' /\ (Told(q)' <=> Told(q))
      BY <3>1 DEF GuardIInv, Terminal, Told
    <3> QED BY <1>1, <3>1, <3>2 DEF GuardIInv, PanicPlaced
  <2>2. CASE q = r
    <3>1. /\ seen'[r] = Append(seen[r], kind) /\ at'[r] = "idle"
          /\ item'[r] = End
      BY <1>1 DEF GuardIInv, GuardTypeOK
    <3>2. /\ Len(seen'[r]) = Len(seen[r]) + 1 /\ Len(seen[r]) \in Nat
          /\ \A i \in 1..Len(seen[r]) : seen'[r][i] = seen[r][i]
          /\ seen'[r][Len(seen[r]) + 1] = kind
      BY <1>2, <3>1
    <3>3. Told(r)' <=> (Told(r) \/ kind = "panic")
      BY <3>2 DEF Told
    <3>4. /\ reader[r] = "live" => ~Told(r) /\ kind # "panic"
          /\ reader[r] = "fused" => \/ kind = "panic" /\ ~Told(r)
                                    \/ kind = "end" /\ Told(r)
          /\ reader[r] \in {"live", "fused"}
      BY <1>1 DEF GuardIInv, PanicPlaced
    <3>5. PanicPlaced(r)'
      BY <1>1, <1>5, <3>1, <3>3, <3>4 DEF PanicPlaced
    <3>6. Terminal(r)'
      <4>1. Terminal(r)
        BY DEF GuardIInv
      <4>2. Told(r) => kind = "end"
        BY <3>4
      <4>3. ASSUME NEW i \in 1..Len(seen'[r]), NEW j \in 1..Len(seen'[r]),
                   i < j, seen'[r][i] = "panic"
            PROVE  seen'[r][j] = "end"
        <5>1. i \in 1..Len(seen[r]) /\ seen[r][i] = "panic"
          BY <3>2, <4>3
        <5>2. CASE j \in 1..Len(seen[r])
          BY <3>2, <4>1, <4>3, <5>1, <5>2 DEF Terminal
        <5>3. CASE j = Len(seen[r]) + 1
          BY <3>2, <4>2, <5>1, <5>3 DEF Told
        <5> QED BY <3>2, <5>2, <5>3
      <4> QED BY <4>3 DEF Terminal
    <3> QED BY <2>2, <3>5, <3>6
  <2> QED BY <2>1, <2>2
<1> QED BY <1>3, <1>4, <1>6, <1>7, <1>8 DEF GuardIInv, NeverAborts

\* Steps of a consumer preserve the invariant.
LEMMA ConsumerIInv ==
  ASSUME GuardIInv, NEW r \in Exports, ConsumerStep(r)
  PROVE  GuardIInv'
<1> USE DEF scannerVars
<1>1. End \in Item /\ End.text = "plain" /\ End.kind = "end"
  BY DEF End, Item, Kinds, Texts
<1>2. CASE GetNext(r)
  <2>1. CASE reader[r] = "fused" /\ Produce(r, End)
    BY <1>1, <1>2, <2>1, ProduceIInv DEF GetNext
  <2>2. CASE reader[r] = "live" /\ at' = [at EXCEPT ![r] = "polling"] /\ UNCHANGED item
    <3>1. GuardTypeOK'
      BY <1>2, <2>2 DEF GetNext, GuardIInv, GuardTypeOK
    <3>2. ASSUME NEW q \in Exports PROVE PanicPlaced(q)' /\ Terminal(q)'
      <4>1. Terminal(q)' /\ (Told(q)' <=> Told(q))
        BY <1>2 DEF GetNext, GuardIInv, Terminal, Told
      <4> QED BY <1>2, <2>2, <4>1 DEF GetNext, GuardIInv, GuardTypeOK, PanicPlaced
    <3> QED BY <1>2, <2>2, <3>1, <3>2 DEF GetNext, GuardIInv, NeverAborts
  <2> QED BY <1>2, <2>1, <2>2 DEF GetNext
<1>3. CASE ReturnItem(r)
  BY <1>3, ItemReturnIInv
<1>4. ASSUME NEW kind \in {"batch", "end"}, PollOk(r, kind) PROVE GuardIInv'
  <2> DEFINE i == [kind |-> kind, text |-> "plain"]
  <2>1. i \in Item /\ i.text = "plain" /\ i.kind # "panic"
    BY <1>4 DEF Item, Kinds, Texts
  <2>2. at[r] = "polling" /\ reader[r] = "live"
    BY <1>4 DEF PollOk, GuardIInv, PanicPlaced
  <2> QED BY <1>4, <2>1, <2>2, ProduceIInv DEF PollOk
<1>5. ASSUME NEW text \in Texts, PollErr(r, text) PROVE GuardIInv'
  <2> DEFINE i == [kind |-> "error", text |-> SafeText(text)]
  <2>1. SafeText(text) = "plain"
    BY <1>5 DEF PollErr, SafeText, Texts
  <2>2. i \in Item /\ i.text = "plain" /\ i.kind # "panic"
    BY <2>1 DEF Item, Kinds, Texts
  <2>3. at[r] = "polling" /\ reader[r] = "live"
    BY <1>5 DEF PollErr, GuardIInv, PanicPlaced
  <2> QED BY <1>5, <2>2, <2>3, ProduceIInv DEF PollErr
<1>6. ASSUME NEW text \in {"plain", "nul"}, PollPanics(r, text) PROVE GuardIInv'
  <2> DEFINE i == [kind |-> "panic", text |-> SafeText(text)]
  <2>1. SafeText(text) = "plain"
    BY <1>6 DEF SafeText
  <2>2. i \in Item /\ i.text = "plain" /\ i.kind = "panic"
    BY <2>1 DEF Item, Kinds, Texts
  <2>3. at[r] = "polling" /\ reader[r] = "live"
    BY <1>6 DEF PollPanics, GuardIInv, PanicPlaced
  <2> QED BY <1>6, <2>2, <2>3, ProduceIInv DEF PollPanics
<1>7. CASE Release(r)
  <2>1. GuardTypeOK'
    BY <1>7 DEF Release, GuardIInv, GuardTypeOK
  <2>2. ASSUME NEW q \in Exports PROVE PanicPlaced(q)' /\ Terminal(q)'
    <3>1. Terminal(q)' /\ (Told(q)' <=> Told(q))
      BY <1>7 DEF Release, GuardIInv, Terminal, Told
    <3> QED BY <1>7, <3>1 DEF Release, GuardIInv, GuardTypeOK, PanicPlaced
  <2> QED BY <1>7, <2>1, <2>2 DEF Release, GuardIInv, NeverAborts
<1> QED BY <1>2, <1>3, <1>4, <1>5, <1>6, <1>7 DEF ConsumerStep

\* The inductive invariant holds of every behaviour of hosts and consumers.
THEOREM GuardInvariance == GuardSpec => []GuardIInv
<1>1. GuardInit => GuardIInv
  BY GuardInitIInv
<1>2. GuardIInv /\ [GuardNext]_guardVars => GuardIInv'
  <2> SUFFICES ASSUME GuardIInv, [GuardNext]_guardVars PROVE GuardIInv'
    OBVIOUS
  <2>1. ASSUME NEW r \in Exports, ExportReader(r) PROVE GuardIInv'
    <3>1. GuardTypeOK'
      BY <2>1 DEF ExportReader, GuardIInv, GuardTypeOK, scannerVars
    <3> QED BY <2>1, <3>1, NewStreamKeeps DEF ExportReader, scannerVars
  <2>2. CASE UNCHANGED guardVars
    <3>1. GuardTypeOK'
      BY <2>2 DEF guardVars, streamVars, scannerVars, GuardIInv, GuardTypeOK
    <3> QED BY <2>2, <3>1, HostKeeps DEF guardVars, streamVars, scannerVars
  <2> QED BY <2>1, <2>2, HostIInv, ConsumerIInv DEF GuardNext
<1> QED BY <1>1, <1>2, PTL DEF GuardSpec

\* The state of readers, streams and scanners is well typed.
THEOREM GuardTypeCorrect == GuardSpec => []GuardTypeOK
<1>1. GuardIInv => GuardTypeOK
  BY DEF GuardIInv
<1> QED BY <1>1, GuardInvariance, PTL

\* No panic leaves a callback of arrow-rs.
THEOREM CallbacksDoNotUnwind == GuardSpec => []NeverAborts
<1>1. GuardIInv => NeverAborts
  BY DEF GuardIInv
<1> QED BY <1>1, GuardInvariance, PTL

\* A panic is one terminal error item, in streams of any length.
THEOREM OneTerminalError == GuardSpec => []PanicReportedOnce
<1>1. GuardIInv => PanicReportedOnce
  BY DEF GuardIInv, PanicReportedOnce, PanicPlaced, Terminal, Told
<1> QED BY <1>1, GuardInvariance, PTL

\* A scanner whose stream's panic has been received accepts no call.
THEOREM PoisonFirst == GuardSpec => PoisonPrecedesNews
<1>1. GuardIInv /\ [GuardNext]_guardVars
        => [\A s \in heard : accepted'[s] = accepted[s]]_guardVars
  <2> SUFFICES ASSUME GuardIInv, GuardNext, NEW s \in heard
               PROVE  accepted'[s] = accepted[s]
    BY DEF guardVars
  <2>1. s \in flag /\ s \in Scanners
    BY DEF GuardIInv, GuardTypeOK
  <2>2. ASSUME NEW q \in Scanners, Accept(q) PROVE accepted'[s] = accepted[s]
    BY <2>1, <2>2 DEF Accept, GuardIInv, GuardTypeOK
  <2>3. ASSUME NEW q \in Scanners, HostStep(q) PROVE accepted'[s] = accepted[s]
    BY <2>2, <2>3 DEF HostStep, ScannerCall, ExportPanics, Close, Export,
       AsyncExport, scannerVars
  <2>4. ASSUME NEW r \in Exports, ExportReader(r) \/ ConsumerStep(r)
        PROVE  accepted'[s] = accepted[s]
    BY <2>4 DEF ExportReader, ConsumerStep, GetNext, ReturnItem, PollOk, PollErr,
       PollPanics, Release, scannerVars
  <2> QED BY <2>3, <2>4 DEF GuardNext
<1> QED BY <1>1, GuardInvariance, PTL DEF GuardSpec, PoisonPrecedesNews
=============================================================================

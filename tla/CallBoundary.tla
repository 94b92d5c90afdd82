---------------------------- MODULE CallBoundary ----------------------------
(***************************************************************************)
(* What every synchronous entry point does at the C boundary: the panic    *)
(* firewall and the thread-local last error (src/src/error.rs), and the    *)
(* ownership of the Arrow C stream that lance_dataset_write                *)
(* (writer.rs), lance_dataset_merge_insert (merge_insert.rs),              *)
(* lance_dataset_add_columns_stream (add_columns.rs) and                   *)
(* lance_write_fragments (fragment_writer.rs) take from their caller.      *)
(*                                                                         *)
(* A call may run host code on its own thread before it returns: the       *)
(* callbacks of an input stream, a statistics callback.  That code may     *)
(* make further calls, so a thread has a stack of them.                    *)
(***************************************************************************)
EXTENDS Naturals, Sequences

CONSTANTS Threads,   \* host threads
          Streams,   \* Arrow C streams the host has produced
          Null,      \* a NULL stream, or the stream of a call that takes none
          Failures,  \* the errors the work of a call may end with
          MaxCalls,  \* bound on the calls made
          MaxDepth   \* bound on the calls in progress on a thread

\* lance_core::Error variants the mapping tells apart, and an external error
\* whose Display panics.
Errors == {"InvalidInput", "DatasetAlreadyExists", "CommitConflict", "NotFound",
           "IO", "Index", "NotSupported", "Other", "Explosive"}

ASSUME BoundaryAssumption ==
  /\ Null \notin Streams
  /\ Failures \subseteq Errors
  /\ MaxCalls \in Nat /\ MaxDepth \in Nat

VARIABLES
  stack,   \* the calls in progress on each thread, the innermost last
  slot,    \* LAST_ERROR of each thread
  answer,  \* history: the last call host code on this thread has got an
           \* answer of, until it makes another or takes the message
  stream,  \* each input stream
  given,   \* history: the calls that have returned and the stream each was given
  calls    \* the number of calls made

vars == <<stack, slot, answer, stream, given, calls>>

StreamEntries == {"write", "merge_insert", "add_columns", "write_fragments"}
Entries == StreamEntries \cup {"other"}

\* How a call ends.
Outcomes == Errors \cup {"ok", "panic"}
Ends == Failures \cup {"ok", "panic"}

Codes == {"InvalidArgument", "IoError", "NotFound", "DatasetAlreadyExists",
          "IndexError", "Internal", "NotSupported", "CommitConflict", "Panic"}

\* "NotFound" stands for DatasetNotFound and IndexNotFound as well.
error_code_from_lance(e) ==
  CASE e = "InvalidInput" -> "InvalidArgument"
    [] e = "DatasetAlreadyExists" -> "DatasetAlreadyExists"
    [] e = "CommitConflict" -> "CommitConflict"
    [] e = "NotFound" -> "NotFound"
    [] e = "IO" -> "IoError"
    [] e = "Index" -> "IndexError"
    [] e = "NotSupported" -> "NotSupported"
    [] OTHER -> "Internal"

NoError == [code |-> "Ok", by |-> 0]
None == [call |-> 0, outcome |-> "ok"]

\* "entered" validates its arguments, "working" owns its stream, "callback"
\* runs host code.
Frame == [call : 1..MaxCalls, entry : Entries, stream : Streams \cup {Null},
          at : {"entered", "working", "callback"}]

\* The struct of a stream is with the "caller", moved into a "call", or "gone":
\* its release callback is NULL.  "incomplete" lacks get_schema or get_next;
\* get_schema of "broken" fails.
Shapes == {"complete", "incomplete", "broken"}
StreamState == [owner : {"caller", "call", "gone"}, shape : Shapes, released : Nat]

TypeOK ==
  /\ stack \in [Threads -> Seq(Frame)]
  /\ slot \in [Threads -> [code : Codes, by : 1..MaxCalls] \cup {NoError}]
  /\ answer \in [Threads -> [call : 1..MaxCalls, outcome : Outcomes] \cup {None}]
  /\ stream \in [Streams -> StreamState]
  /\ given \in SUBSET [entry : StreamEntries, stream : Streams, early : BOOLEAN]
  /\ calls \in 0..MaxCalls

Init ==
  /\ stack = [t \in Threads |-> <<>>]
  /\ slot = [t \in Threads |-> NoError]
  /\ answer = [t \in Threads |-> None]
  /\ stream \in [Streams -> [owner : {"caller"}, shape : Shapes, released : {0}]]
  /\ given = {}
  /\ calls = 0

Top(t) == stack[t][Len(stack[t])]
InCall(t, at) == stack[t] # <<>> /\ Top(t).at = at

\* The innermost call of t proceeds to p.
Proceed(t, p) ==
  stack' = [stack EXCEPT ![t] = [@ EXCEPT ![Len(stack[t])] = [Top(t) EXCEPT !.at = p]]]

\* Host code runs on the thread: no call, or a callback of the innermost one.
AtHost(t) == stack[t] # <<>> => Top(t).at = "callback"

-----------------------------------------------------------------------------
(* The firewall: ffi_guard_with around a body with the given outcome.      *)

\* Wrong variant: the slot is cleared when a call begins, not when it succeeds.
GuardClearsAtEntry(old, call, o) ==
  CASE o = "ok" -> old
    [] o \in {"panic", "Explosive"} -> [code |-> "Panic", by |-> call]
    [] OTHER -> [code |-> error_code_from_lance(o), by |-> call]

\* What the slot holds after the call.  An error whose text cannot be
\* formatted is a panic of the mapping, which the guard includes.
ffi_guard_with(old, call, o) ==
  CASE o = "ok" -> NoError
    [] o \in {"panic", "Explosive"} -> [code |-> "Panic", by |-> call]
    [] OTHER -> [code |-> error_code_from_lance(o), by |-> call]

\* The innermost call of t ends with outcome o; early tells whether it never
\* got as far as its stream.
Return(t, o, early) ==
  LET f == Top(t) IN
  /\ slot' = [slot EXCEPT ![t] = ffi_guard_with(slot[t], f.call, o)]
  /\ answer' = [answer EXCEPT ![t] = [call |-> f.call, outcome |-> o]]
  /\ stack' = [stack EXCEPT ![t] = SubSeq(@, 1, Len(@) - 1)]
  /\ given' = IF f.stream = Null THEN given
              ELSE given \cup {[entry |-> f.entry, stream |-> f.stream,
                                early |-> early]}

-----------------------------------------------------------------------------
(* The host.                                                               *)

\* A call in progress has been given stream s.
InUse(s) == \E t \in Threads, i \in 1..MaxDepth :
              i <= Len(stack[t]) /\ stack[t][i].stream = s

\* Host code makes a call.  It may pass a stream again that an earlier call
\* has consumed; it does not use one that a call in progress has.
Enter(t, e, s) ==
  /\ AtHost(t)
  /\ calls < MaxCalls
  /\ Len(stack[t]) < MaxDepth
  /\ e = "other" => s = Null
  /\ s # Null => ~InUse(s)
  /\ calls' = calls + 1
  /\ stack' = [stack EXCEPT ![t] = Append(@,
                 [call |-> calls', entry |-> e, stream |-> s, at |-> "entered"])]
  /\ answer' = [answer EXCEPT ![t] = None]
  /\ UNCHANGED <<slot, stream, given>>

\* lance_last_error_message takes the error out of the slot.
LastErrorMessage(t) ==
  /\ AtHost(t)
  /\ slot[t] # NoError
  /\ slot' = [slot EXCEPT ![t] = NoError]
  /\ answer' = [answer EXCEPT ![t] = None]
  /\ UNCHANGED <<stack, stream, given, calls>>

\* Wrong variant: close goes through the guard of the fallible calls.
CloseHandleGuarded(t) ==
  /\ AtHost(t)
  /\ calls < MaxCalls
  /\ calls' = calls + 1
  /\ slot' = [slot EXCEPT ![t] = NoError]
  /\ UNCHANGED <<stack, answer, stream, given>>

\* swallow_unwind: a void close or free, whose destructor may panic, leaves the
\* slot alone.
CloseHandle(t) ==
  /\ AtHost(t)
  /\ calls < MaxCalls
  /\ calls' = calls + 1
  /\ UNCHANGED <<stack, slot, answer, stream, given>>

\* The release callback runs; the struct shows it.
Released(s) == [owner |-> "gone", shape |-> s.shape, released |-> s.released + 1]

\* The host releases a stream whose struct still has its release callback.
HostReleases(s) ==
  /\ ~InUse(s)
  /\ stream[s].owner = "caller"
  /\ stream' = [stream EXCEPT ![s] = Released(@)]
  /\ UNCHANGED <<stack, slot, answer, given, calls>>

\* The call invokes a callback of the host, which returns.
CallbackBegins(t) ==
  /\ InCall(t, "working")
  /\ Proceed(t, "callback")
  /\ answer' = [answer EXCEPT ![t] = None]
  /\ UNCHANGED <<slot, stream, given, calls>>

CallbackEnds(t) ==
  /\ InCall(t, "callback")
  /\ Proceed(t, "working")
  /\ UNCHANGED <<slot, answer, stream, given, calls>>

-----------------------------------------------------------------------------
(* The bodies of the calls.                                                *)

\* Wrong variant: lance_dataset_write checks its URI before it takes the stream.
RefusesEarlyAlways(e) == e \in {"write", "write_fragments"}

\* lance_write_fragments validates URI, schema and options before it takes the
\* stream; the others only reject a NULL stream.
RefusesEarly(e) == e = "write_fragments"

\* A check that precedes the stream fails.
RefuseEarly(t) ==
  LET f == Top(t) IN
  /\ InCall(t, "entered")
  /\ f.entry \in StreamEntries
  /\ f.stream = Null \/ RefusesEarly(f.entry)
  /\ Return(t, "InvalidInput", TRUE)
  /\ UNCHANGED <<stream, calls>>

\* A call without a stream gets to work.
Begin(t) ==
  /\ InCall(t, "entered")
  /\ Top(t).entry = "other"
  /\ Proceed(t, "working")
  /\ UNCHANGED <<slot, answer, stream, given, calls>>

\* Wrong variant: the release callback is invoked and stays in the struct.
PreflightForgetsNull(t) ==
  LET s == Top(t).stream IN
  /\ InCall(t, "entered")
  /\ Top(t).entry = "add_columns"
  /\ s # Null
  /\ stream[s].owner = "gone" \/ stream[s].shape = "incomplete"
  /\ stream' = IF stream[s].owner = "gone" THEN stream
               ELSE [stream EXCEPT ![s].released = @ + 1]
  /\ Return(t, "InvalidInput", FALSE)
  /\ UNCHANGED calls

\* add_columns rejects a stream that lacks a callback before arrow-rs sees it
\* and releases it itself, if there is anything to release.
Preflight(t) ==
  LET s == Top(t).stream IN
  /\ InCall(t, "entered")
  /\ Top(t).entry = "add_columns"
  /\ s # Null
  /\ stream[s].owner = "gone" \/ stream[s].shape = "incomplete"
  /\ stream' = IF stream[s].owner = "gone" THEN stream
               ELSE [stream EXCEPT ![s] = Released(@)]
  /\ Return(t, "InvalidInput", FALSE)
  /\ UNCHANGED calls

\* ArrowArrayStreamReader::from_raw (external) moves the struct out and asks
\* for the schema.  It fails on a struct that was already released and on a
\* failing get_schema, and unwraps a get_schema that is not there; what it has
\* moved is dropped, which releases it.  A struct that only lacks get_next is
\* taken over: the first pull will panic.
FromRaw(t) ==
  LET f == Top(t)
      s == f.stream
  IN
  /\ InCall(t, "entered")
  /\ s # Null
  /\ f.entry = "add_columns" =>
       stream[s].owner # "gone" /\ stream[s].shape # "incomplete"
  /\ \/ /\ stream[s].owner = "gone"
        /\ Return(t, "InvalidInput", FALSE)
        /\ UNCHANGED stream
     \/ /\ stream[s].owner = "caller" /\ stream[s].shape # "complete"
        /\ stream' = [stream EXCEPT ![s] = Released(@)]
        /\ Return(t, IF stream[s].shape = "broken" THEN "InvalidInput" ELSE "panic", FALSE)
     \/ /\ stream[s].owner = "caller" /\ stream[s].shape # "broken"
        /\ stream' = [stream EXCEPT ![s].owner = "call"]
        /\ Proceed(t, "working")
        /\ UNCHANGED <<slot, answer, given>>
  /\ UNCHANGED calls

\* The work pulls its stream to the end, so it cannot succeed without get_next.
MaySucceed(s) == s # Null => stream[s].shape = "complete"

\* Wrong variant: the reader is forgotten when the body panics.
FinishLeaksOnPanic(t, o) ==
  LET s == Top(t).stream IN
  /\ InCall(t, "working")
  /\ o = "ok" => MaySucceed(s)
  /\ stream' = IF s = Null \/ o = "panic" THEN stream
               ELSE [stream EXCEPT ![s] = Released(@)]
  /\ Return(t, o, FALSE)
  /\ UNCHANGED calls

\* A later check fails, the work fails or panics, or it succeeds: the reader is
\* dropped on every path, by unwinding too.
Finish(t, o) ==
  LET s == Top(t).stream IN
  /\ InCall(t, "working")
  /\ o = "ok" => MaySucceed(s)
  /\ stream' = IF s = Null THEN stream ELSE [stream EXCEPT ![s] = Released(@)]
  /\ Return(t, o, FALSE)
  /\ UNCHANGED calls

-----------------------------------------------------------------------------

Next ==
  \/ \E t \in Threads, e \in Entries, s \in Streams \cup {Null} : Enter(t, e, s)
  \/ \E t \in Threads : LastErrorMessage(t) \/ CloseHandle(t)
  \/ \E s \in Streams : HostReleases(s)
  \/ \E t \in Threads : CallbackBegins(t) \/ CallbackEnds(t)
  \/ \E t \in Threads : RefuseEarly(t) \/ Begin(t) \/ Preflight(t) \/ FromRaw(t)
  \/ \E t \in Threads, o \in Ends : Finish(t, o)

Spec == Init /\ [][Next]_vars

-----------------------------------------------------------------------------
(* Properties.                                                             *)

\* Host code that has got an answer finds it in its thread's slot until it
\* makes the next fallible call or takes the message: empty after a success,
\* the error of this very call after a failure, and a panic told apart from
\* an error.  Calls made by callbacks inside the call, calls of other threads
\* and handles closed on the way out do not disturb it.
LastErrorIsTheAnswer ==
  \A t \in Threads : AtHost(t) /\ answer[t] # None =>
    LET a == answer[t] IN
    /\ a.outcome = "ok" => slot[t] = NoError
    /\ a.outcome # "ok" => slot[t].by = a.call
    /\ slot[t].code = "Panic" <=> a.outcome \in {"panic", "Explosive"}

\* Ownership of input streams.  A stream is released at most once, however
\* often and to whichever calls the host passes it; one that was moved out of
\* the caller's struct belongs to a call in progress, so it is not leaked; and
\* when a call returns, its stream has been released whatever the answer is,
\* also when the call refused or panicked.  What the code keeps to is less than
\* what lance_write_fragments promises: see GivenStreamsAreConsumed for the
\* early refusals excepted here.
StreamsConsumedOnce ==
  /\ \A s \in Streams :
       /\ stream[s].released = IF stream[s].owner = "gone" THEN 1 ELSE 0
       /\ stream[s].owner = "call" => InUse(s)
  /\ \A g \in given :
       stream[g.stream].owner = "gone" \/ (g.early /\ g.entry = "write_fragments")

\* The promise of every call that takes a stream, lance_write_fragments among
\* them: "Arrow C Data Interface stream consumed by this call.  The caller must
\* not use the stream after this function returns."  A caller that keeps to it
\* and does not release the stream leaks it when lance_write_fragments refuses
\* its URI, schema or options before it looks at the stream.
GivenStreamsAreConsumed == \A g \in given : stream[g.stream].owner = "gone"
=============================================================================

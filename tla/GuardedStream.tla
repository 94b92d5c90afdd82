---------------------------- MODULE GuardedStream ----------------------------
(***************************************************************************)
(* Exported Arrow streams (src/src/stream_guard.rs): GuardedReader, over a *)
(* Lance stream of a scanner, and GuardedRecordBatchReader, over batches   *)
(* already in memory.                                                      *)
(*                                                                         *)
(* A consumer drives its stream through arrow-rs callbacks that must not   *)
(* unwind, on a thread of its own, while the host goes on using the        *)
(* scanner or closes it.  A panic that leaves a callback aborts the        *)
(* process.  Of an error only the text's effect on arrow-rs is kept:       *)
(* "plain" text, text with a "nul" byte, which CString::new panics on, and *)
(* an "explosive" source whose Display panics.                             *)
(***************************************************************************)
EXTENDS Naturals, Sequences

CONSTANTS Scanners,  \* scanner handles
          Exports,   \* exported streams
          Unowned,   \* owner of a stream over batches in memory
          MaxItems,  \* bound on the get_next calls of a stream
          MaxAccepts \* bound on the calls on a scanner

ASSUME StreamAssumption ==
  /\ Unowned \notin Scanners
  /\ MaxItems \in Nat /\ MaxAccepts \in Nat

VARIABLES
  owner,     \* the scanner each stream shares its poison flag with
  reader,    \* "none", "live", "fused" after a panic, "released"
  at,        \* the consumer of each stream: "idle", "polling", "returning"
  item,      \* what the get_next in progress hands to arrow-rs
  seen,      \* history: the kinds of items each consumer has received
  flag,      \* scanners whose poison flag is set
  closed,    \* scanners that have been closed
  accepted,  \* calls each scanner has accepted
  heard,     \* history: scanners a consumer has seen a panic error of
  aborted    \* a panic has left a callback

streamVars == <<owner, reader, at, item, seen>>
scannerVars == <<flag, closed, accepted, heard>>
guardVars == <<streamVars, scannerVars, aborted>>

Texts == {"plain", "nul", "explosive"}
Kinds == {"batch", "end", "error", "panic"}
Item == [kind : Kinds, text : Texts]
End == [kind |-> "end", text |-> "plain"]

GuardTypeOK ==
  /\ owner \in [Exports -> Scanners \cup {Unowned}]
  /\ reader \in [Exports -> {"none", "live", "fused", "released"}]
  /\ at \in [Exports -> {"idle", "polling", "returning"}]
  /\ item \in [Exports -> Item]
  /\ seen \in [Exports -> Seq(Kinds)]
  /\ flag \in SUBSET Scanners
  /\ closed \in SUBSET Scanners
  /\ accepted \in [Scanners -> 0..MaxAccepts]
  /\ heard \in SUBSET Scanners
  /\ aborted \in BOOLEAN

GuardInit ==
  /\ owner = [r \in Exports |-> Unowned]
  /\ reader = [r \in Exports |-> "none"]
  /\ at = [r \in Exports |-> "idle"]
  /\ item = [r \in Exports |-> End]
  /\ seen = [r \in Exports |-> <<>>]
  /\ flag = {} /\ closed = {} /\ heard = {}
  /\ accepted = [s \in Scanners |-> 0]
  /\ aborted = FALSE

-----------------------------------------------------------------------------
(* The host: calls on a scanner and exports.                               *)

\* scanner_poison_check lets a call on an open scanner in.
Accept(s) ==
  /\ s \notin closed
  /\ s \notin flag
  /\ accepted[s] < MaxAccepts
  /\ accepted' = [accepted EXCEPT ![s] = @ + 1]

\* A call that exports nothing: a setter, lance_scanner_next, poll_next.
ScannerCall(s) ==
  /\ Accept(s)
  /\ UNCHANGED <<streamVars, flag, closed, heard, aborted>>

\* lance_scanner_to_arrow_stream: GuardedReader::new has converted the schema
\* once and shares the scanner's poison flag.
Export(s, r) ==
  /\ Accept(s)
  /\ reader[r] = "none"
  /\ reader' = [reader EXCEPT ![r] = "live"]
  /\ owner' = [owner EXCEPT ![r] = s]
  /\ UNCHANGED <<at, item, seen, flag, closed, heard, aborted>>

\* The task of an earlier scan_async call exports its stream, the scanner by
\* then poisoned or closed or not.
AsyncExport(s, r) ==
  /\ accepted[s] > 0
  /\ reader[r] = "none"
  /\ reader' = [reader EXCEPT ![r] = "live"]
  /\ owner' = [owner EXCEPT ![r] = s]
  /\ UNCHANGED <<at, item, seen, scannerVars, aborted>>

\* preflight_schema refuses the schema: GuardedReader::new panics inside the
\* guard of the exporting call, which poisons the scanner.
ExportPanics(s) ==
  /\ Accept(s)
  /\ flag' = flag \cup {s}
  /\ UNCHANGED <<streamVars, closed, heard, aborted>>

\* guarded_ffi_stream_from_reader; a schema it refuses is an ordinary error.
ExportReader(r) ==
  /\ reader[r] = "none"
  /\ reader' = [reader EXCEPT ![r] = "live"]
  /\ UNCHANGED <<owner, at, item, seen, scannerVars, aborted>>

\* lance_scanner_close: the streams keep the flag alive.
Close(s) ==
  /\ s \notin closed
  /\ closed' = closed \cup {s}
  /\ UNCHANGED <<streamVars, flag, accepted, heard, aborted>>

-----------------------------------------------------------------------------
(* A consumer: get_next and release.                                       *)

\* The reader has produced an item for the get_next in progress.
Produce(r, i) ==
  /\ at' = [at EXCEPT ![r] = "returning"]
  /\ item' = [item EXCEPT ![r] = i]

\* Wrong variant: a fused reader polls its stream again.
GetNextNotFused(r) ==
  /\ reader[r] \in {"live", "fused"}
  /\ at[r] = "idle"
  /\ Len(seen[r]) < MaxItems
  /\ at' = [at EXCEPT ![r] = "polling"]
  /\ UNCHANGED <<owner, reader, item, seen, scannerVars, aborted>>

\* next: a fused reader is at its end without touching its stream.
GetNext(r) ==
  /\ reader[r] \in {"live", "fused"}
  /\ at[r] = "idle"
  /\ Len(seen[r]) < MaxItems
  /\ \/ reader[r] = "fused" /\ Produce(r, End)
     \/ /\ reader[r] = "live"
        /\ at' = [at EXCEPT ![r] = "polling"]
        /\ UNCHANGED item
  /\ UNCHANGED <<owner, reader, seen, scannerVars, aborted>>

\* ffi_safe_stream_error: NUL bytes are replaced.
SafeText(text) == IF text = "nul" THEN "plain" ELSE text

\* Wrong variant: the error goes to arrow-rs undetached and is formatted there.
PollErrUnformatted(r, text) ==
  /\ at[r] = "polling"
  /\ Produce(r, [kind |-> "error", text |-> text])
  /\ UNCHANGED <<owner, reader, seen, scannerVars, aborted>>

\* The stream yields a batch or its end.
PollOk(r, kind) ==
  /\ at[r] = "polling"
  /\ Produce(r, [kind |-> kind, text |-> "plain"])
  /\ UNCHANGED <<owner, reader, seen, scannerVars, aborted>>

\* The stream yields an error; it is formatted and detached under the guard.
PollErr(r, text) ==
  /\ at[r] = "polling"
  /\ text # "explosive"
  /\ Produce(r, [kind |-> "error", text |-> SafeText(text)])
  /\ UNCHANGED <<owner, reader, seen, scannerVars, aborted>>

\* Wrong variant: the scanner is not told.
PollPanicsUnpoisoned(r, text) ==
  /\ at[r] = "polling"
  /\ reader' = [reader EXCEPT ![r] = "fused"]
  /\ Produce(r, [kind |-> "panic", text |-> SafeText(text)])
  /\ UNCHANGED <<owner, seen, scannerVars, aborted>>

\* block_on, the stream or the Display of its error panics: caught, the reader
\* fused and the owner's flag set before the error is handed out.  The text of
\* the panic is detached like that of an error.
PollPanics(r, text) ==
  /\ at[r] = "polling"
  /\ reader' = [reader EXCEPT ![r] = "fused"]
  /\ flag' = flag \cup ({owner[r]} \cap Scanners)
  /\ Produce(r, [kind |-> "panic", text |-> SafeText(text)])
  /\ UNCHANGED <<owner, seen, closed, accepted, heard, aborted>>

\* arrow-rs formats the error and copies it into a CString inside its callback,
\* then returns to the consumer (external).
ReturnItem(r) ==
  /\ at[r] = "returning"
  /\ at' = [at EXCEPT ![r] = "idle"]
  /\ aborted' = (aborted \/ item[r].text # "plain")
  /\ seen' = [seen EXCEPT ![r] = Append(@, item[r].kind)]
  /\ heard' = IF item[r].kind = "panic"
              THEN heard \cup ({owner[r]} \cap Scanners) ELSE heard
  /\ item' = [item EXCEPT ![r] = End]
  /\ UNCHANGED <<owner, reader, flag, closed, accepted>>

\* release: drop detaches the stream and drops it under swallow_unwind, which
\* contains the panic of a destructor and poisons nothing.
Release(r) ==
  /\ reader[r] \in {"live", "fused"}
  /\ at[r] = "idle"
  /\ reader' = [reader EXCEPT ![r] = "released"]
  /\ UNCHANGED <<owner, at, item, seen, scannerVars, aborted>>

-----------------------------------------------------------------------------

HostStep(s) == \/ ScannerCall(s) \/ ExportPanics(s) \/ Close(s)
               \/ \E r \in Exports : Export(s, r) \/ AsyncExport(s, r)

ConsumerStep(r) == \/ GetNext(r) \/ ReturnItem(r)
                   \/ \E kind \in {"batch", "end"} : PollOk(r, kind)
                   \/ \E text \in Texts : PollErr(r, text)
                   \/ \E text \in {"plain", "nul"} : PollPanics(r, text)
                   \/ Release(r)

GuardNext == \/ \E s \in Scanners : HostStep(s)
             \/ \E r \in Exports : ExportReader(r) \/ ConsumerStep(r)

GuardSpec == GuardInit /\ [][GuardNext]_guardVars

-----------------------------------------------------------------------------
(* Properties.                                                             *)

\* No panic of a stream, of the text of its errors or of its destructor leaves
\* a callback of arrow-rs.
NeverAborts == ~aborted

\* A panic is reported to the consumer as exactly one error, and nothing but
\* the end of the stream follows it.
PanicReportedOnce ==
  \A r \in Exports :
    /\ \A i, j \in 1..Len(seen[r]) :
         i < j /\ seen[r][i] = "panic" => seen[r][j] = "end"
    /\ reader[r] = "fused" /\ at[r] = "idle"
         => \E i \in 1..Len(seen[r]) : seen[r][i] = "panic"

\* Once a consumer has received the panic error of a stream, its scanner
\* accepts no further call, although the two run on different threads.
PoisonPrecedesNews ==
  [][\A s \in heard : accepted'[s] = accepted[s]]_guardVars
=============================================================================

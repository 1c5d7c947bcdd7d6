---------------------------- MODULE RunSegments ----------------------------
(***************************************************************************)
(* The directory of one run: its event segments and its run.json           *)
(* (RunEventWriter in events.py, _wal_writer.py), the process that writes  *)
(* it, operators who abandon it singly or in the sweep of stale runs       *)
(* (manager.py), and the reader that recovers torn tails (_wal_reader.py). *)
(*                                                                         *)
(* Every process has a writer of its own, which numbers its segments from  *)
(* the listing it made when it was opened; run.json and the segments are   *)
(* written one after the other and neither write looks at what is there.   *)
(* A process that dies in a write may leave a part of the segment: whole   *)
(* events and then, torn, the beginning of the next one.                   *)
(***************************************************************************)
EXTENDS Integers, FiniteSets, FiniteSetsExt

CONSTANTS
    Worker,     \* the process of the run
    Operators,  \* processes that abandon the run
    MaxSpans,   \* spans the worker records
    MaxTries    \* commands of one operator

VARIABLES
    doc,       \* run.json: its status, and whether its heartbeat is recent
    files,     \* the segments by number: events, and whether the tail is torn
    writer,    \* the writer of each process: status, next segment, buffer
    wpc,       \* where each process is
    ending,    \* the terminal status a process is recording
    spans,     \* spans recorded so far
    tries,     \* commands of each operator so far
    sealed,    \* history: events of segments whose write returned
    overlap,   \* history: a run with a live process, or twice at a time, was abandoned
    blind,     \* history: a writer was opened although its listing failed
    tears      \* history: the writes cut short, with the status run.json had

wvars == <<doc, files, writer, wpc, ending, spans, tries, sealed, overlap, blind, tears>>

SegmentWriters == {Worker} \cup Operators
NoDoc == [status |-> "none", fresh |-> FALSE]
Terminal == {"complete", "failed", "abandoned"}
TerminalEvents == Terminal \X SegmentWriters
NoWriter == [status |-> "none", part |-> 0, buffer |-> {}]
Doc(s) == [status |-> s, fresh |-> TRUE]
Alive == wpc[Worker] \notin {"none", "ended", "dead"}

RunInit ==
    /\ doc = NoDoc /\ files = <<>> /\ writer = [w \in SegmentWriters |-> NoWriter]
    /\ wpc = [w \in SegmentWriters |-> "none"] /\ ending = [w \in SegmentWriters |-> "none"]
    /\ spans = 0 /\ tries = [w \in Operators |-> 0]
    /\ sealed = {} /\ overlap = FALSE /\ blind = FALSE /\ tears = {}

At(w, l) == wpc[w] = l
Go(w, l) == wpc' = [wpc EXCEPT ![w] = l]
SetWriter(w, r) == writer' = [writer EXCEPT ![w] = r]

\* Mutant: the last segment found is taken for the next one.
NextPartLast == IF DOMAIN files = {} THEN 0 ELSE Max(DOMAIN files)

\* _discover_next_part_index; a listing that raises counts as an empty directory.
NextPart == IF DOMAIN files = {} THEN 0 ELSE Max(DOMAIN files) + 1
Discover(part) ==
    \/ part = NextPart /\ UNCHANGED blind
    \/ part = 0 /\ NextPart # 0 /\ blind' = TRUE

-----------------------------------------------------------------------------
(* The writer.                                                             *)

\* record_run_started: a new writer publishes run.json and flushes its first event.
StartRun ==
    /\ At(Worker, "none") /\ doc' = Doc("started")
    /\ SetWriter(Worker, [status |-> "started", part |-> 0, buffer |-> {<<"start", Worker>>}])
    /\ Go(Worker, "segment")
    /\ UNCHANGED <<files, ending, spans, tries, sealed, overlap, blind, tears>>

\* record_span_event: the event is buffered; a segment that is full is flushed, and
\* a heartbeat that is due rewrites run.json.
RecordSpan ==
    /\ At(Worker, "open") /\ spans < MaxSpans /\ spans' = spans + 1
    /\ SetWriter(Worker, [writer[Worker] EXCEPT !.buffer = @ \cup {<<"span", spans>>}])
    /\ \/ Go(Worker, "segment") /\ UNCHANGED doc
       \/ UNCHANGED wpc /\ doc' \in {doc, Doc(writer[Worker].status)}
    /\ UNCHANGED <<files, ending, tries, sealed, overlap, blind, tears>>

\* record_run_terminal: the terminal event is flushed, then the run is finalized.
EndRun(how) ==
    /\ At(Worker, "open") /\ writer[Worker].status = "started" /\ how \in {"complete", "failed"}
    /\ SetWriter(Worker, [writer[Worker] EXCEPT !.buffer = @ \cup {<<how, Worker>>}])
    /\ ending' = [ending EXCEPT ![Worker] = how] /\ Go(Worker, "segment")
    /\ UNCHANGED <<doc, files, spans, tries, sealed, overlap, blind, tears>>

\* flush: the segment ...
WriteSegment(w) ==
    /\ At(w, "segment")
    /\ LET seg == [events |-> writer[w].buffer, torn |-> FALSE]
           part == writer[w].part
       IN  /\ files' = [n \in DOMAIN files \cup {part} |-> IF n = part THEN seg ELSE files[n]]
           /\ sealed' = sealed \cup seg.events
           /\ SetWriter(w, [writer[w] EXCEPT !.part = @ + 1, !.buffer = {}])
    /\ Go(w, "meta")
    /\ UNCHANGED <<doc, ending, spans, tries, overlap, blind, tears>>

\* ... then run.json, with the status the writer has so far.
WriteMeta(w) ==
    /\ At(w, "meta") /\ doc' = Doc(writer[w].status)
    /\ Go(w, IF ending[w] = "none" THEN "open" ELSE "finalize")
    /\ UNCHANGED <<files, writer, ending, spans, tries, sealed, overlap, blind, tears>>

\* finalize: run.json gets the terminal status, and the writer is dropped.
Finalize(w) ==
    /\ At(w, "finalize") /\ doc' = Doc(ending[w])
    /\ SetWriter(w, NoWriter) /\ Go(w, "ended")
    /\ UNCHANGED <<files, ending, spans, tries, sealed, overlap, blind, tears>>

\* register_run goes on after the terminal record: spans not recorded per batch are
\* written by a new writer, which resumes the status it reads.
Reopen ==
    /\ At(Worker, "ended") /\ ending[Worker] = "complete" /\ spans < MaxSpans
    /\ \E part \in {0, NextPart} :
        /\ Discover(part)
        /\ SetWriter(Worker, [status |-> doc.status, part |-> part, buffer |-> {<<"span", spans>>}])
    /\ spans' = spans + 1 /\ Go(Worker, "segment")
    /\ UNCHANGED <<doc, files, ending, tries, sealed, overlap, tears>>

-----------------------------------------------------------------------------
(* Abandonment.                                                            *)

\* Silence makes the heartbeat of a run that has not ended old.
Age ==
    /\ doc.fresh /\ doc.status \notin Terminal /\ doc' = [doc EXCEPT !.fresh = FALSE]
    /\ UNCHANGED <<files, writer, wpc, ending, spans, tries, sealed, overlap, blind, tears>>

\* abandon_run: a terminal run is left alone.  The sweep takes stale runs only.
Command(o, sweep) ==
    /\ wpc[o] \in {"none", "ended", "dead"} /\ tries[o] < MaxTries
    /\ doc.status \notin Terminal \cup {"none"} /\ (sweep => ~doc.fresh)
    /\ tries' = [tries EXCEPT ![o] = @ + 1] /\ Go(o, "decided")
    /\ ending' = [ending EXCEPT ![o] = "abandoned"] /\ overlap' = (overlap \/ Alive)
    /\ UNCHANGED <<doc, files, writer, spans, sealed, blind, tears>>

\* It writes through a writer of its own.
Abandon(o) ==
    /\ At(o, "decided")
    /\ \E part \in {0, NextPart} :
        /\ Discover(part)
        /\ SetWriter(o, [status |-> doc.status, part |-> part, buffer |-> {<<"abandoned", o>>}])
    /\ overlap' = (overlap \/ \E u \in Operators \ {o} : wpc[u] \in {"segment", "meta", "finalize"})
    /\ Go(o, "segment")
    /\ UNCHANGED <<doc, files, ending, spans, tries, sealed, tears>>

-----------------------------------------------------------------------------
\* A process dies; in a write it may leave a part of the segment behind.
Die(w) ==
    /\ wpc[w] \notin {"none", "dead"} /\ (w \in Operators => wpc[w] # "ended")
    /\ Go(w, "dead") /\ SetWriter(w, NoWriter)
    /\ UNCHANGED <<doc, files, ending, spans, tries, sealed, overlap, blind, tears>>

Tear(w) ==
    /\ At(w, "segment") /\ Go(w, "dead") /\ SetWriter(w, NoWriter)
    /\ \E kept \in SUBSET writer[w].buffer, torn \in BOOLEAN :
        /\ kept # writer[w].buffer
        /\ files' = [n \in DOMAIN files \cup {writer[w].part} |->
                        IF n = writer[w].part THEN [events |-> kept, torn |-> torn] ELSE files[n]]
    /\ tears' = tears \cup {<<w, tries, doc.status>>}
    /\ UNCHANGED <<doc, ending, spans, tries, sealed, overlap, blind>>

RunNext ==
    \/ StartRun \/ RecordSpan \/ \E how \in {"complete", "failed"} : EndRun(how)
    \/ Reopen \/ Age
    \/ \E w \in SegmentWriters : WriteSegment(w) \/ WriteMeta(w) \/ Finalize(w) \/ Die(w) \/ Tear(w)
    \/ \E o \in Operators : Abandon(o) \/ \E sweep \in BOOLEAN : Command(o, sweep)

-----------------------------------------------------------------------------
(* The reader.                                                             *)

Stored == UNION {files[n].events : n \in DOMAIN files}

\* read_run_events: one torn tail is skipped, at the end of a run that is not
\* terminal, or before segments that have terminal events only.
Readable ==
    LET torn == {n \in DOMAIN files : files[n].torn}
        after(n) == UNION {files[k].events : k \in {i \in DOMAIN files : i > n}}
    IN  \/ torn = {}
        \/ \E n \in DOMAIN files :
            /\ torn = {n}
            /\ IF n = Max(DOMAIN files) THEN doc.status \notin Terminal
               ELSE after(n) # {} /\ after(n) \subseteq TerminalEvents

\* Type correctness of run.json, segments and writers.
RunTypeOK ==
    /\ doc.status \in Terminal \cup {"none", "started"} /\ doc.fresh \in BOOLEAN
    /\ \A n \in DOMAIN files : files[n].torn \in BOOLEAN
    /\ \A w \in SegmentWriters : writer[w].part \in Nat
    /\ {overlap, blind} \subseteq BOOLEAN

\* A segment whose write returned is never overwritten: the process, its own second
\* writer and the operators that come after its death number their segments apart.
\* Only an abandonment of a live process, or a failed listing, breaks it.
SealedStays == ~overlap /\ ~blind => sealed \subseteq Stored

\* A crash in one write leaves a directory that can be read, before and after the
\* run is abandoned, unless it tears what is written after the terminal record.
CrashIsReadable ==
    /\ ~overlap /\ ~blind
    /\ Cardinality(tears) <= 1 /\ \A t \in tears : t[3] \notin Terminal
    => Readable

\* run.json is terminal only with the terminal event on record, so that a reader
\* which goes by run.json and one which goes by events agree.
TerminalIsOnRecord ==
    ~overlap /\ ~blind /\ doc.status \in Terminal =>
        \E w \in SegmentWriters : <<doc.status, w>> \in Stored

\* A run that ended stays as it ended, whatever operators do later.
EndIsFinal == ~overlap' /\ doc.status \in Terminal => doc'.status = doc.status

RunInvariant ==
    RunTypeOK /\ SealedStays /\ CrashIsReadable /\ TerminalIsOnRecord

\* What the directory of a run promises.
RunIsRecorded == []RunInvariant /\ [][EndIsFinal]_wvars

=============================================================================

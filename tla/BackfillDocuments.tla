-------------------------- MODULE BackfillDocuments --------------------------
(***************************************************************************)
(* HB-4's document slices (worker/backfill_documents) and the lifecycle of *)
(* one document inside F2 (worker/document_retrieval.py): the gate and the *)
(* orphan sweep, reconciliation and planning from evidence, and one        *)
(* claimed item through its F2 passes, its record and its persistence.     *)
(***************************************************************************)
EXTENDS BackfillDiscovery

(***************************************************************************)
(* The start of a document slice, under the lock and with its lease.       *)
(***************************************************************************)

(* Mutant: the sweep removes nothing.                                      *)
BugSwept == files

(* What the orphan sweep leaves of the earlier documents: nothing.         *)
Swept == {}

(* document_gate is read again; the orphan sweep empties the temporary     *)
(* root or, when it cannot, stops the slice.                               *)
GateAndSweep(s) ==
    /\ sl[s].pc = "gate"
    /\ \/ /\ DocumentGate
          /\ files' = Swept
          /\ sl' = [sl EXCEPT ![s].pc = "reconcile"]
          /\ UNCHANGED trouble
       \/ /\ ~DocumentGate
          /\ sl' = [sl EXCEPT ![s].pc = "closing", ![s].stop = "refused"]
          /\ UNCHANGED <<files, trouble>>
       \/ /\ DocumentGate /\ Happens("sweep")
          /\ sl' = [sl EXCEPT ![s].pc = "closing", ![s].stop = "cleanup_stop"]
          /\ UNCHANGED files
    /\ UNCHANGED ledgerVars

PromoteDocument(s, i) ==
    /\ Reconciling(s, "document") /\ i \in Abandoned("document")
    /\ item' = [item EXCEPT
                  ![i] = AfterEvent(@, IF i \in f5 THEN "persisted" ELSE "pending",
                                    "promote", None)]
    /\ UNCHANGED <<lease, attempt, blocks, results, used, f1, f5, outside, lock,
                   sl, files, trouble>>

TerminalDocument(i) ==
    LET failed == <<"failed", "record">>
    IN  IF i \in f5 THEN <<<<"persisted", "promote">>>>
        ELSE IF item[i].state # "pending" THEN <<failed>>
        ELSE <<<<"requesting", "claim">>, <<"retry_wait", "record">>, failed>>

TerminaliseDocument(s, i) ==
    /\ Reconciling(s, "document") /\ Abandoned("document") = {}
    /\ i \in AtMaximum("document")
    /\ item' = [item EXCEPT ![i] = AfterEvents(@, TerminalDocument(i), s)]
    /\ UNCHANGED <<lease, attempt, blocks, results, used, f1, f5, outside, lock,
                   sl, files, trouble>>

(* plan_documents: what has an F5 run is persisted without a request.      *)
Plannable ==
    {i \in Documents : \/ item[i].state = "discovered"
                       \/ item[i].state \in Claimable /\ i \in f5}

PlanDocument(s, i) ==
    /\ Reconciling(s, "document")
    /\ Abandoned("document") = {} /\ AtMaximum("document") = {}
    /\ i \in Plannable
    /\ item' = [item EXCEPT
                  ![i] = AfterEvent(@, IF i \in f5 THEN "persisted" ELSE "pending",
                                    "promote", None)]
    /\ UNCHANGED <<lease, attempt, blocks, results, used, f1, f5, outside, lock,
                   sl, files, trouble>>

DocumentsPlanned(s) ==
    /\ Reconciling(s, "document")
    /\ Abandoned("document") = {} /\ AtMaximum("document") = {}
    /\ Plannable = {}
    /\ sl' = [sl EXCEPT ![s].pc = "work"]
    /\ UNCHANGED <<ledgerVars, files, trouble>>

(***************************************************************************)
(* process_one, from the claim on: F2 passes.                              *)
(***************************************************************************)

(* begin_document: the worst case again, the slice's documents, the pass.  *)
BeginPass(s) ==
    /\ sl[s].pc = "claimed" /\ sl[s].stage = "document"
    /\ Admits(s, WorstCase) /\ sl[s].n < SliceMax /\ sl[s].pass < Passes
    /\ files' = files \cup {s}
    /\ sl' = [sl EXCEPT ![s].pc = "fetch", ![s].pass = @ + 1, ![s].n = @ + 1,
                        ![s].hop = 0, ![s].got = "none"]
    /\ UNCHANGED <<ledgerVars, trouble>>

(* The temporary root itself fails before anything is created or fetched.  *)
LocalFailure(s) ==
    /\ sl[s].pc = "claimed" /\ sl[s].stage = "document"
    /\ Admits(s, WorstCase) /\ sl[s].n < SliceMax /\ sl[s].pass < Passes
    /\ sl' = [sl EXCEPT ![s].pc = "dispose", ![s].got = "local"]
    /\ UNCHANGED <<ledgerVars, files, trouble>>

(* The transport, the slice's bounds or the free space refuse the pass.    *)
RefusedPass(s) ==
    /\ sl[s].pc = "claimed" /\ sl[s].stage = "document"
    /\ item' = [item EXCEPT
                  ![sl[s].item] = AfterEvent(@, "retry_wait", "record", s)]
    /\ sl' = [sl EXCEPT ![s] = Back([@ EXCEPT !.stop = "refused"])]
    /\ UNCHANGED <<lease, attempt, blocks, results, used, f1, f5, outside, lock,
                   files, trouble>>

(* fetch: a refused request ends F2 as a network failure, with a mark.     *)
RefusedFetch(s) ==
    /\ sl[s].pc = "fetch" /\ ~Admits(s, 1)
    /\ sl' = [sl EXCEPT ![s].pc = "f2", ![s].got = "refused",
                        ![s].stop = IF @ = "none" THEN "refused" ELSE @]
    /\ UNCHANGED <<ledgerVars, files, trouble>>

(* A redirect inside the CDN, or the second candidate after a missing one, *)
(* is a request of its own.                                                *)
FetchAgain(s) ==
    /\ sl[s].pc = "f2" /\ sl[s].got = "elsewhere"
    /\ sl[s].hop + 1 < WorstCase
    /\ sl' = [sl EXCEPT ![s].pc = "fetch", ![s].hop = @ + 1]
    /\ UNCHANGED <<ledgerVars, files, trouble>>

(* A body against its headers: the length it declares, a strong MD5 etag,  *)
(* its bytes, the PDF header and the end-of-file mark.                     *)
Bodies == [declared : {"none", "equal", "less", "more"}, empty : BOOLEAN,
           etag : {"none", "match", "mismatch"}, pdf : BOOLEAN, eof : BOOLEAN]

validate_content(b) ==
    IF b.declared = "more" THEN "truncated"
    ELSE IF b.declared = "less" THEN "length_mismatch"
    ELSE IF b.etag = "mismatch" THEN "etag_mismatch"
    ELSE IF b.empty THEN "empty_body"
    ELSE IF ~b.pdf THEN "not_pdf"
    ELSE IF ~b.eof THEN "truncated_or_malformed" ELSE "valid"

(* What F2 and F5's consumer make of a downloaded body; a body beyond the  *)
(* size limit and an internal error end the item, a local hashing failure  *)
(* is tried again (outcomes.disposition).                                  *)
BodyDispositions ==
    {"terminal", "retryable"}
    \cup UNION {CASE validate_content(b) = "valid" -> {"persist", "consumer"}
                  [] validate_content(b) = "not_pdf" -> {"terminal"}
                  [] OTHER -> {"retryable"} : b \in Bodies}

Dispositions(got) ==
    CASE got = "ok" -> BodyDispositions
      [] got = "retryable" -> {"retryable"}
      [] got = "refused" -> {"refused"}
      [] OTHER -> {"terminal"}

(* F2 deletes the temporary directory and proves it gone, or reports that  *)
(* it could not, or the batch finds an entry left over; either may happen  *)
(* before or after the document was handed to the consumer.                *)
CleanupFailures(got) ==
    {"cleanup", "leftover"}
    \cup IF got = "ok" THEN {"cleanup_retrieved", "leftover_retrieved"} ELSE {}

F2Ends(s) ==
    /\ sl[s].pc = "f2"
    /\ \/ /\ \E k \in Dispositions(sl[s].got) :
               sl' = [sl EXCEPT ![s].pc = "dispose", ![s].got = k]
          /\ files' = files \ {s}
          /\ UNCHANGED trouble
       \/ /\ Happens("cleanup")
          /\ \E k \in CleanupFailures(sl[s].got) :
               sl' = [sl EXCEPT ![s].pc = "dispose", ![s].got = k]
          /\ UNCHANGED files
    /\ UNCHANGED ledgerVars

(***************************************************************************)
(* process_one, after F2: the pass's record and the item's events in one   *)
(* transaction, in the order the code decides.                             *)
(***************************************************************************)
CleanupStates(k) ==
    CASE k = "cleanup"            -> <<"cleanup_failed">>
      [] k = "cleanup_retrieved"  -> <<"processing", "cleanup_failed">>
      [] k = "leftover"           -> <<"retry_wait", "failed">>
      [] k = "leftover_retrieved" -> <<"processing", "failed">>

DocumentLiveState(i, k) ==
    IF k = "retryable" /\ item[i].claims < ItemMax THEN "retry_wait"
                                                   ELSE "retrieval_failed"

(* The events of the pass, the slice's stop, and whether it goes on to the *)
(* next item, to the persistence or to another pass.                       *)
Disposed(i, l) ==
    LET as(states, stop, goes) ==
          [log |-> [k \in DOMAIN states |-> <<states[k], "record">>],
           stop |-> stop, goes |-> goes]
        again == /\ l.got = "retryable" /\ l.stop # "circuit_open"
                 /\ l.pass < Passes
    IN  CASE l.stop = "error" -> as(<<>>, "error", "closing")
          [] l.stop # "error" /\ l.got \in CleanupFailures("ok") ->
               as(CleanupStates(l.got), "cleanup_stop", "back")
          [] l.stop = "blocked" /\ l.got \notin CleanupFailures("ok") ->
               as(<<"blocked">>, "blocked", "back")
          [] l.stop \notin {"error", "blocked"} /\ l.got = "persist" ->
               as(<<"processing">>, l.stop, "persist")
          [] l.stop \notin {"error", "blocked"} /\ l.got = "consumer" ->
               as(<<"processing", "consumer_failed">>, l.stop, "back")
          [] l.stop \notin {"error", "blocked"} /\ l.got = "refused" ->
               as(<<"retry_wait">>, l.stop, "back")
          [] l.stop \notin {"error", "blocked"} /\ l.got = "local" ->
               as(<<"retry_wait">>, "refused", "back")
          [] l.stop \notin {"error", "blocked"}
             /\ l.got \in {"terminal", "retryable"} ->
               IF again THEN as(<<>>, "none", "claimed")
               ELSE as(<<DocumentLiveState(i, l.got)>>, l.stop, "back")

Dispose(s) ==
    LET i == sl[s].item
        d == Disposed(i, sl[s])
        l == [sl[s] EXCEPT !.stop = d.stop, !.got = "none"]
        stopped == IF d.log = <<>> THEN item[i].stopped
                   ELSE sl[s].got \in {"leftover", "leftover_retrieved"}
    IN  /\ sl[s].pc = "dispose"
        /\ item' = [item EXCEPT ![i] = [AfterEvents(@, d.log, s)
                                          EXCEPT !.stopped = stopped]]
        /\ sl' = [sl EXCEPT ![s] = IF d.goes = "back" THEN Back(l)
                                   ELSE [l EXCEPT !.pc = d.goes]]
        /\ UNCHANGED <<lease, attempt, blocks, results, used, f1, f5, outside,
                       lock, files, trouble>>

(* F3, link, F5 and the event 'persisted' in one transaction; when it      *)
(* fails the failure is recorded in another.                               *)
Persist(s) ==
    LET i == sl[s].item
        failed == IF item[i].claims < ItemMax THEN "retry_wait" ELSE "failed"
    IN  /\ sl[s].pc = "persist"
        /\ \/ /\ item' = [item EXCEPT ![i] = AfterEvent(@, "persisted",
                                                        "record", s)]
              /\ f5' = f5 \cup {i}
              /\ UNCHANGED trouble
           \/ /\ Happens("persist")
              /\ item' = [item EXCEPT ![i] = AfterEvent(@, failed, "record", s)]
              /\ UNCHANGED f5
        /\ sl' = [sl EXCEPT ![s] = Back(@)]
        /\ UNCHANGED <<lease, attempt, blocks, results, used, f1, outside, lock,
                       files>>

DocumentStep(s) ==
    \/ GateAndSweep(s)
    \/ \E i \in Documents : \/ PromoteDocument(s, i)
                            \/ TerminaliseDocument(s, i)
                            \/ PlanDocument(s, i)
    \/ DocumentsPlanned(s)
    \/ BeginPass(s) \/ LocalFailure(s) \/ RefusedPass(s)
    \/ RefusedFetch(s) \/ FetchAgain(s)
    \/ F2Ends(s) \/ Dispose(s) \/ Persist(s)
=============================================================================

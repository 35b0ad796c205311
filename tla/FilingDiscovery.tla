-------------------------- MODULE FilingDiscovery --------------------------
(***************************************************************************)
(* F1 (worker/report_discovery.py and report_filings_store.py), without    *)
(* state: what a feed or listing answer contains, which of its entries     *)
(* name a filing, and the row that the current entries of a filing's       *)
(* sources merge into.                                                     *)
(*                                                                         *)
(* A source is [endpoint, bucket, symbol], symbols numbered in their       *)
(* order.  A listing entry is [id, fields], fields a function on the keys  *)
(* the entry has; a value is [form, v].                                    *)
(***************************************************************************)
EXTENDS IssuerIdentity, SequencesExt

Feed == "getFinancialAnnouncement"
Listing == "financials"
FeedBucket == "none"

ENDPOINT_PRECEDENCE == <<Listing, Feed>>
BUCKET_PRECEDENCE == <<"annual", "quarterly", "other", "web_link", FeedBucket>>
Times == {"uploaded_at", "authorized_at"}
Texts == {"file_text", "path", "path2", "source_name", "source_symbol"}
FieldKeys == Times \cup Texts \cup {"manual_date_raw"}

(* Epoch milliseconds in range and dates in the feed's format are times;   *)
(* anything else is kept raw and read as no time.                          *)
parse_timestamp(value) == IF value.form \in {"epoch", "date"} THEN value.v ELSE None

(* A positive integer, or a string of digits.                              *)
FilingId(item) ==
    IF item.id.form \in {"int", "digits"} /\ item.id.v > 0 THEN item.id.v ELSE None

parse_listing_item(item) ==
    [c \in DOMAIN item.fields |->
        CASE c \in Times -> parse_timestamp(item.fields[c])
          [] c = "manual_date_raw" ->
                IF item.fields[c].form = "int" THEN item.fields[c].v ELSE None
          [] OTHER -> IF item.fields[c].form = "text" THEN item.fields[c].v ELSE None]

(***************************************************************************)
(* Answers: [ok, json, buckets] with a bucket [name, list, items].  None   *)
(* is a failed answer, which is not an empty one.                          *)
(***************************************************************************)
Rows(answer) ==
    UNION {{[bucket |-> b.name, item |-> i] : i \in b.items} : b \in answer.buckets}

extract_feed_items(answer) ==
    IF answer.ok /\ answer.json /\ {b.name : b \in answer.buckets} = {FeedBucket}
       /\ \A b \in answer.buckets : b.list
    THEN Rows(answer) ELSE None

extract_listing_buckets(answer) ==
    IF answer.ok /\ answer.json /\ answer.buckets # {}
       /\ \A b \in answer.buckets : b.list /\ b.name # FeedBucket
    THEN Rows(answer) ELSE None

(* The entries of an answer that can be recorded, each under its source.   *)
collect(rows, endpoint, symbol) ==
    {[filing |-> FilingId(r.item), item |-> r.item,
      source |-> [endpoint |-> endpoint, bucket |-> r.bucket, symbol |-> symbol]] :
        r \in {x \in rows : FilingId(x.item) # None}}

Rejected(rows) == {r \in rows : FilingId(r.item) = None}

(* _finish: entries rejected or lost make the run partial.                 *)
RunStatus(rows, lost) ==
    CASE rows = None -> "failed"
      [] Rejected(rows) # {} \/ lost # {} -> "partial"
      [] OTHER -> "succeeded"

(***************************************************************************)
(* The merge.  A filing's current entries are records [filing, source,     *)
(* item], one per source.                                                  *)
(***************************************************************************)
Rank(seq, x) == IF x \in ToSet(seq) THEN CHOOSE i \in DOMAIN seq : seq[i] = x
                ELSE Len(seq) + 1

(* _precedence: endpoint, bucket, symbol.                                  *)
Before(a, b) ==
    LET e == Rank(ENDPOINT_PRECEDENCE, a.endpoint)
        f == Rank(ENDPOINT_PRECEDENCE, b.endpoint)
        x == Rank(BUCKET_PRECEDENCE, a.bucket)
        y == Rank(BUCKET_PRECEDENCE, b.bucket)
    IN  \/ e < f
        \/ e = f /\ x < y
        \/ e = f /\ x = y /\ b.symbol # None /\ (a.symbol = None \/ a.symbol < b.symbol)

(* The first source whose entry contains the field supplies it, null too.  *)
Merged(entries, column) ==
    LET having == {e \in entries : column \in DOMAIN e.item.fields}
        first == {e \in having : \A f \in having \ {e} : Before(e.source, f.source)}
    IN  IF having = {} THEN None
        ELSE parse_listing_item((CHOOSE e \in first : TRUE).item)[column]

(* The columns that linking reads, and the link to a `companies` row.      *)
normalize_filing(entries, companies) ==
    LET symbols == {e.source.symbol : e \in entries} \ {None}
        linked == symbols \cap companies
    IN  [path |-> Merged(entries, "path"), uploaded_at |-> Merged(entries, "uploaded_at"),
         listing_symbols |-> symbols,
         company_resolution |-> CASE Cardinality(linked) = 1 -> "exact_listing_symbol"
                                  [] Cardinality(linked) > 1 -> "conflict"
                                  [] OTHER -> "unresolved"]

(* apply_observation: the entry becomes its source's current version.      *)
apply_observation(current, e) ==
    {c \in current : c.filing # e.filing \/ c.source # e.source} \cup {e}
=============================================================================

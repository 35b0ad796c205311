------------------------------- MODULE MCAsOf -------------------------------
(* Two filings, one document carried by both and a second version of the   *)
(* first filing's document.                                                *)
EXTENDS AsOf

MCSources == <<"listing", "feed">>

(* An instant in the feed; the listing, which takes precedence, shows a    *)
(* date-only time and an entry without an upload time.                     *)
Entry(f, s, uploaded, authorized) ==
    [filing |-> f, source |-> s, uploaded |-> uploaded, authorized |-> authorized]
MCEntries == {Entry(1, "feed", 1, Absent), Entry(1, "listing", 2, 1),
              Entry(1, "listing", Absent, 3), Entry(2, "feed", 1, None)}
MCBacklog == {Entry(1, "feed", 1, Absent)}

Link(f, status, basis, issuer) ==
    [filing |-> f, status |-> status, basis |-> basis, issuer_id |-> issuer]
MCDecided == <<Link(1, "evidenced", "both", "X")>>
MCLinks == {Link(1, "evidenced", "both", "X"), Link(1, "unresolved", None, None),
            Link(2, "evidenced", "both", "X")}

Run(f, d, modified, epoch, retrieved, ok) ==
    [filing |-> f, doc |-> d, last_modified |-> modified, path_epoch |-> epoch,
     retrieved |-> retrieved, accepted |-> ok]
MCRuns == {Run(1, "a", 2, 1, 1, TRUE), Run(1, "b", 3, 2, 2, TRUE),
           Run(1, "b", 3, None, None, FALSE), Run(2, "a", 3, 1, 2, TRUE)}

Assets(digits, scale, row) ==
    [candidate_status |-> "proposed", mapping_status |-> "mapped",
     concept_key |-> "total_assets", role_trust |-> "trusted",
     role |-> "current", operations |-> "total_or_unstated",
     operations_basis |-> "none", period_kind |-> "instant",
     period_derivation |-> "column", period_class |-> None,
     start_date |-> None, end_date |-> 0, duration_months |-> None,
     fiscal_label |-> None, representation_class |-> "numeric",
     parsed_value |-> digits, raw_value |-> "amount",
     reported_currency |-> "LKR", value_type |-> "currency_amount",
     reported_scale |-> scale, printed_decimals |-> 0, section |-> {},
     statement_root |-> 1, statement_kind |-> "financial_position",
     reported_scope |-> "group", row |-> row, restated |-> FALSE]

Nil == [Assets(None, 1, 1) EXCEPT !.representation_class = "dash_nil",
                                  !.raw_value = "dash"]

Statement(rows, type, status) ==
    [rows |-> rows, document_type |-> type, document_type_status |-> status,
     underlying_type |-> "interim_financial_statements",
     fiscal_year_end_basis |-> None, fiscal_year_end_status |-> None,
     period_status |-> "confirmed"]

Interim(rows) == Statement(rows, "interim_financial_statements", "confirmed")

(* The same profit under a section heading, its partition printed.         *)
Profit(digits, operations, basis, row) ==
    [Assets(digits, 1, row) EXCEPT !.concept_key = "profit_for_period",
        !.period_kind = "duration", !.duration_months = 3,
        !.period_class = "3m", !.statement_kind = "profit_or_loss",
        !.operations = operations, !.operations_basis = basis]

Pair(a, b) == [d \in {"a", "b"} |-> IF d = "a" THEN a ELSE b]

MCContents ==
    {Pair(Interim({Assets(12, 1, 1), Assets(1, 10, 2),
                   Profit(5, "continuing", "section_label", 1),
                   Profit(2, "discontinued", "section_label", 2),
                   [Profit(7, "total_or_unstated", "none", 3) EXCEPT
                       !.restated = TRUE]}),
          Interim({Assets(11, 1, 1),
                   [Profit(6, "total_or_unstated", "none", 1) EXCEPT
                       !.restated = TRUE]})),
     Pair(Interim({Assets(12, 1, 1)}),
          Statement({Assets(14, 1, 1)}, "errata_or_reissue", "confirmed")),
     Pair(Interim({Assets(12, 1, 1)}), Statement({Nil}, "amendment", "unclear"))}
=============================================================================

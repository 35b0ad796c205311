----------------------------- MODULE Candidates -----------------------------
(***************************************************************************)
(* F5 (financial_candidates.py): the candidates of one document, one per   *)
(* mapped row and period column, from F4's cells and F3's classification   *)
(* of the same document, and the chain F3, F4, F5, F6.1 that F2 runs on a  *)
(* retrieved document while its bytes exist.                               *)
(***************************************************************************)
EXTENDS Extraction

CONSTANTS
    Documents,      \* printed documents
    Metadata        \* what the filing's listing may say

(* Nothing is no number and none of the words that name a duration.        *)
ASSUME NothingAssumption ==
    None \notin Int /\ None \notin MonthsWords \cup {"quarter", "half", "year", "period"}

(* A date of the program is in one of the years 1 to 9999.                 *)
Years == 0 .. 9999
NamedMonths == 0 .. 12
MonthsOfYear == 0 .. 11
LastMonth == 12 * 10000
MonthNumbers == 0 .. LastMonth

DatedStatement(st) ==
    /\ DOMAIN st.columns \subseteq Nat
    /\ st.near = None \/ st.near.end \in MonthNumbers
    /\ \A p \in st.phrases : p.month \in NamedMonths \cup {None}
    /\ \A i \in DOMAIN st.columns :
          /\ st.columns[i].year \in Years
          /\ st.columns[i].month \in NamedMonths \cup {None}

(* What is printed first and next, that what names a month names one, and  *)
(* that a page without a heading continues a statement of its own kind.    *)
ASSUME DocumentsAssumption ==
    \A doc \in Documents :
        /\ {"text", "signals", "front", "deep", "statements"} \subseteq DOMAIN doc
        /\ \A phrase \in {doc.front, doc.deep} \ {None} : phrase.end \in MonthNumbers
        /\ doc.year_phrases \subseteq MonthsOfYear
        /\ DOMAIN doc.statements \subseteq Nat
        /\ \A i \in DOMAIN doc.statements :
              /\ DatedStatement(doc.statements[i])
              /\ doc.statements[i].headless =>
                    doc.statements[doc.statements[i].continues].kind = doc.statements[i].kind

DOCUMENT_ROLE_BASES == {"f3.statement_period", "f4.explicit_header_word",
                        "f4.mirrored_f3_role_rule"}

(***************************************************************************)
(* Periods.                                                                *)
(***************************************************************************)
period_class(kind, months) ==
    CASE kind # "duration" -> None
      [] kind = "duration" /\ months = None -> "unspecified"
      [] OTHER -> expected_period_class(months)

(* Mutant: months counted from the year end's own month.                   *)
Bugfiscal_label(cls, kind, end, months) ==
    LET k == (Month(end) - cls.fiscal_year_end + 1) % 12
    IN  IF \/ kind # "duration" \/ end = None \/ months \notin {3, 6, 9, 12}
           \/ cls.fiscal_year_end_basis # "documented"
           \/ cls.fiscal_year_end_status \notin TRUSTED_F3_STATUSES
           \/ ~ Trusted(cls)
        THEN None
        ELSE CASE months = 12 -> IF k = 0 THEN "FY" ELSE None
               [] months = 6 -> IF k = 6 THEN "H1" ELSE IF k = 0 THEN "H2" ELSE None
               [] months = 9 -> IF k = 9 THEN "9M" ELSE None
               [] OTHER -> IF k % 3 # 0 THEN None
                           ELSE <<"Q4", "Q1", "Q2", "Q3">>[(k \div 3) + 1]

(* Only from a documented year end under a period the document evidences;  *)
(* k months after the year end.                                            *)
fiscal_label(cls, kind, end, months) ==
    LET k == (Month(end) - cls.fiscal_year_end) % 12
    IN  IF \/ kind # "duration" \/ end = None \/ months \notin {3, 6, 9, 12}
           \/ cls.fiscal_year_end_basis # "documented"
           \/ cls.fiscal_year_end_status \notin TRUSTED_F3_STATUSES
           \/ ~ Trusted(cls)
        THEN None
        ELSE CASE months = 12 -> IF k = 0 THEN "FY" ELSE None
               [] months = 6 -> IF k = 6 THEN "H1" ELSE IF k = 0 THEN "H2" ELSE None
               [] months = 9 -> IF k = 9 THEN "9M" ELSE None
               [] OTHER -> IF k % 3 # 0 THEN None
                           ELSE <<"Q4", "Q1", "Q2", "Q3">>[(k \div 3) + 1]

(* A balance may be read from the end of a duration column where its       *)
(* concept says so; any other mismatch gives no candidate.                 *)
candidate_period(concept, col) ==
    LET own == [kind |-> col.kind, class |-> period_class(col.kind, col.months),
                derivation |-> "column"]
    IN  CASE col.kind = None -> None
          [] col.kind # None /\ concept = None -> own
          [] OTHER -> IF concept_period_kind(concept) = col.kind THEN own
                      ELSE IF concept = "cash_at_end_of_period" /\ col.end # None
                      THEN [kind |-> "instant", class |-> None,
                            derivation |-> "duration_column_end"]
                      ELSE None

(***************************************************************************)
(* Trust, audit evidence, scope.                                           *)
(***************************************************************************)
role_trust(cls, role, basis) ==
    IF role \in TRUSTED_ROLES /\ basis \in DOCUMENT_ROLE_BASES /\ Trusted(cls)
    THEN "trusted" ELSE "untrusted"

header_audit_word(words) ==
    IF "provisional" \in words THEN "provisional"
    ELSE IF "unaudited" \in words THEN "unaudited"
    ELSE IF "audited" \in words THEN "audited" ELSE None

(* Mutant: the column's own word first.                                    *)
Bugaudit_source(cls, kind, col) ==
    LET f3 == match_f3_role(cls, kind, col)
        label == col.audit_status
    IN  IF label = "unknown" THEN "none"
        ELSE IF header_audit_word(col.words) = label THEN "column_header_word"
        ELSE IF label \in cls.cover_labels /\ f3.role = "current" /\ f3.audit = label
                /\ Trusted(cls)
        THEN "f3_cover_page_inference" ELSE "f3_statement_period"

(* The weakest evidence that could have given the label.                   *)
audit_source(cls, kind, col) ==
    LET f3 == match_f3_role(cls, kind, col)
        label == col.audit_status
    IN  IF label = "unknown" THEN "none"
        ELSE IF label \in cls.cover_labels /\ f3.role = "current" /\ f3.audit = label
        THEN "f3_cover_page_inference"
        ELSE IF header_audit_word(col.words) = label THEN "column_header_word"
        ELSE "f3_statement_period"

(* Separate only beside a group column of the same statement.              *)
canonical_scope(reported, hasGroup) ==
    CASE reported = "group" -> "consolidated"
      [] reported \in {"company", "bank"} /\ hasGroup -> "separate"
      [] OTHER -> "unresolved"

(***************************************************************************)
(* Candidates.                                                             *)
(***************************************************************************)
candidate_status(cell, mapping, class) ==
    IF cell.status = "conflicting" THEN "conflicting"
    ELSE IF cell.status # "extracted" \/ class = "unspecified" THEN "unresolved"
    ELSE IF mapping.status = "ambiguous" THEN "ambiguous" ELSE "proposed"

(* One candidate with the fields of its statement, column and row, and the *)
(* printed value as F4 read it.                                            *)
Candidate(cls, st, cell, mapping, period) ==
    LET col == cell.col
        ops == row_operations(cell.row)
        group == \E c \in st.columns : c.column_kind = "period" /\ c.scope = "group"
    IN  [candidate_status |-> candidate_status(cell, mapping, period.class),
         mapping_status |-> mapping.status, concept_key |-> mapping.concept,
         value_type |-> IF mapping.concept = None THEN None
                        ELSE concept_value_type(mapping.concept),
         role |-> col.role, role_trust |-> role_trust(cls, col.role, col.role_basis),
         operations |-> ops.of, operations_basis |-> ops.basis,
         period_kind |-> period.kind, period_class |-> period.class,
         period_derivation |-> period.derivation,
         start_date |-> IF col.kind = "duration" /\ col.months # None
                        THEN col.end - col.months + 1 ELSE None,
         end_date |-> col.end, duration_months |-> col.months,
         fiscal_label |-> fiscal_label(cls, col.kind, col.end, col.months),
         section |-> cell.row.maturity, row |-> cell.row.index,
         statement_root |-> st.root, statement_kind |-> st.kind,
         reported_scope |-> IF col.scope = None THEN "unstated" ELSE col.scope,
         canonical_scope |-> canonical_scope(col.scope, group),
         restated |-> col.restated, audit_label |-> col.audit_status,
         audit_source |-> audit_source(cls, st.kind, col),
         audit_trust |-> IF col.audit_status # "unknown" /\ Trusted(cls)
                         THEN "trusted" ELSE "untrusted",
         representation_class |-> cell.value.class, raw_value |-> cell.raw.form,
         parsed_value |-> cell.value.parsed, printed_decimals |-> cell.value.decimals,
         reported_scale |-> cell.scale, reported_currency |-> cell.currency]

build(sts, cls) ==
    LET template == choose_template(sts)
        mapping(st, cell) ==
            map_label(st.kind, template, cell.row.label, cell.row.section)
        usable(st) == {c \in st.cells :
                         /\ c.col.column_kind = "period"
                         /\ mapping(st, c).status # "unmapped"
                         /\ candidate_period(mapping(st, c).concept, c.col) # None}
    IN  UNION {{Candidate(cls, st, c, mapping(st, c),
                          candidate_period(mapping(st, c).concept, c.col)) :
                   c \in usable(st)} : st \in sts}

(***************************************************************************)
(* The consumer of a retrieved document.                                   *)
(***************************************************************************)
VARIABLES
    stage,      \* what has been made of the document
    document,   \* the temporary document
    metadata,   \* the filing's listing entry
    classified, \* F3's classification
    statements, \* F4's extraction, in memory only
    candidates, \* F5's result
    validated   \* F6.1's validation of it

chainVars == <<stage, document, metadata, classified, statements, candidates, validated>>

ChainInit ==
    /\ stage = "retrieved" /\ document \in Documents /\ metadata \in Metadata
    /\ classified = None /\ statements = {} /\ candidates = {}
    /\ validated = {}

Classify ==
    /\ stage = "retrieved" /\ stage' = "classified"
    /\ classified' = classify(document, metadata)
    /\ UNCHANGED <<document, metadata, statements, candidates, validated>>

Extract_document ==
    /\ stage = "classified" /\ stage' = "extracted"
    /\ statements' = IF document.text = "none" THEN {}
                     ELSE extract_from_words(document, classified)
    /\ UNCHANGED <<document, metadata, classified, candidates, validated>>

Build ==
    /\ stage = "extracted" /\ stage' = "built"
    /\ candidates' = build(statements, classified)
    /\ statements' = {}
    /\ UNCHANGED <<document, metadata, classified, validated>>

(* A balance read from a duration column has no start and no duration.     *)
contexts_from_f5_result(cands) ==
    {[c EXCEPT !.start_date = IF c.period_derivation = "column" THEN @ ELSE None,
               !.duration_months = IF c.period_derivation = "column" THEN @ ELSE None] :
        c \in cands}

(* F6.1, for a filing whose issuer link is evidenced.                      *)
Link == [status |-> "evidenced", basis |-> "both", issuer_id |-> None]

Validated(cands, cls, uploaded) ==
    validate_run(contexts_from_f5_result(cands), RunEvidence(cls, Link, uploaded)).candidates

Validate ==
    /\ stage = "built" /\ stage' = "validated"
    /\ validated' = Validated(candidates, classified, metadata.uploaded)
    /\ UNCHANGED <<document, metadata, classified, statements, candidates>>

ChainNext == Classify \/ Extract_document \/ Build \/ Validate

ChainSpec == ChainInit /\ [][ChainNext]_chainVars

(***************************************************************************)
(* Correctness.                                                            *)
(***************************************************************************)
(* What F4 and F5 make of a document under a classification.               *)
Result(doc, cls) ==
    build(IF doc.text = "none" THEN {} ELSE extract_from_words(doc, cls), cls)

(* A listing entry that says nothing.                                      *)
Silent == [words |-> {}, title_end |-> None, title_word |-> None,
           manual_date |-> None, buckets |-> {}, uploaded |-> metadata.uploaded]

TrustFields == {"role", "role_trust", "fiscal_label", "audit_trust", "audit_label",
                "audit_source"}

Figures(cands) == {[k \in DOMAIN c \ TrustFields |-> c[k]] : c \in cands}

(* The candidates and validations of this filing lie within those that the *)
(* document alone gives.                                                   *)
WithinResult(alone, checked) ==
    /\ Figures(candidates) = Figures(alone)
    /\ \A c \in candidates :
          \/ c.role_trust = "trusted" \/ c.fiscal_label # None
          \/ c.audit_trust = "trusted"
          => c \in alone
    /\ \A v \in validated : v.ineligible = {} => v \in checked

WithinCandidates(cls, alone) ==
    WithinResult(alone, Validated(alone, cls, metadata.uploaded))
WithinClassification(cls) == WithinCandidates(cls, Result(document, cls))

(* The CSE's listing may only withdraw trust: whatever the title, the      *)
(* manual date and the bucket say, the figures, periods, scopes and scales *)
(* F5 stores are those the document alone gives; every role, fiscal label  *)
(* or audit label that is trusted is trusted without them too; and what    *)
(* F6.1 finds eligible it finds eligible without them (F3's metadata       *)
(* rules, F4's role bases, F5's I-4, I-5 and I-7, F6.1's eligibility).     *)
MetadataOnlyWithdraws ==
    stage = "validated" => WithinClassification(classify(document, Silent))

(* The column labels that end with a fiscal period, by their duration.     *)
EndsWith(period) ==
    CASE period = "Q1" -> {"Q1"} [] period = "Q2" -> {"Q2", "H1"}
      [] period = "Q3" -> {"Q3", "9M"} [] OTHER -> {"Q4", "H2", "FY"}

(* F3's fiscal period of the document and F5's fiscal label of a column    *)
(* that ends with it are computed apart, from the year end, the months     *)
(* elapsed and the durations: they name the same part of the year, and the *)
(* quarter F3 names is the label of every trusted three-month column.      *)
QuartersAgree ==
    stage = "built" /\ classified.fiscal_period # None =>
        \A c \in candidates : c.end_date = classified.period_end =>
            /\ c.fiscal_label \in EndsWith(classified.fiscal_period) \cup {None}
            /\ classified.fiscal_period # "FY" /\ Trusted(classified)
                  /\ c.duration_months = 3
               => c.fiscal_label = classified.fiscal_period

(* The document without the phrases F3's cover rule reads.                 *)
WithoutCover(doc) ==
    [doc EXCEPT !.signals = @ \ {"cover_unaudited", "provisional", "auditor_report"}]

(* A column of the same statement and period prints the label.             *)
Printed(doc, c) ==
    \E col \in Range(statement_periods_of(doc)) :
        /\ col.statement = c.statement_kind /\ col.end = c.end_date
        /\ col.months = c.duration_months /\ col.audit = c.audit_label

(* Some candidate of the other result has the same figures and label.      *)
StillLabelled(c, bare) ==
    \E d \in bare : \A k \in DOMAIN c \ {"fiscal_label", "audit_source"} : c[k] = d[k]

UpgradedBeyond(bare) ==
    {c \in candidates : /\ c.audit_source \in {"column_header_word", "f3_statement_period"}
                        /\ ~ Printed(document, c) /\ ~ StillLabelled(c, bare)}

(* I-5: a label recorded as column or statement evidence is one the        *)
(* document still gives that column when its cover says nothing, unless    *)
(* another column of the same statement and period prints it (F3 keeps one *)
(* statement period for both and no trace of the cover rule).              *)
AuditNeverUpgraded ==
    LET doc == WithoutCover(document)
    IN  stage = "built" => UpgradedBeyond(Result(doc, classify(doc, metadata))) = {}
=============================================================================

--------------------------- MODULE FinancialTruth ---------------------------
(***************************************************************************)
(* F6.3 (worker/financial_truth): which validated candidates become        *)
(* observations of an economic fact, and what the observations of several  *)
(* documents say together.  Pure functions of F5 runs, issuer decisions    *)
(* and publication instants; digests stand for the content they hash and   *)
(* are left out, and a fact is its identity.                               *)
(***************************************************************************)
EXTENDS FinancialValidation, Sequences

CONSTANT DayLength      \* instants in a Colombo day

ASSUME DayAssumption == DayLength \in Nat \ {0}

(* An instant is a natural number; day d starts at instant d * DayLength.  *)
Day(t) == t \div DayLength

ADMISSIBLE_ISSUER_BASES == {"listing_symbol_sec_id", "both"}
OP1_LIFTABLE == "operations_section_derived_on_total_row"
NIL_STATES == {"reported_nil", "reported_nil_word"}
VERSION_DOCUMENT_TYPES == {"errata_or_reissue", "amendment"}
ANNUAL_TYPES == {"annual_report", "audited_financial_statements"}

IDENTITY_SCOPE(scope) == IF scope = "unstated" THEN "unlabelled" ELSE scope
SCOPES == {"group", "company", "bank", "unlabelled"}

(***************************************************************************)
(* OP1: a section heading's operations claim holds for a row only if       *)
(* continuing + discontinued = total in the row's own column.              *)
(***************************************************************************)
OP1Rows(vals, of, operations) ==
    {v \in vals : /\ v.ctx.candidate_status = "proposed"
                  /\ v.ctx.period_derivation = "column"
                  /\ v.ctx.concept_key = of.ctx.concept_key
                  /\ v.ctx.operations = operations
                  /\ arithmetic_group_key(v.ctx) = arithmetic_group_key(of.ctx)}

(* A term is usable when all its rows are numbers, normalised and equal;   *)
(* nil is never zero.                                                      *)
OP1TermStatus(rows) ==
    CASE rows = {} -> "missing"
      [] \E v \in rows : v.value.state \in NIL_STATES -> "nil"
      [] \E v \in rows : v.value.state # "numeric" -> "non_numeric"
      [] \E v \in rows : ~ v.value.normalized -> "not_normalized"
      [] Cardinality({v.value.value : v \in rows}) > 1 -> "multiple_values"
      [] OTHER -> "usable"

OP1Term(rows) ==
    LET fine == CHOOSE v \in rows : \A w \in rows : v.value.half <= w.value.half
    IN  [value |-> fine.value.value, half |-> fine.value.half]

OP1Outcome(vals, of) ==
    LET rows(o) == OP1Rows(vals, of, o)
        all == UNION {rows(o) : o \in {"continuing", "discontinued",
                                       "total_or_unstated"}}
        c == OP1Term(rows("continuing"))
        d == OP1Term(rows("discontinued"))
        t == OP1Term(rows("total_or_unstated"))
    IN  IF \/ \E o \in {"continuing", "discontinued", "total_or_unstated"} :
                 OP1TermStatus(rows(o)) # "usable"
           \/ Cardinality({v.value.currency : v \in all}) # 1
           \/ Cardinality({v.value.type : v \in all}) # 1
        THEN "insufficient_evidence"
        ELSE IF Within(t.value, c.value + d.value, c.half + d.half + t.half)
             THEN "pass" ELSE "fail"

(* The row is itself a term of a passing partition.                        *)
OP1Lifts(vals, v) ==
    /\ v.ctx.operations_basis = "section_label"
    /\ v \in UNION {OP1Rows(vals, v, o) : o \in {"continuing", "discontinued"}}
    /\ OP1Outcome(vals, v) = "pass"

(***************************************************************************)
(* Admission, and the identity of the fact an admitted value is about.     *)
(***************************************************************************)
AdmissionReasons(vals, v, link) ==
    LET lifted == IF OP1Lifts(vals, v) THEN {OP1_LIFTABLE} ELSE {}
        nil == \E s \in NIL_STATES : v.norm = {s}
    IN  Why(v.ineligible \ lifted # {}, "validation_ineligible")
        \cup Why(v.norm # {} /\ ~ nil, "normalization_not_admissible")
        \cup Why(link = None, "issuer_link_not_supplied")
        \cup Why(link # None /\ link.status # "evidenced",
                 "issuer_link_not_evidenced")
        \cup Why(link # None /\ link.status = "evidenced"
                 /\ link.basis \notin ADMISSIBLE_ISSUER_BASES,
                 "issuer_link_path_prefix_only")
        \cup Why(v.ctx.operations_basis = "section_label"
                 /\ ~ OP1Lifts(vals, v),
                 "operations_section_derived_unvalidated")
        \cup Why(v.ctx.concept_key \in BORROWING_CONCEPTS
                 /\ v.maturity = None, "maturity_undetermined")
        \cup Why(IDENTITY_SCOPE(v.ctx.reported_scope) \notin SCOPES,
                 "scope_unrecognised")
        \cup Why(v.value.currency = None, "identity_incomplete")

Identity(v, link) ==
    [issuer_id |-> link.issuer_id, concept_key |-> v.ctx.concept_key,
     period_kind |-> v.ctx.period_kind, period_end |-> v.ctx.end_date,
     duration_months |-> IF v.ctx.period_kind = "duration"
                         THEN v.ctx.duration_months ELSE None,
     scope |-> IDENTITY_SCOPE(v.ctx.reported_scope),
     operations |-> v.ctx.operations, maturity |-> v.maturity,
     currency |-> v.value.currency]

without_currency(id) == [id EXCEPT !.currency = None]

ValueKind(v) == IF v.norm = {} THEN "numeric" ELSE "nil"

(* f6.inputs.1: the Colombo day of the merged upload instant.              *)
publication_date(uploaded) == IF uploaded = None THEN None ELSE Day(uploaded)

(* The evidence F6.1 receives about a run.                                 *)
RunEvidence(doc, link, uploaded) ==
    [issuer_link_status |-> IF link = None THEN None ELSE link.status,
     publication_date |-> publication_date(uploaded),
     fiscal_year_end_basis |-> doc.fiscal_year_end_basis,
     fiscal_year_end_status |-> doc.fiscal_year_end_status,
     period_status |-> doc.period_status]

(***************************************************************************)
(* Observations: the admitted values of one validation run for one fact.   *)
(***************************************************************************)
Member(v) == [row |-> v.ctx.row, restated |-> v.ctx.restated,
              kind |-> ValueKind(v), value |-> v.value]

compare_members(a, b) ==
    IF a.kind = "nil" \/ b.kind = "nil"
    THEN IF a.kind = b.kind THEN "agree" ELSE "disagree"
    ELSE compare_values(a.value, b.value)

Low(m) == m.value.value - m.value.half
High(m) == m.value.value + m.value.half

(* The members of one observation: consistent when every pair agrees, and  *)
(* then a nil, or an interval that all the printed precisions share.       *)
observation(d, doc, id, members) ==
    LET clash == \E a, b \in members : compare_members(a, b) = "disagree"
        kinds == {m.kind : m \in members}
        number == ~ clash /\ kinds = {"numeric"}
    IN  [doc |-> d, document_type |-> doc.document_type,
         document_type_status |-> doc.document_type_status,
         underlying_type |-> doc.underlying_type,
         identity |-> id, members |-> members,
         status |-> IF clash THEN "internally_conflicting" ELSE "consistent",
         value_kind |-> IF Cardinality(kinds) = 1
                        THEN CHOOSE k \in kinds : TRUE ELSE None,
         low |-> IF number THEN Max({Low(m) : m \in members}) ELSE None,
         high |-> IF number THEN Min({High(m) : m \in members}) ELSE None]

(* admission.validate_run, then observations.build.                        *)
Observations(d, doc, link, uploaded) ==
    LET vals == validate_run(doc.rows, RunEvidence(doc, link, uploaded)).candidates
        admitted == {v \in vals : AdmissionReasons(vals, v, link) = {}}
    IN  {observation(d, doc, i, {Member(v) : v \in {a \in admitted : Identity(a, link) = i}}) :
            i \in {Identity(v, link) : v \in admitted}}

(***************************************************************************)
(* Reconciliation.                                                         *)
(***************************************************************************)
(* D-6: one F5 run per document, the most recently recorded accepted one,  *)
(* the greater id on a tie (runs are numbered in the order of their ids).  *)
select_runs(runs) ==
    {r \in runs : /\ r.accepted
                  /\ \A q \in runs : q.accepted /\ q.doc = r.doc =>
                        \/ q.at < r.at
                        \/ q.at = r.at /\ q.id <= r.id}

(* The member with the smallest half unit, when those agree on the value.  *)
finest(members) ==
    LET fine == {m \in members : \A n \in members : m.value.half <= n.value.half}
    IN  IF Cardinality({m.value.value : m \in fine}) = 1
        THEN (CHOOSE m \in fine : TRUE).value.value ELSE None

Annotations(sos, pairs, otherCurrencies, filings) ==
    LET members == UNION {o.members : o \in sos}
        clash(p) == \E a \in p[1].members, b \in p[2].members :
                       compare_members(a, b) = "disagree"
        doctypes(p) == {p[1].document_type, p[2].document_type}
        under(p) == {p[1].underlying_type, p[2].underlying_type}
    IN  Why(\E p \in pairs : clash(p) /\ doctypes(p) \cap VERSION_DOCUMENT_TYPES # {},
            "differs_across_document_versions")
        \cup Why(\E p \in pairs : clash(p) /\ "interim_financial_statements" \in under(p)
                 /\ under(p) \cap ANNUAL_TYPES # {}, "differs_interim_vs_annual")
        \cup Why(\E o \in sos : o.status = "internally_conflicting",
                 "internal_conflict")
        \cup Why({m.kind : m \in members} = {"nil", "numeric"},
                 "nil_vs_numeric")
        \cup Why(\E m \in members : m.restated,
                 "restated_comparative_present")
        \cup Why(otherCurrencies, "multi_currency_presentation")
        \cup Why(\E o \in sos : Cardinality(filings[o.doc]) > 1,
                 "same_document_multiple_filings")

(* One observation per document.  A conflict never carries a value.        *)
reconcile_fact(sos, otherCurrencies, filings) ==
    LET members == UNION {o.members : o \in sos}
        pairs == {p \in sos \X sos : p[1] # p[2]}
        conflict == \/ \E o \in sos : o.status = "internally_conflicting"
                    \/ \E p \in pairs : \E a \in p[1].members, b \in p[2].members :
                          compare_members(a, b) = "disagree"
        number == ~ conflict /\ \A o \in sos : o.value_kind = "numeric"
    IN  [state |-> CASE conflict -> "conflicting"
                     [] Cardinality(sos) = 1 -> "single_source"
                     [] OTHER -> "corroborated",
         value_kind |-> CASE conflict -> None [] number -> "numeric"
                          [] OTHER -> "nil",
         low |-> IF number THEN Max({o.low : o \in sos}) ELSE None,
         high |-> IF number THEN Min({o.high : o \in sos}) ELSE None,
         representative |-> IF number THEN finest(members) ELSE None,
         documents |-> {o.doc : o \in sos},
         annotations |-> Annotations(sos, pairs, otherCurrencies, filings)]

(* Facts a set of observations presents in another currency too.           *)
OtherCurrency(sos, o) ==
    \E p \in sos : /\ p.doc = o.doc
                   /\ p.identity # o.identity
                   /\ without_currency(p.identity) = without_currency(o.identity)
=============================================================================

------------------------ MODULE FinancialValidation ------------------------
(***************************************************************************)
(* F6.1 (worker/financial_validation.py): what is checked of one printed   *)
(* value that F5 proposes, and what the other values of its statement say  *)
(* about it.  Everything is a function of the candidates of one F5 run and *)
(* of the evidence about the run.                                          *)
(*                                                                         *)
(* A printed text is represented by its kind ("amount", "dash", ...), a    *)
(* date by its number in a calendar whose months have one day each, and an *)
(* amount by a whole number of half units of the finest printed precision, *)
(* 10^-Decimals; the code's Decimals are exact too.  Reasons are sets:     *)
(* their order matters to reports only.                                    *)
(***************************************************************************)
EXTENDS FinancialConcepts

CONSTANT Decimals       \* the most decimals a value is printed with

ASSUME DecimalsAssumption == Decimals \in Nat

TRUSTED_ROLES == {"current", "comparative"}
TRUSTED_F3_STATUSES == {"confirmed", "document_only"}
AMOUNT_CLASSES == {"numeric", "parenthesised_negative", "minus_negative",
                   "negative_zero"}
NEGATIVE_CLASSES == {"parenthesised_negative", "minus_negative"}
TOTAL_ROW_CONCEPTS == {"profit_for_period", "profit_attributable_to_owners",
                       "profit_attributable_to_nci", "eps_basic",
                       "eps_diluted"}
BORROWING_CONCEPTS == {"interest_bearing_borrowings"}

(***************************************************************************)
(* One candidate: eligibility, period, value, maturity.                    *)
(***************************************************************************)
OperationsReasons(c) ==
    LET claimed == c.operations # "total_or_unstated"
    IN  CASE c.operations_basis = "none" ->
               Why(claimed, "operations_invalid")
          [] c.operations_basis = "section_label" ->
               Why(c.concept_key \in TOTAL_ROW_CONCEPTS,
                   "operations_section_derived_on_total_row")
          [] OTHER -> {}

EligibilityReasons(c, run) ==
    Why(c.candidate_status # "proposed", "candidate_status")
    \cup Why(c.mapping_status # "mapped" \/ c.concept_key = None,
             "mapping_not_single_concept")
    \cup Why(c.mapping_status = "mapped" /\ c.concept_key # None
             /\ c.concept_key \notin ActiveConcepts, "concept_not_active")
    \cup Why(c.role_trust # "trusted" \/ c.role \notin TRUSTED_ROLES,
             "role_untrusted")
    \cup Why(run.issuer_link_status # "evidenced", "issuer_evidence")

expected_period_class(months) ==
    CASE months = 3 -> "3m" [] months = 6 -> "6m" [] months = 9 -> "9m"
      [] months = 12 -> "12m" [] OTHER -> "other"

(* A duration ending with month e and lasting m months starts with month   *)
(* e - m + 1; an instant printed at the end of a duration column drops the *)
(* column's start and months.                                              *)
PeriodReasons(c, run) ==
    LET atEnd  == c.period_derivation = "duration_column_end"
        start  == IF atEnd THEN None ELSE c.start_date
        months == IF atEnd THEN None ELSE c.duration_months
        span   == c.period_kind = "duration" /\ months # None
    IN  Why(c.period_kind \notin {"instant", "duration"}, "period_kind")
        \cup Why(c.end_date = None, "period_end_missing")
        \cup Why(c.period_kind = "instant"
                 /\ (months # None \/ start # None), "instant_with_duration")
        \cup Why(c.period_kind = "instant" /\ c.period_class # None,
                 "instant_with_period_class")
        \cup Why(span /\ c.period_class # expected_period_class(months),
                 "period_class_inconsistent")
        \cup Why(c.period_kind = "duration" /\ months = None,
                 "duration_months_missing")
        \cup Why(span /\ months <= 0, "duration_months_invalid")
        \cup Why(span /\ start # None /\ c.end_date # None
                 /\ start # c.end_date - months + 1, "period_start")
        \cup Why(run.publication_date = None, "publication_date_not_supplied")
        \cup Why(run.publication_date # None /\ c.end_date # None
                 /\ c.end_date > run.publication_date,
                 "period_end_after_publication")
        \cup Why(c.fiscal_label # None /\ run.fiscal_year_end_basis # None
                 /\ ~ (/\ run.fiscal_year_end_basis = "documented"
                       /\ run.fiscal_year_end_status \in TRUSTED_F3_STATUSES
                       /\ run.period_status \in TRUSTED_F3_STATUSES),
                 "fiscal_label_without_documented_fye")

(* Printed nils are never numbers.                                         *)
classify_value(c) ==
    CASE c.representation_class \in AMOUNT_CLASSES ->
           IF \/ c.parsed_value = None
              \/ /\ c.representation_class \in NEGATIVE_CLASSES
                 /\ c.parsed_value >= 0
           THEN "inconsistent_input" ELSE "numeric"
      [] c.representation_class = "dash_nil" /\ c.parsed_value # None ->
           "inconsistent_input"
      [] c.raw_value = "blank" -> "blank"
      [] c.raw_value = "dash" -> "reported_nil"
      [] c.raw_value = "nil_word" -> "reported_nil_word"
      [] c.raw_value = "na_word" -> "reported_not_applicable"
      [] c.representation_class \in {"percentage", "comparison_bound",
                                     "spreadsheet_error"} -> "not_an_amount"
      [] OTHER -> "not_a_number"

IsPowerOfTen(n) == \E k \in 0..9 : n = 10 ^ k

(* The half unit of a printed value: one printed unit is the scale over    *)
(* 10^printed_decimals, counted here in half units of 10^-Decimals.        *)
HalfUnit(c) == c.reported_scale * 10 ^ (Decimals - c.printed_decimals)

normalize_value(c) ==
    LET state   == classify_value(c)
        reasons == Why(state # "numeric", state)
                   \cup Why(c.reported_currency = None, "currency")
                   \cup Why(c.value_type \notin {"currency_amount",
                                                 "per_share_amount"},
                            "value_type_unknown")
                   \cup Why(c.reported_scale = None, "scale_not_reported")
                   \cup Why(c.reported_scale # None
                            /\ ~ IsPowerOfTen(c.reported_scale),
                            "scale_unrecognised")
                   \cup Why(c.reported_scale # None /\ c.reported_scale # 1
                            /\ c.value_type = "per_share_amount",
                            "per_share_scale_not_unit")
        exact   == reasons = {}
    IN  [state |-> state, reasons |-> reasons, normalized |-> exact,
         value |-> IF exact THEN 2 * c.parsed_value * HalfUnit(c) ELSE None,
         half |-> IF exact THEN HalfUnit(c) ELSE None,
         currency |-> c.reported_currency, type |-> c.value_type]

Abs(n) == IF n < 0 THEN - n ELSE n

(* V8: two normalised values agree when their printed precisions overlap.  *)
Within(total, computed, tolerance) == Abs(total - computed) <= tolerance

(* Mutant: whole printed units instead of half units.                      *)
Bugcompare_values(a, b) ==
    CASE ~ a.normalized \/ ~ b.normalized -> "incomparable"
      [] a.currency # b.currency \/ a.type # b.type -> "incomparable"
      [] Within(a.value, b.value, 2 * (a.half + b.half)) -> "agree"
      [] OTHER -> "disagree"

compare_values(a, b) ==
    CASE ~ a.normalized \/ ~ b.normalized -> "incomparable"
      [] a.currency # b.currency \/ a.type # b.type -> "incomparable"
      [] Within(a.value, b.value, a.half + b.half) -> "agree"
      [] OTHER -> "disagree"

(* The maturity words of a liabilities section, {} for another section.    *)
borrowing_maturity(c) ==
    IF c.concept_key \in BORROWING_CONCEPTS /\ Cardinality(c.section) = 1
    THEN CHOOSE m \in c.section : TRUE ELSE None

validate_candidate(c, run) ==
    LET value      == normalize_value(c)
        ineligible == EligibilityReasons(c, run) \cup OperationsReasons(c)
                      \cup PeriodReasons(c, run)
                      \cup (value.reasons \cap {"inconsistent_input"})
        norm       == value.reasons \ {"inconsistent_input"}
    IN  [ctx |-> c, ineligible |-> ineligible, norm |-> norm, value |-> value,
         eligibility |-> CASE ineligible # {} -> "ineligible"
                           [] norm # {} -> "normalization_required"
                           [] OTHER -> "eligible",
         maturity |-> borrowing_maturity(c)]

(***************************************************************************)
(* Arithmetic within one statement column, continuation pages included.    *)
(***************************************************************************)
A_CHECKS ==
    {[id |-> "A1", kinds |-> {"financial_position"}, total |-> "total_assets",
      terms |-> <<"total_liabilities", "total_equity">>, form |-> "sum"],
     [id |-> "A2", kinds |-> INCOME_KINDS, total |-> "gross_profit",
      terms |-> <<"revenue", "cost_of_sales">>, form |-> "pm"],
     [id |-> "A3", kinds |-> INCOME_KINDS, total |-> "profit_for_period",
      terms |-> <<"profit_before_tax", "income_tax_expense">>, form |-> "pm"],
     [id |-> "A4", kinds |-> INCOME_KINDS, total |-> "profit_for_period",
      terms |-> <<"profit_attributable_to_owners",
                  "profit_attributable_to_nci">>, form |-> "pair"],
     [id |-> "A5", kinds |-> INCOME_KINDS, total |-> "net_interest_income",
      terms |-> <<"interest_income", "interest_expense">>, form |-> "pm"]}

SIGN_RELATIONS(concept) == {k \in A_CHECKS : k.form = "pm" /\ k.terms[2] = concept}

arithmetic_group_key(c) ==
    <<c.statement_root, c.statement_kind, c.period_kind, c.end_date,
      IF c.period_kind = "duration" THEN c.duration_months ELSE None,
      c.reported_scope, c.role>>

(* Issuer evidence and role trust are not required: the checks test the    *)
(* document, not the fact.                                                 *)
Usable(v) ==
    /\ v.ctx.candidate_status = "proposed" /\ v.value.normalized
    /\ v.ctx.concept_key # None /\ v.ctx.period_derivation = "column"
    /\ v.ctx.operations = "total_or_unstated"

UsableRows(group, concept) ==
    {v \in group : v.ctx.concept_key = concept /\ Usable(v)}

FirstRow(rows) == CHOOSE v \in rows : \A w \in rows : v.ctx.row <= w.ctx.row

(* One distinct usable value, or no row.                                   *)
SingleRows(group, concept) ==
    LET rows == UsableRows(group, concept)
    IN  IF Cardinality({v.value.value : v \in rows}) = 1
        THEN {FirstRow(rows)} ELSE {}

(* Which of the two readings of total = first +- second hold.              *)
Variant(total, first, second, tolerance) ==
    LET plus  == Within(total, first + second, tolerance)
        minus == Within(total, first - second, tolerance)
    IN  CASE plus /\ minus -> "either" [] plus -> "as_printed"
          [] minus -> "reversed" [] OTHER -> "fail"

Decide(check, total, first, second) ==
    LET tolerance == total.value.half + first.value.half + second.value.half
        variant == Variant(total.value.value, first.value.value,
                           second.value.value, tolerance)
    IN  [id |-> check.id, total |-> total, first |-> first, second |-> second,
         variant |->
            IF Cardinality({total.value.currency, first.value.currency,
                            second.value.currency}) > 1 THEN "insufficient"
            ELSE IF check.form = "pm" THEN variant
            ELSE IF variant \in {"either", "as_printed"} THEN "as_printed"
            ELSE "fail"]

(* A4 pairs each owners row with the first minority row printed after it.  *)
TermRows(check, group) ==
    IF check.form # "pair"
    THEN SingleRows(group, check.terms[1]) \X SingleRows(group, check.terms[2])
    ELSE LET nci(o) == {n \in UsableRows(group, check.terms[2]) :
                           n.ctx.row > o.ctx.row}
         IN  {<<o, FirstRow(nci(o))>> :
                o \in {v \in UsableRows(group, check.terms[1]) : nci(v) # {}}}

(* The checks that could be decided; the others are reported as not        *)
(* applicable or as lacking evidence, and nothing reads them.              *)
arithmetic_diagnostics(vals) ==
    UNION {UNION {{Decide(k, t, p[1], p[2]) :
                      t \in SingleRows(g, k.total), p \in TermRows(k, g)} :
                  k \in {a \in A_CHECKS : \E v \in g : v.ctx.statement_kind \in a.kinds}} :
           g \in {{w \in vals : arithmetic_group_key(w.ctx) = arithmetic_group_key(v.ctx)} :
                     v \in vals}}

(* The convention a relation in the same column establishes for a value,   *)
(* and what the value contributes to profit when that is safe to say.      *)
Convention(v, arithmetic) ==
    LET amount == v.value.value
        found  == {r \in arithmetic :
                     /\ \E k \in SIGN_RELATIONS(v.ctx.concept_key) : k.id = r.id
                     /\ r.second = v /\ r.variant # "insufficient"}
        said   == {r.variant : r \in found}
    IN  CASE natural_sign(v.ctx.concept_key) = "income" -> "as_printed"
          [] natural_sign(v.ctx.concept_key) # "expense" -> "not_applicable"
          [] amount = 0 -> "zero"
          [] said = {"as_printed"} -> "as_printed"
          [] said = {"reversed"} -> "reversed"
          [] found = {} /\ amount < 0 -> "as_printed"
          [] OTHER -> "undetermined"

Contribution(v, convention) ==
    CASE convention = "as_printed" -> v.value.value
      [] convention = "reversed" -> - v.value.value
      [] convention = "zero" -> 0
      [] OTHER -> None

detect_signs(vals, arithmetic) ==
    {[of |-> v, convention |-> Convention(v, arithmetic),
      contribution |-> Contribution(v, Convention(v, arithmetic))] :
        v \in {w \in vals : Usable(w)}}

(* Every candidate of one run, then the diagnostics over them.             *)
validate_run(contexts, run) ==
    LET vals == {validate_candidate(c, run) : c \in contexts}
        arithmetic == arithmetic_diagnostics(vals)
    IN  [candidates |-> vals, arithmetic |-> arithmetic,
         signs |-> detect_signs(vals, arithmetic)]
=============================================================================

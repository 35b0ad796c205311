-------------------------- MODULE FinancialConcepts --------------------------
(***************************************************************************)
(* F5's vocabulary (financial_concepts.py) and the reading of one printed  *)
(* cell (financial_values.py).                                             *)
(*                                                                         *)
(* A label is the class of wordings one rule accepts, named for the        *)
(* concept where a wording names a single one; a printed value is          *)
(* [form, n, decimals]: how it is printed, its digits and its decimals.    *)
(***************************************************************************)
EXTENDS Integers, FiniteSets, FiniteSetsExt

CONSTANT None       \* an absent value

(* The singleton of a reason that applies.                                 *)
Why(applies, reason) == IF applies THEN {reason} ELSE {}

(* The one element of a singleton, or nothing.                             *)
Single(S) == IF Cardinality(S) = 1 THEN CHOOSE x \in S : TRUE ELSE None

(***************************************************************************)
(* The concepts.                                                           *)
(***************************************************************************)
GeneralIncome == {"revenue", "cost_of_sales", "gross_profit",
                  "operating_profit", "finance_costs"}
CommonIncome == {"profit_before_tax", "income_tax_expense",
                 "profit_for_period", "profit_attributable_to_owners",
                 "profit_attributable_to_nci", "eps_basic", "eps_diluted"}
BankIncome == {"interest_income", "interest_expense", "net_interest_income",
               "net_fee_and_commission_income", "total_operating_income",
               "impairment_charges", "gross_income",
               "operating_profit_before_taxes_on_financial_services"}
CommonPosition == {"total_assets", "total_liabilities", "total_equity",
                   "equity_attributable_to_owners",
                   "cash_and_cash_equivalents"}
GeneralPosition == {"trade_and_other_receivables", "inventories",
                    "interest_bearing_borrowings"}
BankPosition == {"loans_and_advances_to_customers", "customer_deposits"}
CashFlows == {"net_cash_from_operating_activities",
              "net_cash_from_investing_activities",
              "net_cash_from_financing_activities", "purchase_of_ppe",
              "dividends_paid", "cash_at_end_of_period"}

Income == GeneralIncome \cup CommonIncome \cup BankIncome
Position == CommonPosition \cup GeneralPosition \cup BankPosition
ActiveConcepts == Income \cup Position \cup CashFlows

INCOME_KINDS == {"profit_or_loss", "comprehensive_income"}

statement_kinds(concept) ==
    CASE concept \in Income -> INCOME_KINDS
      [] concept \in Position -> {"financial_position"}
      [] OTHER -> {"cash_flows"}

industries(concept) ==
    CASE concept \in GeneralIncome \cup GeneralPosition -> {"general"}
      [] concept \in BankIncome \cup BankPosition -> {"bank_finance"}
      [] OTHER -> {"general", "bank_finance"}

concept_period_kind(concept) ==
    IF concept \in Position \cup {"cash_at_end_of_period"}
    THEN "instant" ELSE "duration"

concept_value_type(concept) ==
    IF concept \in {"eps_basic", "eps_diluted"}
    THEN "per_share_amount" ELSE "currency_amount"

natural_sign(concept) ==
    CASE concept \in {"cost_of_sales", "finance_costs", "income_tax_expense",
                      "interest_expense", "impairment_charges"} -> "expense"
      [] concept \in Income -> "income"
      [] concept \in {"purchase_of_ppe", "dividends_paid"} -> "outflow"
      [] concept_period_kind(concept) = "instant" -> "balance"
      [] OTHER -> "as_printed"

(***************************************************************************)
(* Labels to concepts.                                                     *)
(***************************************************************************)
Rule(label, concept, section, kinds) ==
    [label |-> label, concept |-> concept, section |-> section, kinds |-> kinds]

(* A label that names one concept; "owners" and "nci" need the heading     *)
(* "profit attributable to", or in a profit or loss statement just         *)
(* "attributable to"; a combined EPS row names two concepts.               *)
RULES ==
    {Rule(c, c, None, {}) : c \in ActiveConcepts}
    \cup (UNION {{Rule(p[1], p[2], "profit_attributable_to", {}),
                  Rule(p[1], p[2], "attributable_to", {"profit_or_loss"})} :
                 p \in {<<"owners", "profit_attributable_to_owners">>,
                        <<"nci", "profit_attributable_to_nci">>}})
    \cup {Rule("basic", "eps_basic", "earnings_per_share", {}),
          Rule("diluted", "eps_diluted", "earnings_per_share", {}),
          Rule("eps", "eps_basic", None, {}), Rule("eps", "eps_diluted", None, {})}

(* Bank or finance only when an income statement of the document itself    *)
(* prints "net interest income".                                           *)
choose_template(statements) ==
    IF \E s \in statements : /\ s.kind \in INCOME_KINDS
                              /\ \E r \in s.rows : r.label = "net_interest_income"
    THEN "bank_finance" ELSE "general"

rule_allowed(rule, template, kind) ==
    /\ template \in industries(rule.concept)
    /\ kind \in IF rule.kinds = {} THEN statement_kinds(rule.concept) ELSE rule.kinds

map_label(kind, template, label, section) ==
    LET hits == {r.concept : r \in
                   {q \in RULES : /\ rule_allowed(q, template, kind)
                                  /\ q.label = label
                                  /\ q.section \in {None, section}}}
    IN  [status |-> CASE hits = {} -> "unmapped"
                      [] Cardinality(hits) > 1 -> "ambiguous"
                      [] OTHER -> "mapped",
         concept |-> Single(hits)]

(* The operations a row claims in its own words, or under its heading.     *)
row_operations(row) ==
    CASE row.words \cap {"continuing", "discontinued"} # {} ->
           [of |-> IF "discontinued" \in row.words THEN "discontinued" ELSE "continuing",
            basis |-> "row_label"]
      [] row.section \in {"continuing", "discontinued"} ->
           [of |-> row.section, basis |-> "section_label"]
      [] OTHER -> [of |-> "total_or_unstated", basis |-> "none"]

(***************************************************************************)
(* Printed values.  A parenthesis closes a percentage or it is malformed.  *)
(***************************************************************************)
parse_value(v) ==
    LET number(class, value) ==
            [parsed |-> value, class |-> class, decimals |-> v.decimals]
        without(class) == [parsed |-> None, class |-> class, decimals |-> None]
    IN  CASE v.form = "dash" -> without("dash_nil")
          [] v.form = "error" -> without("spreadsheet_error")
          [] v.form = "plain" -> number("numeric", v.n)
          [] v.form \in {"paren", "minus"} /\ v.n = 0 -> number("negative_zero", 0)
          [] v.form = "paren" -> number("parenthesised_negative", - v.n)
          [] v.form = "minus" -> number("minus_negative", - v.n)
          [] v.form = "percent" -> number("percentage", v.n)
          [] v.form = "negative_percent" -> number("percentage", - v.n)
          [] v.form = "bound" -> without("comparison_bound")
          [] v.form \in {"malformed", "open_percent"} -> without("unresolved")
          [] OTHER -> without("text")
=============================================================================

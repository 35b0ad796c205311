----------------------------- MODULE Extraction -----------------------------
(***************************************************************************)
(* F4 (statement_extraction.py): the cells of a document's statements with *)
(* the period, role, scope, scale and status each one has.                 *)
(*                                                                         *)
(* The geometry that forms lines, cells and columns is settled before: a   *)
(* printed column says how its header anchor was found, a row holds the    *)
(* values that fell into each column, and a unit phrase is                 *)
(* [zone, amount, word, currency, declares].  The layout that shares one   *)
(* date between two columns is not modelled.                               *)
(***************************************************************************)
EXTENDS Classification

(***************************************************************************)
(* Which pages can be trusted: coverage by images is in tenths, painted is *)
(* the share of the text that is visibly painted, None when unknown.       *)
(***************************************************************************)
page_trust(p) ==
    LET coverage == Min({10, p.opaque + p.masked})
        unseen == p.painted = None \/ (p.painted # None /\ p.painted < 9)
    IN  IF ~ p.has_text THEN "no_text_layer"
        ELSE IF p.opaque >= 8 \/ (coverage >= 3 /\ unseen) \/ p.anomalies
        THEN "ocr_layer_suspected" ELSE "text_native"

(***************************************************************************)
(* Scale.                                                                  *)
(***************************************************************************)
Magnitude(p) ==
    CASE p.word = "thousands" -> 10 ^ 3
      [] p.word = "billions" /\ (p.currency # None \/ p.declares) -> 10 ^ 9
      [] p.word = "millions" /\ (p.currency # None \/ p.declares) -> 10 ^ 6
      [] OTHER -> None

(* A phrase that carries an amount is no scale; a bare currency is weak.   *)
scale_evidence(p) ==
    CASE p.amount -> None
      [] ~ p.amount /\ Magnitude(p) # None ->
           [magnitude |-> Magnitude(p), strength |-> "strong"]
      [] ~ p.amount /\ Magnitude(p) = None /\ p.currency # None ->
           [magnitude |-> 1, strength |-> IF p.declares THEN "strong" ELSE "weak"]
      [] OTHER -> None

(* Below the last row only a declaration counts.                           *)
resolve_scale(units) ==
    LET usable == {p \in units : /\ scale_evidence(p) # None
                                 /\ p.zone = "footer" => p.declares}
        of(strength) == {scale_evidence(p).magnitude : p \in
                           {q \in usable : scale_evidence(q).strength = strength}}
        is(scale, status) ==
            [scale |-> scale, status |-> status,
             currency |-> Single({p.currency : p \in usable} \ {None})]
    IN  CASE Cardinality(of("strong")) > 1 -> is(None, "conflicting")
          [] Cardinality(of("strong")) = 1 -> is(Single(of("strong")), "resolved")
          [] OTHER -> IF of("weak") # {} THEN is(1, "resolved")
                      ELSE is(None, "unresolved")

(* A page that continues a statement without a heading takes its scale     *)
(* where nothing is said of one; another scale taints the page.            *)
inherited_scale(own, units, parent) ==
    CASE own.status = "unresolved"
         /\ ~ \E p \in units : p.amount /\ (p.word # None \/ p.currency # None) -> parent
      [] own.status = "resolved" /\ parent.status = "resolved"
         /\ own.scale # parent.scale -> [own EXCEPT !.scale = None, !.status = "conflicting"]
      [] OTHER -> own

(***************************************************************************)
(* Columns and their roles.                                                *)
(***************************************************************************)
Trusted(cls) == cls.period_status \in TRUSTED_F3_STATUSES

(* Role and label of F3's statement periods for this kind and period, each *)
(* where they agree.                                                       *)
match_f3_role(cls, kind, col) ==
    LET hits == {s \in cls.statement_periods :
                   s.statement_kind = kind /\ s.period = PeriodOf(col)}
    IN  [role |-> Single({s.role : s \in hits}),
         audit |-> Single({s.audit_status : s \in hits})]

StatementScopes(st) ==
    st.scopes \cup UNION {st.columns[i].scopes : i \in DOMAIN st.columns}

(* The month range over a year-only column dates it.                       *)
month_range(st, c, h) ==
    IF h.end = None /\ c.month = None /\ c.range # None /\ st.kind # "financial_position"
    THEN [h EXCEPT !.kind = "duration", !.months = c.range.months,
                   !.label = Label(c.range.months), !.end = 12 * c.year + c.range.month]
    ELSE h

(* The column's own header cell states another duration than its date.     *)
header_duration_conflict(st, c, h) ==
    /\ st.kind \in DURATION_STATEMENTS /\ c.tight # None
    /\ h.end # None /\ h.months # None /\ Months(c.tight) # h.months

(* A column that is not a period.                                          *)
OtherColumn(c, kind, status) ==
    [index |-> c.index, column_kind |-> kind, status |-> status, scope |-> None,
     words |-> c.words, kind |-> None, months |-> None, label |-> None, end |-> None,
     audit |-> "unknown", restated |-> FALSE, role |-> "unknown",
     role_basis |-> None, audit_status |-> "unknown"]

(* A period column; an undated one has no period.                          *)
PeriodColumn(st, c, h) ==
    LET dated  == month_range(st, c, h)
        scopes == IF Cardinality(h.scopes) = 1 THEN h.scopes ELSE StatementScopes(st)
    IN  [OtherColumn(c, "period",
                     IF header_duration_conflict(st, c, dated) THEN "ambiguous"
                     ELSE IF \/ dated.end = None
                             \/ dated.kind = "duration" /\ dated.months = None
                     THEN "unresolved" ELSE "resolved") EXCEPT
            !.scope = Single(scopes), !.label = dated.label, !.end = dated.end,
            !.kind = IF dated.end = None THEN None ELSE dated.kind,
            !.months = IF dated.end = None THEN None ELSE dated.months,
            !.audit = dated.audit, !.restated = dated.restated]

(* The columns of a statement, before roles are assigned.                  *)
PlainColumns(st) ==
    LET heads == parse_statement_header(st)
        column(c, i) ==
            CASE st.kind = "changes_in_equity" ->
                   OtherColumn(c, "equity_component", "unresolved")
              [] st.kind # "changes_in_equity" /\ c.anchor = "date" ->
                   PeriodColumn(st, c, heads[i])
              [] st.kind # "changes_in_equity" /\ c.anchor = "rivals" ->
                   OtherColumn(c, "unmapped", "ambiguous")
              [] st.kind # "changes_in_equity"
                 /\ c.anchor \in {"note_reference", "variance"} ->
                   OtherColumn(c, c.anchor, "resolved")
              [] OTHER -> OtherColumn(c, "unmapped", "unresolved")
    IN  [i \in DOMAIN st.columns |-> column(st.columns[i], i)]

(* Variance columns close groups of period columns; where each of several  *)
(* groups has one scope printed over it, and no two the same, that is the  *)
(* scope of its columns.                                                   *)
group_scopes(st, plain) ==
    LET closed(i) == Cardinality({j \in 1 .. (i - 1) : plain[j].column_kind = "variance"})
        members == {i \in DOMAIN plain : plain[i].column_kind = "period"}
        groups == {closed(i) : i \in members}
        over(g) == UNION {st.columns[i].labels : i \in
                     {j \in DOMAIN plain : /\ closed(j) = g
                        /\ plain[j].column_kind \in {"period", "variance"}}}
        applies == /\ Cardinality(groups) >= 2
                   /\ \A g \in groups : Cardinality(over(g)) = 1
                   /\ \A g, h \in groups : over(g) = over(h) => g = h
    IN  IF ~ applies THEN plain
        ELSE [i \in DOMAIN plain |->
                IF i \in members THEN [plain[i] EXCEPT !.scope = Single(over(closed(i)))]
                ELSE plain[i]]

RoleAs(role, basis) == [role |-> role, role_basis |-> basis]

(* F3's role under a period the document evidences, then the words over    *)
(* the column, then F3's own rule for the end of the period.               *)
LeadRole(cls, kind, col, word) ==
    LET f3 == match_f3_role(cls, kind, col).role
    IN  IF Trusted(cls) /\ f3 \in TRUSTED_ROLES THEN RoleAs(f3, "f3.statement_period")
        ELSE IF word # None THEN RoleAs(word, "f4.explicit_header_word")
        ELSE IF Trusted(cls) /\ cls.period_end # None /\ col.end = cls.period_end
        THEN RoleAs("current", "f4.mirrored_f3_role_rule")
        ELSE RoleAs("unknown", None)

(* "Current" or "previous" over the column when only one of them is.       *)
explicit_role(c) == Single(c.words \cap TRUSTED_ROLES)

mirror_role(cls, kind, col, currents) ==
    LET before == IF Trusted(cls) /\ cls.period_start # None
                  THEN cls.period_start - 1 ELSE None
    IN  \E cur \in currents :
           \/ /\ col.kind = "duration" /\ cur.kind = "duration"
              /\ col.months = cur.months /\ PriorYear(col.end, cur.end)
           \/ /\ col.kind = "instant" /\ cur.kind = "instant"
              /\ kind = "financial_position"
              /\ PriorYear(col.end, cur.end) \/ col.end = before

(* Roles last: currents first, so that comparatives can refer to them.     *)
AssignRoles(cls, st, plain) ==
    LET dated == {i \in DOMAIN plain : /\ plain[i].column_kind = "period"
                                       /\ plain[i].end # None}
        lead  == [i \in dated |-> LeadRole(cls, st.kind, plain[i],
                                           explicit_role(st.columns[i]))]
        currents == {plain[i] : i \in {j \in dated : lead[j].role = "current"}}
        role(i) == IF lead[i].role = "unknown"
                      /\ mirror_role(cls, st.kind, plain[i], currents)
                   THEN RoleAs("comparative", "f4.mirrored_f3_role_rule") ELSE lead[i]
        label(i) == LET f3 == match_f3_role(cls, st.kind, plain[i])
                    IN  IF f3.role # None /\ f3.audit # None /\ plain[i].audit = "unknown"
                        THEN f3.audit ELSE plain[i].audit
    IN  [i \in DOMAIN plain |->
            IF i \notin dated THEN plain[i]
            ELSE [plain[i] EXCEPT !.role = role(i).role, !.role_basis = role(i).role_basis,
                                  !.audit_status = label(i)]]

build_columns(cls, st) == AssignRoles(cls, st, group_scopes(st, PlainColumns(st)))

(***************************************************************************)
(* Cells.                                                                  *)
(***************************************************************************)
(* A unit printed on the row overrides the statement's; an amount per      *)
(* share is never in thousands.                                            *)
row_scale(row, class, st) ==
    LET is(scale, problem) == [scale |-> scale, problem |-> problem]
    IN  IF class \in {"percentage", "comparison_bound"} THEN is(None, None)
        ELSE IF st.status = "conflicting" THEN is(None, "conflicting")
        ELSE IF "percent" \in row.words THEN is(None, None)
        ELSE IF "unit" \in row.words THEN is(1, None)
        ELSE IF "per_share" \in row.words
        THEN IF st.status = "resolved" /\ st.scale = 1 THEN is(1, None)
             ELSE is(None, "unresolved")
        ELSE IF st.status = "resolved" THEN is(st.scale, None)
        ELSE is(None, "unresolved")

make_cell(scale, row, col, v, multiple) ==
    LET pv    == parse_value(v)
        used  == row_scale(row, pv.class, scale)
        hard  == \/ col.column_kind \notin {"period", "variance"}
                 \/ col.status # "resolved" \/ row.label = None
                 \/ pv.class \in {"text", "unresolved", "spreadsheet_error"}
                 \/ multiple \/ used.problem = "unresolved"
        clash == used.problem = "conflicting" \/ row.check = "disagree"
    IN  [row |-> row, col |-> col, raw |-> v, value |-> pv, scale |-> used.scale,
         currency |-> scale.currency,
         status |-> IF col.column_kind = "variance" THEN "non_period"
                    ELSE IF hard THEN "unresolved"
                    ELSE IF clash THEN "conflicting" ELSE "extracted"]

StatementScale(doc, st) ==
    LET own == resolve_scale(st.units)
    IN  IF ~ st.headless THEN own
        ELSE inherited_scale(own, st.units, resolve_scale(doc.statements[st.continues].units))

(* The statements of trusted pages.                                        *)
ReadRegion(i, st, columns, scale) ==
    LET read == page_trust(st.trust) = "text_native" /\ DOMAIN columns # {}
    IN  [index |-> i, kind |-> st.kind,
         root |-> IF st.continues = None THEN i ELSE st.continues,
         columns |-> {columns[j] : j \in DOMAIN columns},
         rows |-> IF read THEN st.rows ELSE {},
         cells |-> IF ~ read THEN {}
                   ELSE UNION {UNION {{make_cell(scale, r, columns[j], v,
                                                  Cardinality(r.cells[j]) > 1) :
                                         v \in r.cells[j]} :
                                      j \in DOMAIN columns} : r \in st.rows}]

(* A continuation page without a header takes the columns of the statement *)
(* it continues.                                                           *)
extract_region(doc, cls, i) ==
    LET st == doc.statements[i]
        source == IF st.headless /\ st.columns = <<>>
                  THEN doc.statements[st.continues] ELSE st
    IN  ReadRegion(i, st, build_columns(cls, source), StatementScale(doc, st))

extract_from_words(doc, cls) ==
    {extract_region(doc, cls, i) : i \in DOMAIN doc.statements}
=============================================================================

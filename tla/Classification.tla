--------------------------- MODULE Classification ---------------------------
(***************************************************************************)
(* F3 (report_classification.py): what a report is, which period it        *)
(* reports and what its statement columns stand for, decided from the      *)
(* document; the filing's metadata may only confirm or contradict it.      *)
(*                                                                         *)
(* A document is [text, signals, front, deep, statements, year_phrases,    *)
(* long]: how much of it has a text layer, the phrases found in it, the    *)
(* first period phrase of its front matter (and of its first ten pages),   *)
(* its statements in reading order and the months named by "year ended"    *)
(* phrases.  Where a header cell stands is settled by the layout rules     *)
(* before; here a column has the words that were matched to it.  A date is *)
(* a month, as in FinancialValidation: every date is a month end.          *)
(***************************************************************************)
EXTENDS FinancialTruth, SequencesExt

Year(t) == t \div 12
Month(t) == t % 12
PriorYear(t, u) == u - t = 12

DURATION_STATEMENTS == {"profit_or_loss", "comprehensive_income", "cash_flows"}

(* A period phrase: n months, "quarter", "half", "year" or "period" ended. *)
MonthsWords == {"3M", "6M", "9M", "12M"}
Months(word) ==
    CASE word \in {"3M", "quarter"} -> 3 [] word \in {"6M", "half"} -> 6
      [] word = "9M" -> 9 [] word \in {"12M", "year"} -> 12 [] OTHER -> None
Label(months) == CASE months = 3 -> "3M" [] months = 6 -> "6M"
                   [] months = 9 -> "9M" [] OTHER -> "12M"

duration_of(word) ==
    [months |-> Months(word),
     label |-> CASE word = None -> None [] word = "period" -> "unspecified"
                 [] word = "quarter" -> "quarter" [] OTHER -> Label(Months(word))]

(***************************************************************************)
(* Metadata hints.                                                         *)
(***************************************************************************)
TitleTypes(words) ==
    LET said == words \cap {"press_release", "annual_report",
                            "audited_financial_statements",
                            "interim_financial_statements"}
    IN  IF said = {} /\ "year_ended" \in words
        THEN {"annual_report", "audited_financial_statements"} ELSE said

(* The manual date is a placeholder in the first year, and worthless when  *)
(* it is the upload date; "quarter ended" gives an end date only.          *)
interpret_metadata(meta) ==
    [title_types |-> TitleTypes(meta.words),
     title_revision |-> IF "errata" \in meta.words THEN "errata_or_reissue"
                        ELSE IF "amend" \in meta.words THEN "amendment" ELSE None,
     title_end |-> meta.title_end,
     title_duration |-> IF meta.title_word \in {"quarter", "period"} THEN None
                        ELSE duration_of(meta.title_word).months,
     manual_date |-> IF \/ meta.manual_date \in {None, meta.uploaded}
                        \/ Year(meta.manual_date) = 0
                     THEN None ELSE meta.manual_date,
     bucket_types |-> (IF "annual" \in meta.buckets THEN ANNUAL_TYPES ELSE {})
                      \cup Why("quarterly" \in meta.buckets,
                               "interim_financial_statements"),
     uploaded |-> meta.uploaded]

(***************************************************************************)
(* The columns of one statement header.                                    *)
(***************************************************************************)
HeaderWords(st) ==
    ({st.columns[i].word : i \in DOMAIN st.columns} \cup {p.word : p \in st.phrases})
    \ {None}

(* A column without a duration of its own takes the only one in the        *)
(* header; one without a month takes the month of the header's phrase.     *)
HeaderColumn(st, c) ==
    LET words   == HeaderWords(st)
        stated  == words \cap (MonthsWords \cup {"quarter", "year"})
        shared  == {Months(w) : w \in stated}
        adopts  == c.word = None /\ st.kind \in DURATION_STATEMENTS
                   /\ Cardinality(shared) = 1
        counted == words \cap MonthsWords # {}
        own     == duration_of(c.word)
        months  == IF adopts THEN Single(shared) ELSE own.months
        label   == IF ~ adopts THEN own.label
                   ELSE IF months = 3 /\ "quarter" \in words /\ ~ counted
                   THEN "quarter" ELSE Label(months)
        named   == IF adopts THEN months = 12 /\ "year" \in words /\ ~ counted
                   ELSE c.word = "year"
        offered == {p.month : p \in st.phrases}
        fills   == /\ c.month = None /\ Cardinality(offered) = 1
                   /\ label = "12M" => \E p \in st.phrases :
                                          duration_of(p.word).label = "12M"
        month   == IF fills THEN Single(offered) ELSE c.month
        instant == st.kind = "financial_position" \/ (label = None /\ c.as_at)
    IN  [index |-> c.index, statement |-> st.kind, page |-> st.page,
         kind |-> IF instant THEN "instant" ELSE "duration",
         months |-> IF instant THEN None ELSE months,
         label |-> IF instant THEN None
                   ELSE IF label = None THEN "unspecified" ELSE label,
         end |-> IF month = None THEN None ELSE 12 * c.year + month,
         year_word |-> named /\ ~ instant, filled |-> fills,
         audit |-> IF "provisional" \in c.words THEN "provisional"
                   ELSE IF "unaudited" \in c.words THEN "unaudited"
                   ELSE IF "audited" \in c.words THEN "audited" ELSE "unknown",
         role_word |-> IF "current" \in c.words THEN "current"
                       ELSE IF "comparative" \in c.words THEN "comparative"
                       ELSE None,
         restated |-> "restated" \in c.words, scopes |-> c.scopes]

(* Columns that the shared phrase gives one period but whose audit words   *)
(* differ stay without a date.                                             *)
WithoutClashes(parsed) ==
    LET clash(c) == \E i \in DOMAIN parsed :
                       /\ c.filled /\ parsed[i].filled
                       /\ \A k \in {"end", "kind", "label", "scopes"} :
                             parsed[i][k] = c[k]
                       /\ parsed[i].audit # c.audit
    IN  [i \in DOMAIN parsed |->
            IF clash(parsed[i]) THEN [parsed[i] EXCEPT !.end = None] ELSE parsed[i]]

parse_statement_header(st) ==
    IF st.kind = "changes_in_equity" THEN <<>>
    ELSE WithoutClashes([i \in DOMAIN st.columns |-> HeaderColumn(st, st.columns[i])])

(* Without columns, one full-date phrase directly under the heading.       *)
HeadingColumn(st) ==
    LET instant == st.kind = "financial_position"
        duration == duration_of(st.near.word)
        dated == st.near # None /\ st.kind # "changes_in_equity"
                 /\ (instant \/ st.near.word # "as_at")
    IN  IF ~ dated THEN <<>>
        ELSE <<[index |-> None, statement |-> st.kind, page |-> st.page,
                kind |-> IF instant THEN "instant" ELSE "duration",
                months |-> IF instant THEN None ELSE duration.months,
                label |-> IF instant THEN None ELSE duration.label,
                end |-> st.near.end, year_word |-> FALSE, filled |-> FALSE,
                audit |-> "unknown", role_word |-> None, restated |-> FALSE,
                scopes |-> {}]>>

statement_columns(st) ==
    IF st.columns = <<>> THEN HeadingColumn(st) ELSE parse_statement_header(st)

(* The columns of the document, by statement and place in its header, and  *)
(* their reading order.                                                    *)
statement_periods_of(doc) ==
    LET places == UNION {{i} \X DOMAIN statement_columns(doc.statements[i]) :
                            i \in DOMAIN doc.statements}
    IN  [p \in places |-> statement_columns(doc.statements[p[1]])[p[2]]]

Before(p, q) == p[1] < q[1] \/ (p[1] = q[1] /\ p[2] < q[2])

FirstOf(places) == CHOOSE p \in places : \A q \in places : ~ Before(q, p)

(***************************************************************************)
(* The period the document reports.                                        *)
(***************************************************************************)
Period(end, months, label, year_word, instant, conflict) ==
    [end |-> end, months |-> months, label |-> label, year_word |-> year_word,
     instant |-> instant, internal_conflict |-> conflict]

PhrasePeriod(phrase) ==
    LET d == duration_of(phrase.word)
    IN  Period(phrase.end, d.months, d.label, phrase.word = "year", FALSE, FALSE)

front_period(doc) ==
    CASE doc.front # None -> PhrasePeriod(doc.front)
      [] doc.front = None /\ doc.deep # None
         /\ doc.signals \cap {"annual_report", "annual_report_year"} # {} ->
           PhrasePeriod(doc.deep)
      [] OTHER -> None

Dated(cols, kind) ==
    {cols[i] : i \in {j \in DOMAIN cols : cols[j].end # None /\ cols[j].kind = kind}}

(* The latest duration column, the longest of those at its end; the first  *)
(* one where several are as long.                                          *)
doc_period_from_statements(cols) ==
    LET timed == {c \in Dated(cols, "duration") : c.statement \in DURATION_STATEMENTS}
        end   == Max({c.end : c \in timed})
        last  == {c \in timed : c.end = end}
        known == {c \in last : c.months # None}
        best  == {c \in IF known = {} THEN last ELSE known :
                     known # {} => \A d \in known : d.months <= c.months}
        i     == FirstOf({j \in DOMAIN cols : cols[j] \in best})
    IN  IF timed = {} THEN None
        ELSE Period(end, cols[i].months, cols[i].label, cols[i].year_word, FALSE, FALSE)

DocumentPeriod(doc, cols) ==
    LET front == front_period(doc)
        stmt  == doc_period_from_statements(cols)
        insts == Dated(cols, "instant")
        longer == stmt.months # None
                  /\ (front.months = None \/ stmt.months > front.months)
    IN  CASE front # None /\ stmt # None ->
               IF stmt.end # front.end THEN [front EXCEPT !.internal_conflict = TRUE]
               ELSE IF longer THEN stmt ELSE front
          [] front # None /\ stmt = None -> front
          [] front = None /\ stmt # None -> stmt
          [] OTHER -> IF insts = {} THEN None
                      ELSE Period(Max({c.end : c \in insts}), None, None, FALSE,
                                  TRUE, FALSE)

(***************************************************************************)
(* What the document is.                                                   *)
(***************************************************************************)
UnderlyingType(doc, period) ==
    LET sig     == doc.signals
        full    == Cardinality({doc.statements[i].kind : i \in DOMAIN doc.statements}) >= 2
        months  == IF period = None THEN None ELSE period.months
        short   == months # None /\ months < 12
        narrative == {"narrative_0", "narrative_1"} \subseteq sig
        interim == sig \cap {"interim", "provisional"} # {}
        titled  == "annual_report_year" \in sig
        annual  == titled \/ ("annual_report" \in sig /\ ~ interim)
    IN  IF ~ full /\ "press" \in sig THEN "press_release"
        ELSE IF interim /\ titled /\ full
        THEN IF short THEN "interim_financial_statements" ELSE "undetermined"
        ELSE IF annual /\ (full \/ narrative \/ titled) THEN "annual_report"
        ELSE IF full /\ narrative /\ months = 12 /\ ~ interim THEN "annual_report"
        ELSE IF interim \/ (full /\ short) THEN "interim_financial_statements"
        ELSE IF full /\ months = 12 /\ "auditor_report" \in sig
        THEN "audited_financial_statements"
        ELSE IF full \/ doc.text = "mostly_images" THEN "undetermined"
        ELSE "other"

UnderlyingStatus(type, hints) ==
    CASE type = "undetermined" ->
           IF hints.title_types # {} THEN "metadata_only" ELSE "undetermined"
      [] type # "undetermined" /\ hints.title_types = {} -> "document_only"
      [] OTHER -> IF \/ type \in hints.title_types
                     \/ type \in ANNUAL_TYPES /\ hints.title_types \cap ANNUAL_TYPES # {}
                  THEN "confirmed" ELSE "conflicting"

(* A revision the document states, or else the title, names the type.      *)
DocumentType(sig, type, status, hints) ==
    LET said == IF "amendment" \in sig THEN "amendment"
                ELSE IF sig \cap {"errata", "revised"} # {} THEN "errata_or_reissue"
                ELSE None
        told == hints.title_revision
        is(t, s) == [type |-> t, status |-> s]
    IN  IF {"amendment", "errata"} \subseteq sig THEN is("undetermined", "conflicting")
        ELSE IF said # None
        THEN is(said, IF told = said THEN "confirmed"
                      ELSE IF told # None THEN "conflicting" ELSE "document_only")
        ELSE IF told # None THEN is(told, "metadata_only")
        ELSE is(type, status)

(* Mutant: a period known from the title alone counts as the document's.   *)
BugPeriodStatus(period, hints) ==
    LET dates == {hints.title_end, hints.manual_date} \ {None}
    IN  IF period = None
        THEN IF hints.title_end # None THEN "document_only" ELSE "undetermined"
        ELSE IF \/ period.internal_conflict \/ \E t \in dates : t # period.end
        THEN "conflicting" ELSE IF dates # {} THEN "confirmed" ELSE "document_only"

(* The document's period against the dates and duration of the metadata.   *)
PeriodStatus(period, hints) ==
    LET dates == {hints.title_end, hints.manual_date} \ {None}
    IN  IF period = None
        THEN IF hints.title_end # None THEN "metadata_only" ELSE "undetermined"
        ELSE IF \/ period.internal_conflict \/ \E t \in dates : t # period.end
                \/ /\ hints.title_duration # None /\ period.months # None
                   /\ hints.title_duration # period.months
        THEN "conflicting" ELSE IF dates # {} THEN "confirmed" ELSE "document_only"

(***************************************************************************)
(* Roles and audit labels of the statement columns.                        *)
(***************************************************************************)
PeriodOf(c) == <<c.kind, c.end, c.months, c.label>>

(* The dated columns of one heading; a column without a stated duration    *)
(* next to one with, at the same end, is a leftover of the header.         *)
Kept(cols, c) ==
    LET here == {cols[i] : i \in {j \in DOMAIN cols :
                    /\ cols[j].statement = c.statement /\ cols[j].page = c.page
                    /\ cols[j].end # None}}
    IN  {d \in here : ~ (/\ d.label = "unspecified"
                         /\ \E e \in here : /\ e.label \notin {None, "unspecified"}
                                            /\ e.end = d.end)}

(* A period whose columns are labelled differently has no label.           *)
ColumnAudit(kept, c) ==
    IF Cardinality({d.audit : d \in {e \in kept : PeriodOf(e) = PeriodOf(c)}}
                   \ {"unknown"}) > 1
    THEN "unknown" ELSE c.audit

FirstRole(c, period) ==
    CASE c.role_word # None -> c.role_word
      [] c.role_word = None /\ period # None ->
           IF c.end = period.end THEN "current" ELSE "unknown"
      [] OTHER -> "unknown"

(* A column is comparative to a current one: the same duration a year      *)
(* before, or a balance a year before or at the prior fiscal year end.     *)
Compares(kind, c, cur, priorEnd) ==
    \/ /\ c.kind = "duration" /\ cur.kind = "duration"
       /\ c.label = cur.label /\ c.months = cur.months /\ PriorYear(c.end, cur.end)
    \/ /\ c.kind = "instant" /\ cur.kind = "instant" /\ kind = "financial_position"
       /\ PriorYear(c.end, cur.end) \/ c.end = priorEnd

PriorEnd(period) ==
    IF period = None THEN None
    ELSE IF period.months = None THEN None ELSE period.end - period.months

ColumnRole(kept, c, period) ==
    IF FirstRole(c, period) # "unknown" THEN FirstRole(c, period)
    ELSE IF \E cur \in kept : /\ FirstRole(cur, period) = "current"
                              /\ Compares(c.statement, c, cur, PriorEnd(period))
    THEN "comparative" ELSE "unknown"

CoverStatus(sig, type) ==
    IF type = "audited_financial_statements" THEN "audited"
    ELSE IF "cover_unaudited" \in sig THEN "unaudited"
    ELSE IF "provisional" \in sig THEN "provisional" ELSE None

(* Every kept column in reading order, with its role and label; the cover  *)
(* labels a current column that has no label of its own.                   *)
RoledColumns(cols, sig, type, period) ==
    LET roled(i) == LET kept  == Kept(cols, cols[i])
                        role  == ColumnRole(kept, cols[i], period)
                        audit == ColumnAudit(kept, cols[i])
                        cover == CoverStatus(sig, type)
                        takes == audit = "unknown" /\ role = "current" /\ cover # None
                    IN  [statement_kind |-> cols[i].statement,
                         period |-> PeriodOf(cols[i]), role |-> role,
                         restated |-> cols[i].restated, covered |-> takes,
                         audit_status |-> IF takes THEN cover ELSE audit]
    IN  [i \in {j \in DOMAIN cols : cols[j].end # None
                                    /\ cols[j] \in Kept(cols, cols[j])} |-> roled(i)]

(* The cover rule leaves evidence only where it created the aggregate.     *)
CoverLabels(roled) ==
    LET aggregate(r) == <<r.statement_kind, r.period, r.role, r.audit_status, r.restated>>
    IN  UNION {IF roled[i].audit_status = "audited" THEN {"audited"}
               ELSE {"unaudited", "provisional"} :
               i \in {j \in DOMAIN roled : /\ roled[j].covered
                        /\ ~ \E k \in DOMAIN roled : /\ Before(k, j)
                              /\ aggregate(roled[k]) = aggregate(roled[j])}}

(***************************************************************************)
(* The fiscal year end and the fiscal period.                              *)
(***************************************************************************)
YearEnds(doc, type, period, cols) ==
    LET named == {Month(cols[i].end) : i \in {j \in DOMAIN cols :
                    cols[j].year_word /\ cols[j].end # None}}
        said  == IF type = "interim_financial_statements" /\ ~ doc.long
                 THEN doc.year_phrases ELSE {}
        own   == period.months = 12 /\ period.year_word
    IN  [documented |-> named \cup said \cup Why(own, Month(period.end)),
         inferred |-> Why(period.months = 12 /\ ~ own, Month(period.end))
                      \cup Why(period.months \in {6, 9},
                               Month(period.end - period.months))]

YearEndBasis(ends) ==
    IF \/ Cardinality(ends.documented) > 1
       \/ ends.documented # {} /\ ends.inferred \ ends.documented # {}
    THEN "conflicting"
    ELSE IF ends.documented # {} THEN "documented"
    ELSE IF ends.inferred # {} THEN "inferred_only" ELSE "none"

(* FY for a twelve-month annual document; a quarter only from a documented *)
(* year end, on its boundary and with a duration that fits.                *)
FiscalPeriod(type, period, basis, yearEnd, currentMonths) ==
    LET since   == (Month(period.end) - yearEnd) % 12
        elapsed == IF since = 0 THEN 12 ELSE since
        observed == currentMonths \cup ({period.months} \ {None})
    IN  IF type \in ANNUAL_TYPES /\ period.months = 12 THEN "FY"
        ELSE IF basis # "documented" THEN None
        ELSE IF \/ elapsed % 3 # 0
                \/ observed # {} /\ {elapsed, 3} \cap observed = {}
                \/ type # "interim_financial_statements"
        THEN None
        ELSE CASE elapsed = 3 -> "Q1" [] elapsed = 6 -> "Q2"
               [] elapsed = 9 -> "Q3" [] OTHER -> "Q4"

fiscal_of(doc, type, period, cols, roled) ==
    LET ends  == YearEnds(doc, type, period, cols)
        basis == YearEndBasis(ends)
        end   == IF basis = "documented" THEN Single(ends.documented) ELSE None
        months == {roled[i].period[3] : i \in {j \in DOMAIN roled :
                      roled[j].role = "current" /\ roled[j].period[1] = "duration"}} \ {None}
    IN  IF period = None \/ (period # None /\ period.instant)
        THEN [end |-> None, basis |-> "none", status |-> "undetermined", period |-> None]
        ELSE [end |-> end, basis |-> basis,
              status |-> CASE basis = "conflicting" -> "conflicting"
                           [] basis = "documented" -> "document_only"
                           [] OTHER -> "undetermined",
              period |-> FiscalPeriod(type, period, basis, end, months)]

(***************************************************************************)
(* The classification.                                                     *)
(***************************************************************************)
Unreadable ==
    [document_type |-> "unreadable", document_type_status |-> "undetermined",
     underlying_type |-> "unreadable", underlying_type_status |-> "undetermined",
     period_end |-> None, period_start |-> None, period_status |-> "undetermined",
     statement_periods |-> {}, cover_labels |-> {},
     fiscal_year_end |-> None, fiscal_year_end_basis |-> "none",
     fiscal_year_end_status |-> "undetermined", fiscal_period |-> None,
     classification_status |-> "unreadable"]

StatusReasons(doc, type, period, hints) ==
    Why(type = "undetermined", "type_not_established")
    \cup Why({"amendment", "errata"} \subseteq doc.signals, "conflicting_revision_phrases")
    \cup Why(period = None /\ hints.title_end # None, "period_from_metadata_only")
    \cup Why(period = None /\ hints.title_end = None, "period_not_established")

(* The result once the period and the type are known.                      *)
Classified(doc, hints, cols, period, type) ==
    LET status == UnderlyingStatus(type, hints)
        named  == DocumentType(doc.signals, type, status, hints)
        roled  == RoledColumns(cols, doc.signals, type, period)
        fiscal == fiscal_of(doc, type, period, cols, roled)
    IN  [document_type |-> named.type, document_type_status |-> named.status,
         underlying_type |-> type, underlying_type_status |-> status,
         period_end |-> IF period # None THEN period.end ELSE hints.title_end,
         period_start |-> IF PriorEnd(period) = None THEN None
                          ELSE PriorEnd(period) + 1,
         period_status |-> PeriodStatus(period, hints),
         statement_periods |->
            {[k \in {"statement_kind", "period", "role", "audit_status", "restated"} |->
                 roled[i][k]] : i \in DOMAIN roled},
         cover_labels |-> CoverLabels(roled),
         fiscal_year_end |-> fiscal.end, fiscal_year_end_basis |-> fiscal.basis,
         fiscal_year_end_status |-> fiscal.status, fiscal_period |-> fiscal.period,
         classification_status |->
            IF StatusReasons(doc, type, period, hints) = {} THEN "classified"
            ELSE "partial"]

ClassifyColumns(doc, hints, cols) ==
    LET period == DocumentPeriod(doc, cols)
    IN  Classified(doc, hints, cols, period, UnderlyingType(doc, period))

classify(doc, meta) ==
    IF doc.text = "none" THEN Unreadable
    ELSE ClassifyColumns(doc, interpret_metadata(meta), statement_periods_of(doc))
=============================================================================

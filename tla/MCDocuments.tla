---------------------------- MODULE MCDocuments ----------------------------
(* Reports for the nine months to month 11 of year 3 of a year that ends   *)
(* in month 2, and annual reports, with the headers, phrases and listing   *)
(* entries that make the stages disagree.                                  *)
EXTENDS Candidates

End == 12 * 3 + 11

Column(i, year, month, word, words, scopes) ==
    [index |-> i, year |-> year, month |-> month, word |-> word, as_at |-> FALSE,
     words |-> words, scopes |-> scopes, anchor |-> "date", range |-> None,
     tight |-> None, labels |-> {}]

Number(n) == [form |-> "plain", n |-> n, decimals |-> 0]

(* A row with one number in each of n columns.                             *)
Row(i, label, section, words, n) ==
    [index |-> i, label |-> label, section |-> section, words |-> words,
     check |-> "none", maturity |-> {}, cells |-> [j \in 1 .. n |-> {Number(10 * i + j)}]]

Thousands == {[zone |-> "header", amount |-> FALSE, word |-> "thousands",
               currency |-> "LKR", declares |-> FALSE]}
Native == [has_text |-> TRUE, opaque |-> 0, masked |-> 0, painted |-> None,
           anomalies |-> FALSE]

Statement(kind, page, phrases, columns, rows) ==
    [kind |-> kind, page |-> page, scopes |-> {}, phrases |-> phrases,
     columns |-> columns, near |-> None, units |-> Thousands, rows |-> rows,
     trust |-> Native, continues |-> None, headless |-> FALSE]

IncomeRows(n) == {Row(1, "revenue", None, {}, n),
                  Row(2, "profit_for_period", "continuing", {}, n),
                  Row(3, "eps", "earnings_per_share", {"per_share"}, n)}

PositionTable(words) ==
    Statement("financial_position", 2, {},
              <<Column(1, 3, 11, None, words, {"group"}),
                Column(2, 3, 2, None, {"audited"}, {"company"})>>,
              {Row(1, "total_assets", None, {}, 2)})

(* A quarter and the year to date, this year and last; or a group and a    *)
(* company column of one period.                                           *)
IncomeTable(word, first, second) ==
    Statement("profit_or_loss", 1, {},
              <<Column(1, 3, 11, word, first, {"group"}),
                Column(2, 2, 11, word, {}, {"group"}),
                Column(3, 3, 11, "9M", first, {"group"}),
                Column(4, 3, 11, word, second, {"company"})>>, IncomeRows(4))

Document(signals, front, phrases, tables) ==
    [text |-> "full", signals |-> signals, front |-> front, deep |-> None,
     statements |-> tables, year_phrases |-> phrases, long |-> FALSE]

Phrase(word) == [word |-> word, end |-> End]

Interims ==
    {Document({"interim"} \cup cover, front, phrases, <<IncomeTable(word, a, b), PositionTable(a)>>) :
        cover \in {{}, {"cover_unaudited"}, {"provisional"}},
        front \in {None, Phrase("9M"), Phrase("period")},
        phrases \in {{}, {2}, {11}, {2, 11}},
        word \in {"3M", "quarter", "period"},
        a \in {{}, {"unaudited"}, {"audited"}},
        b \in {{}, {"audited"}, {"restated", "provisional"}}}

(* A year or twelve months, with an auditor's report.                      *)
Annuals ==
    {Document({"auditor_report"} \cup more, None, {},
              <<[IncomeTable(word, {}, {}) EXCEPT
                    !.columns = <<Column(1, 3, 11, word, {}, {"group"}),
                                  Column(2, 2, month, named, w, {"group"})>>,
                    !.rows = IncomeRows(2)],
                PositionTable({})>>) :
        more \in {{}, {"annual_report_year"}, {"errata"}, {"amendment", "errata"}},
        word \in {"year", "12M"}, named \in {"year", "12M", None},
        month \in {2, 11}, w \in {{}, {"comparative"}, {"audited"}}}

(* Years without a date: only a month range over the columns and, for F3,  *)
(* only the listing's title names the period.                              *)
Ranged(words, tight, units) ==
    [Statement("profit_or_loss", 1, {},
               <<[Column(1, 3, None, "9M", words, {}) EXCEPT
                     !.range = [month |-> 11, months |-> 9], !.tight = tight]>>,
               IncomeRows(1)) EXCEPT !.units = units]

Undated == {Document({"interim"}, None, {2}, <<Ranged(words, tight, units)>>) :
               words \in SUBSET {"current", "unaudited"}, tight \in {None, "6M"},
               units \in {{}, Thousands}}

(* A statement that runs on to a page without a heading, a scanned page, a *)
(* page without text, and columns that are no period.                      *)
Continued(units, trust) ==
    Document({"interim"}, Phrase("9M"), {2},
        <<IncomeTable("3M", {}, {}),
          [Statement("profit_or_loss", 3, {}, <<>>, {Row(4, "owners", "attributable_to", {}, 4)})
              EXCEPT !.continues = 1, !.headless = TRUE, !.units = units, !.trust = trust],
          [PositionTable({}) EXCEPT !.columns[2].anchor = "variance"]>>)

Runs == {Continued(units, trust) :
            units \in {{}, Thousands, {[p EXCEPT !.word = "millions"] : p \in Thousands}},
            trust \in {Native, [Native EXCEPT !.opaque = 9], [Native EXCEPT !.has_text = FALSE]}}

(* A bank's layout: each scope over the variance column of its group.      *)
Grouped(first, second) ==
    LET income == IncomeTable("3M", {}, {})
        over(i, labels, anchor) == [income.columns[i] EXCEPT
            !.scopes = {"group"}, !.labels = labels, !.anchor = anchor]
    IN  Document({"interim", "cover_unaudited"}, Phrase("3M"), {2},
            <<[income EXCEPT !.columns = <<over(1, {}, "date"), over(2, first, "variance"),
                                           over(4, {}, "date"), over(3, second, "variance")>>],
              PositionTable({})>>)

Banks == {Grouped(first, second) :
             first \in {{}, {"group"}, {"bank"}}, second \in {{"bank"}, {"bank", "group"}}}

Scanned == {[Document({}, None, {}, <<>>) EXCEPT !.text = t] : t \in {"none", "mostly_images"}}

MCDocuments == Interims \cup Annuals \cup Undated \cup Runs \cup Banks \cup Scanned

Entry(words, end, word, manual) ==
    [words |-> words, title_end |-> end, title_word |-> word, manual_date |-> manual,
     buckets |-> {"quarterly"}, uploaded |-> End + 2]

MCMetadata ==
    {Entry({}, None, None, None),
     Entry({"interim_financial_statements"}, End, "9M", None),
     Entry({"annual_report", "amend"}, End, "year", End + 2),
     Entry({"interim_financial_statements"}, End - 3, "quarter", None),
     Entry({}, None, None, End + 1)}
=============================================================================

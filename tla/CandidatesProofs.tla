-------------------------- MODULE CandidatesProofs --------------------------
(***************************************************************************)
(* What holds of every document and every listing entry: the classification *)
(* of module Classification and the candidates of module Candidates.       *)
(***************************************************************************)
EXTENDS Candidates, FiniteSetTheorems, NaturalsInduction, WellFoundedInduction,
        TLAPS

(***************************************************************************)
(* The least and the greatest element of a set of numbers.                 *)
(***************************************************************************)
(* The least element of a set of naturals.                                 *)
LEMMA MinOfNaturals ==
  ASSUME NEW S \in SUBSET Nat, S # {}
  PROVE  Min(S) \in S /\ \A y \in S : Min(S) <= y
<1> DEFINE less == {p \in Nat \X Nat : p[1] < p[2]}
<1>1. OpToRel(<, Nat) = less
  BY Zenon DEF OpToRel
<1>2. IsWellFoundedOn(less, Nat)
  BY <1>1, NatLessThanWellFounded, Zenon
<1>3. PICK k \in S : \A y \in S : ~ (<<y, k>> \in less)
  <2> HIDE DEF less
  <2> QED BY <1>2, WFMin, Zenon
<1>4. \A x, y \in Nat : ~ (<<y, x>> \in less) => x <= y
  OBVIOUS
<1> HIDE DEF less
<1>5. \A y \in S : k <= y
  BY <1>3, <1>4
<1> QED BY <1>5 DEF Min

(* The greatest element of a set of naturals with a bound.                 *)
LEMMA MaxInSet ==
  ASSUME NEW n \in Nat, NEW S \in SUBSET (0..n), S # {}
  PROVE  Max(S) \in S /\ \A y \in S : y <= Max(S)
<1> DEFINE T == {n - y : y \in S}
<1>1. Min(T) \in T /\ \A t \in T : Min(T) <= t
  <2>1. T \in SUBSET Nat /\ T # {}
    <3>1. \A y \in S : n - y \in Nat
      OBVIOUS
    <3> QED BY <3>1
  <2> HIDE DEF T
  <2> QED BY <2>1, MinOfNaturals
<1>2. PICK m \in S : Min(T) = n - m
  BY <1>1
<1>3. \A y \in S : m >= y
  BY <1>1, <1>2
<1>4. \E k \in S : \A y \in S : k >= y
  BY <1>3
<1>5. Max(S) \in S /\ \A y \in S : Max(S) >= y
  BY <1>4 DEF Max
<1> QED BY <1>5

(***************************************************************************)
(* The chain: each stage holds what its operators give.                    *)
(***************************************************************************)
ChainInv ==
    /\ document \in Documents /\ metadata \in Metadata
    /\ stage \in {"retrieved", "classified", "extracted", "built", "validated"}
    /\ stage # "retrieved" => classified = classify(document, metadata)
    /\ stage = "extracted" =>
          statements = IF document.text = "none" THEN {}
                       ELSE extract_from_words(document, classified)
    /\ stage \in {"built", "validated"} => candidates = Result(document, classified)
    /\ stage = "validated" =>
          validated = Validated(candidates, classified, metadata.uploaded)
    /\ stage # "validated" => validated = {}

(* Each step of F2's consumer keeps what the earlier ones computed.        *)
LEMMA ChainHolds == ChainSpec => []ChainInv
<1> USE DEF ChainInv
<1>1. ChainInit => ChainInv
  BY DEF ChainInit
<1>2. ChainInv /\ [ChainNext]_chainVars => ChainInv'
  <2> SUFFICES ASSUME ChainInv, [ChainNext]_chainVars PROVE ChainInv'
    OBVIOUS
  <2>1. CASE Classify
    BY <2>1 DEF Classify
  <2>2. CASE Extract_document
    BY <2>2 DEF Extract_document
  <2>3. CASE Build
    BY <2>3 DEF Build, Result
  <2>4. CASE Validate
    BY <2>4 DEF Validate
  <2>5. CASE UNCHANGED chainVars
    BY <2>5 DEF chainVars
  <2> QED BY <2>1, <2>2, <2>3, <2>4, <2>5 DEF ChainNext
<1> QED BY <1>1, <1>2, PTL DEF ChainSpec

(***************************************************************************)
(* Columns: a classification gives a column its role and label only.       *)
(***************************************************************************)
ColumnFields == {"index", "column_kind", "status", "scope", "words", "kind", "months",
                 "label", "end", "audit", "restated", "role", "role_basis",
                 "audit_status"}
RoleFields == {"role", "role_basis", "audit_status"}

(* The columns before roles are assigned.                                  *)
Grouped(st) == group_scopes(st, PlainColumns(st))

LEMMA OtherFields ==
  ASSUME NEW c, NEW kind, NEW status
  PROVE  DOMAIN OtherColumn(c, kind, status) = ColumnFields
BY DEF OtherColumn, ColumnFields

LEMMA PlainFields ==
  ASSUME NEW st
  PROVE  /\ DOMAIN PlainColumns(st) = DOMAIN st.columns
         /\ \A i \in DOMAIN st.columns : DOMAIN PlainColumns(st)[i] = ColumnFields
<1>1. DOMAIN PlainColumns(st) = DOMAIN st.columns
  BY DEF PlainColumns
<1>2. ASSUME NEW c, NEW h
      PROVE  DOMAIN PeriodColumn(st, c, h) = ColumnFields
  BY OtherFields DEF PeriodColumn
<1>3. ASSUME NEW i \in DOMAIN st.columns
      PROVE  DOMAIN PlainColumns(st)[i] = ColumnFields
  <2> DEFINE c == st.columns[i]
  <2>1. \/ PlainColumns(st)[i] = PeriodColumn(st, c, parse_statement_header(st)[i])
        \/ \E kind, status : PlainColumns(st)[i] = OtherColumn(c, kind, status)
    BY DEF PlainColumns
  <2> QED BY <1>2, <2>1, OtherFields
<1> QED BY <1>1, <1>3

LEMMA GroupedFields ==
  ASSUME NEW st
  PROVE  /\ DOMAIN Grouped(st) = DOMAIN st.columns
         /\ \A i \in DOMAIN st.columns : DOMAIN Grouped(st)[i] = ColumnFields
<1>1. \/ Grouped(st) = PlainColumns(st)
      \/ /\ DOMAIN Grouped(st) = DOMAIN PlainColumns(st)
         /\ \A i \in DOMAIN PlainColumns(st) :
               \/ Grouped(st)[i] = PlainColumns(st)[i]
               \/ \E x : Grouped(st)[i] = [PlainColumns(st)[i] EXCEPT !.scope = x]
  BY DEF Grouped, group_scopes
<1>2. \A r, x : DOMAIN [r EXCEPT !.scope = x] = DOMAIN r
  OBVIOUS
<1>3. DOMAIN Grouped(st) = DOMAIN PlainColumns(st)
  BY <1>1
<1>4. ASSUME NEW i \in DOMAIN st.columns
      PROVE  DOMAIN Grouped(st)[i] = ColumnFields
  <2>1. DOMAIN PlainColumns(st)[i] = ColumnFields /\ i \in DOMAIN PlainColumns(st)
    BY PlainFields
  <2>2. CASE Grouped(st)[i] = PlainColumns(st)[i]
    BY <2>1, <2>2
  <2>3. CASE \E x : Grouped(st)[i] = [PlainColumns(st)[i] EXCEPT !.scope = x]
    BY <1>2, <2>1, <2>3
  <2> QED BY <1>1, <2>1, <2>2, <2>3
<1> QED BY <1>3, <1>4, PlainFields

(* F4's roles and labels leave the rest of a column as its header gave it. *)
LEMMA ColumnsKeep ==
  ASSUME NEW cls, NEW st
  PROVE  /\ DOMAIN build_columns(cls, st) = DOMAIN st.columns
         /\ \A i \in DOMAIN st.columns :
               /\ DOMAIN build_columns(cls, st)[i] = ColumnFields
               /\ \A k \in ColumnFields \ RoleFields :
                     build_columns(cls, st)[i][k] = Grouped(st)[i][k]
<1> DEFINE plain == Grouped(st)
           built == build_columns(cls, st)
<1>1. DOMAIN built = DOMAIN plain
  BY DEF Grouped, build_columns, AssignRoles
<1>2. ASSUME NEW i \in DOMAIN plain
      PROVE  \/ built[i] = plain[i]
             \/ \E a, b, c : built[i] = [plain[i] EXCEPT !.role = a, !.role_basis = b,
                                                        !.audit_status = c]
  BY DEF Grouped, build_columns, AssignRoles
<1> HIDE DEF plain, built
<1>3. ASSUME NEW i \in DOMAIN st.columns
      PROVE  /\ DOMAIN built[i] = ColumnFields
             /\ \A k \in ColumnFields \ RoleFields : built[i][k] = plain[i][k]
  <2>1. i \in DOMAIN plain /\ DOMAIN plain[i] = ColumnFields
    BY GroupedFields DEF plain
  <2>2. CASE built[i] = plain[i]
    BY <2>1, <2>2
  <2>3. ASSUME NEW a, NEW b, NEW c,
               built[i] = [plain[i] EXCEPT !.role = a, !.role_basis = b,
                                           !.audit_status = c]
        PROVE  /\ DOMAIN built[i] = ColumnFields
               /\ \A k \in ColumnFields \ RoleFields : built[i][k] = plain[i][k]
    BY <2>1, <2>3 DEF ColumnFields, RoleFields
  <2>4. CASE \E a, b, c : built[i] = [plain[i] EXCEPT !.role = a, !.role_basis = b,
                                                       !.audit_status = c]
    <3>1. PICK a, b, c : built[i] = [plain[i] EXCEPT !.role = a, !.role_basis = b,
                                                     !.audit_status = c]
      BY <2>4
    <3> QED BY <2>3, <3>1
  <2> QED BY <1>2, <2>1, <2>2, <2>4
<1> QED BY <1>1, <1>3, GroupedFields DEF plain, built

(***************************************************************************)
(* Candidates by the place where their value is printed: value v of row r  *)
(* under column j of statement i.                                          *)
(***************************************************************************)
Source(doc, i) ==
    LET st == doc.statements[i]
    IN  IF st.headless /\ st.columns = <<>> THEN doc.statements[st.continues] ELSE st

ColumnsAt(doc, cls, i) == build_columns(cls, Source(doc, i))

CellAt(doc, cls, i, j, r, v) ==
    make_cell(StatementScale(doc, doc.statements[i]), r, ColumnsAt(doc, cls, i)[j], v,
              Cardinality(r.cells[j]) > 1)

MappingAt(doc, cls, i, r) ==
    map_label(doc.statements[i].kind, choose_template(extract_from_words(doc, cls)),
              r.label, r.section)

PeriodAt(doc, cls, i, j, r) ==
    candidate_period(MappingAt(doc, cls, i, r).concept, ColumnsAt(doc, cls, i)[j])

Shown(doc, i, j, r, v) ==
    /\ i \in DOMAIN doc.statements
    /\ page_trust(doc.statements[i].trust) = "text_native"
    /\ j \in DOMAIN Source(doc, i).columns
    /\ r \in doc.statements[i].rows /\ v \in r.cells[j]

Place(doc, cls, i, j, r, v) ==
    /\ Shown(doc, i, j, r, v)
    /\ ColumnsAt(doc, cls, i)[j].column_kind = "period"
    /\ MappingAt(doc, cls, i, r).status # "unmapped"
    /\ PeriodAt(doc, cls, i, j, r) # None

CandidateAt(doc, cls, i, j, r, v) ==
    Candidate(cls, extract_region(doc, cls, i), CellAt(doc, cls, i, j, r, v),
              MappingAt(doc, cls, i, r), PeriodAt(doc, cls, i, j, r))

LEMMA RegionIs ==
  ASSUME NEW doc, NEW cls, NEW i \in DOMAIN doc.statements
  PROVE  LET st == extract_region(doc, cls, i)
         IN  /\ st.kind = doc.statements[i].kind
             /\ st.columns = {ColumnsAt(doc, cls, i)[j] : j \in DOMAIN Source(doc, i).columns}
             /\ st.rows = IF /\ page_trust(doc.statements[i].trust) = "text_native"
                             /\ DOMAIN Source(doc, i).columns # {}
                          THEN doc.statements[i].rows ELSE {}
             /\ \A x : x \in st.cells <=>
                   \E j, r, v : Shown(doc, i, j, r, v) /\ x = CellAt(doc, cls, i, j, r, v)
             /\ st.root = IF doc.statements[i].continues = None THEN i
                          ELSE doc.statements[i].continues
<1> DEFINE st == doc.statements[i]
           columns == ColumnsAt(doc, cls, i)
           scale == StatementScale(doc, st)
<1>1. extract_region(doc, cls, i) = ReadRegion(i, st, columns, scale)
  BY DEF extract_region, ColumnsAt, Source
<1>2. DOMAIN columns = DOMAIN Source(doc, i).columns
  BY ColumnsKeep DEF ColumnsAt
<1>3. \A j, r, v : CellAt(doc, cls, i, j, r, v)
                   = make_cell(scale, r, columns[j], v, Cardinality(r.cells[j]) > 1)
  BY DEF CellAt
<1> HIDE DEF columns, scale
<1>4. \A x : x \in ReadRegion(i, st, columns, scale).cells <=>
                \E j, r, v : Shown(doc, i, j, r, v) /\ x = CellAt(doc, cls, i, j, r, v)
  <2> SUFFICES ASSUME NEW x
               PROVE  x \in ReadRegion(i, st, columns, scale).cells <=>
                        \E j, r, v : Shown(doc, i, j, r, v)
                                     /\ x = CellAt(doc, cls, i, j, r, v)
    OBVIOUS
  <2>1. x \in ReadRegion(i, st, columns, scale).cells <=>
          /\ page_trust(st.trust) = "text_native"
          /\ \E r \in st.rows : \E j \in DOMAIN columns : \E v \in r.cells[j] :
                x = make_cell(scale, r, columns[j], v, Cardinality(r.cells[j]) > 1)
    BY DEF ReadRegion
  <2> QED BY <1>2, <1>3, <2>1 DEF Shown
<1>5. /\ ReadRegion(i, st, columns, scale).kind = st.kind
      /\ ReadRegion(i, st, columns, scale).columns = {columns[j] : j \in DOMAIN columns}
      /\ ReadRegion(i, st, columns, scale).rows =
            IF page_trust(st.trust) = "text_native" /\ DOMAIN columns # {}
            THEN st.rows ELSE {}
      /\ ReadRegion(i, st, columns, scale).root =
            IF st.continues = None THEN i ELSE st.continues
  BY DEF ReadRegion
<1> QED BY <1>1, <1>2, <1>4, <1>5 DEF columns

(* F5's candidates are those of the places.                                *)
LEMMA ResultAt ==
  ASSUME NEW doc, NEW cls, doc.text # "none"
  PROVE  \A c : c \in Result(doc, cls) <=>
           \E i, j, r, v : Place(doc, cls, i, j, r, v)
                           /\ c = CandidateAt(doc, cls, i, j, r, v)
<1> DEFINE sts == extract_from_words(doc, cls)
           map(st, cell) == map_label(st.kind, choose_template(sts), cell.row.label,
                                      cell.row.section)
           period(st, cell) == candidate_period(map(st, cell).concept, cell.col)
<1>1. ASSUME NEW c
      PROVE  c \in Result(doc, cls) <=>
               \E i \in DOMAIN doc.statements :
                 \E cell \in extract_region(doc, cls, i).cells :
                   LET st == extract_region(doc, cls, i)
                   IN  /\ cell.col.column_kind = "period"
                       /\ map(st, cell).status # "unmapped"
                       /\ period(st, cell) # None
                       /\ c = Candidate(cls, st, cell, map(st, cell), period(st, cell))
  <2> DEFINE given(st) == {cell \in st.cells : /\ cell.col.column_kind = "period"
                                               /\ map(st, cell).status # "unmapped"
                                               /\ period(st, cell) # None}
             of(st, cell) == Candidate(cls, st, cell, map(st, cell), period(st, cell))
  <2>1. Result(doc, cls) = UNION {{of(st, cell) : cell \in given(st)} : st \in sts}
    BY DEF Result, build
  <2>2. sts = {extract_region(doc, cls, i) : i \in DOMAIN doc.statements}
    BY DEF extract_from_words
  <2> HIDE DEF of, map, period, sts
  <2>3. c \in Result(doc, cls) <=>
          \E st \in sts : \E cell \in st.cells :
             /\ cell.col.column_kind = "period" /\ map(st, cell).status # "unmapped"
             /\ period(st, cell) # None /\ c = of(st, cell)
    BY <2>1
  <2>4. c \in Result(doc, cls) <=>
          \E i \in DOMAIN doc.statements : \E cell \in extract_region(doc, cls, i).cells :
             LET st == extract_region(doc, cls, i)
             IN  /\ cell.col.column_kind = "period" /\ map(st, cell).status # "unmapped"
                 /\ period(st, cell) # None /\ c = of(st, cell)
    BY <2>2, <2>3
  <2> QED BY <2>4 DEF of
<1>2. ASSUME NEW i \in DOMAIN doc.statements, NEW j, NEW r, NEW v
      PROVE  LET st == extract_region(doc, cls, i)
                 cell == CellAt(doc, cls, i, j, r, v)
             IN  /\ map(st, cell) = MappingAt(doc, cls, i, r)
                 /\ period(st, cell) = PeriodAt(doc, cls, i, j, r)
                 /\ cell.col = ColumnsAt(doc, cls, i)[j]
  <2>1. extract_region(doc, cls, i).kind = doc.statements[i].kind
    BY RegionIs
  <2>2. /\ CellAt(doc, cls, i, j, r, v).row = r
        /\ CellAt(doc, cls, i, j, r, v).col = ColumnsAt(doc, cls, i)[j]
    BY DEF CellAt, make_cell
  <2> QED BY <2>1, <2>2 DEF MappingAt, PeriodAt
<1> HIDE DEF map, period
<1> SUFFICES ASSUME NEW c
             PROVE  c \in Result(doc, cls) <=>
                      \E i, j, r, v : Place(doc, cls, i, j, r, v)
                                      /\ c = CandidateAt(doc, cls, i, j, r, v)
  OBVIOUS
<1>3. ASSUME c \in Result(doc, cls)
      PROVE  \E i, j, r, v : Place(doc, cls, i, j, r, v)
                             /\ c = CandidateAt(doc, cls, i, j, r, v)
  <2>1. PICK i \in DOMAIN doc.statements : \E cell \in extract_region(doc, cls, i).cells :
               LET st == extract_region(doc, cls, i)
               IN  /\ cell.col.column_kind = "period"
                   /\ map(st, cell).status # "unmapped"
                   /\ period(st, cell) # None
                   /\ c = Candidate(cls, st, cell, map(st, cell), period(st, cell))
    BY <1>1, <1>3
  <2>2. PICK j, r, v : /\ Shown(doc, i, j, r, v)
                       /\ LET st == extract_region(doc, cls, i)
                              cell == CellAt(doc, cls, i, j, r, v)
                          IN  /\ cell.col.column_kind = "period"
                              /\ map(st, cell).status # "unmapped"
                              /\ period(st, cell) # None
                              /\ c = Candidate(cls, st, cell, map(st, cell),
                                               period(st, cell))
    BY <2>1, RegionIs
  <2>3. Place(doc, cls, i, j, r, v) /\ c = CandidateAt(doc, cls, i, j, r, v)
    BY <1>2, <2>2 DEF Place, CandidateAt
  <2> QED BY <2>3
<1>4. ASSUME NEW i, NEW j, NEW r, NEW v, Place(doc, cls, i, j, r, v),
             c = CandidateAt(doc, cls, i, j, r, v)
      PROVE  c \in Result(doc, cls)
  <2>1. i \in DOMAIN doc.statements /\ Shown(doc, i, j, r, v)
    BY <1>4 DEF Place, Shown
  <2>2. CellAt(doc, cls, i, j, r, v) \in extract_region(doc, cls, i).cells
    BY <2>1, RegionIs
  <2> QED BY <1>1, <1>2, <1>4, <2>1, <2>2 DEF Place, CandidateAt
<1> QED BY <1>3, <1>4

(***************************************************************************)
(* Two classifications of one document give candidates of the same places  *)
(* with the same figures.                                                  *)
(***************************************************************************)
SameColumn(a, b) ==
    /\ a.index = b.index /\ a.column_kind = b.column_kind /\ a.status = b.status
    /\ a.scope = b.scope /\ a.words = b.words /\ a.kind = b.kind /\ a.months = b.months
    /\ a.label = b.label /\ a.end = b.end /\ a.audit = b.audit /\ a.restated = b.restated

LEMMA ColumnsAgree ==
  ASSUME NEW doc, NEW cls, NEW other, NEW i, NEW j \in DOMAIN Source(doc, i).columns
  PROVE  SameColumn(ColumnsAt(doc, cls, i)[j], ColumnsAt(doc, other, i)[j])
<1> DEFINE a == ColumnsAt(doc, cls, i)[j]
           b == ColumnsAt(doc, other, i)[j]
<1>1. \A k \in ColumnFields \ RoleFields : a[k] = b[k]
  BY ColumnsKeep DEF ColumnsAt
<1> HIDE DEF a, b
<1>2. SameColumn(a, b)
  BY <1>1 DEF SameColumn, ColumnFields, RoleFields
<1> QED BY <1>2 DEF a, b

LEMMA MappingKeeps ==
  ASSUME NEW doc, NEW cls, NEW other, NEW i \in DOMAIN doc.statements, NEW r
  PROVE  MappingAt(doc, cls, i, r) = MappingAt(doc, other, i, r)
<1> DEFINE bank(st) == /\ st.kind \in INCOME_KINDS
                       /\ \E q \in st.rows : q.label = "net_interest_income"
<1>1. \A k \in DOMAIN doc.statements :
         bank(extract_region(doc, cls, k)) <=> bank(extract_region(doc, other, k))
  <2> SUFFICES ASSUME NEW k \in DOMAIN doc.statements
               PROVE  bank(extract_region(doc, cls, k)) <=> bank(extract_region(doc, other, k))
    OBVIOUS
  <2>1. /\ extract_region(doc, cls, k).kind = extract_region(doc, other, k).kind
        /\ extract_region(doc, cls, k).rows = extract_region(doc, other, k).rows
    BY RegionIs
  <2> QED BY <2>1
<1> HIDE DEF bank
<1>2. choose_template(extract_from_words(doc, cls))
        = IF \E k \in DOMAIN doc.statements : bank(extract_region(doc, cls, k))
          THEN "bank_finance" ELSE "general"
  BY DEF choose_template, extract_from_words, bank
<1>3. choose_template(extract_from_words(doc, other))
        = IF \E k \in DOMAIN doc.statements : bank(extract_region(doc, other, k))
          THEN "bank_finance" ELSE "general"
  BY DEF choose_template, extract_from_words, bank
<1>4. choose_template(extract_from_words(doc, cls))
        = choose_template(extract_from_words(doc, other))
  BY <1>1, <1>2, <1>3
<1> QED BY <1>4 DEF MappingAt

LEMMA PlaceKeeps ==
  ASSUME NEW doc, NEW cls, NEW other, NEW i, NEW j, NEW r, NEW v,
         Place(doc, cls, i, j, r, v)
  PROVE  /\ Place(doc, other, i, j, r, v)
         /\ MappingAt(doc, cls, i, r) = MappingAt(doc, other, i, r)
         /\ PeriodAt(doc, cls, i, j, r) = PeriodAt(doc, other, i, j, r)
         /\ SameColumn(ColumnsAt(doc, cls, i)[j], ColumnsAt(doc, other, i)[j])
<1>1. i \in DOMAIN doc.statements /\ j \in DOMAIN Source(doc, i).columns
  BY DEF Place, Shown
<1>2. MappingAt(doc, cls, i, r) = MappingAt(doc, other, i, r)
  BY <1>1, MappingKeeps
<1>3. SameColumn(ColumnsAt(doc, cls, i)[j], ColumnsAt(doc, other, i)[j])
  BY <1>1, ColumnsAgree
<1>4. PeriodAt(doc, cls, i, j, r) = PeriodAt(doc, other, i, j, r)
  BY <1>2, <1>3 DEF PeriodAt, candidate_period, SameColumn
<1> QED BY <1>2, <1>3, <1>4 DEF Place, SameColumn

(* The fields of a candidate that its classification does not decide.      *)
CandidateFields ==
    {"candidate_status", "mapping_status", "concept_key", "value_type", "role",
     "role_trust", "operations", "operations_basis", "period_kind", "period_class",
     "period_derivation", "start_date", "end_date", "duration_months", "fiscal_label",
     "section", "row", "statement_root", "statement_kind", "reported_scope",
     "canonical_scope", "restated", "audit_label", "audit_source", "audit_trust",
     "representation_class", "raw_value", "parsed_value", "printed_decimals",
     "reported_scale", "reported_currency"}

LEMMA FieldsAt ==
  ASSUME NEW cls, NEW st, NEW cell, NEW mapping, NEW period
  PROVE  DOMAIN Candidate(cls, st, cell, mapping, period) = CandidateFields
BY DEF Candidate, CandidateFields

SameFigures(c, d) == \A k \in CandidateFields \ TrustFields : c[k] = d[k]

LEMMA CellKeeps ==
  ASSUME NEW doc, NEW cls, NEW other, NEW i, NEW j, NEW r, NEW v,
         SameColumn(ColumnsAt(doc, cls, i)[j], ColumnsAt(doc, other, i)[j])
  PROVE  LET a == CellAt(doc, cls, i, j, r, v)
             b == CellAt(doc, other, i, j, r, v)
         IN  /\ a.row = r /\ b.row = r
             /\ a.col = ColumnsAt(doc, cls, i)[j] /\ b.col = ColumnsAt(doc, other, i)[j]
             /\ a.raw = b.raw /\ a.value = b.value /\ a.scale = b.scale
             /\ a.currency = b.currency /\ a.status = b.status
BY DEF CellAt, make_cell, SameColumn

LEMMA GroupKeeps ==
  ASSUME NEW doc, NEW cls, NEW other, NEW i \in DOMAIN doc.statements
  PROVE  (\E c \in extract_region(doc, cls, i).columns :
             c.column_kind = "period" /\ c.scope = "group")
         <=> (\E c \in extract_region(doc, other, i).columns :
                c.column_kind = "period" /\ c.scope = "group")
<1>1. \A j \in DOMAIN Source(doc, i).columns :
         /\ ColumnsAt(doc, cls, i)[j].column_kind = ColumnsAt(doc, other, i)[j].column_kind
         /\ ColumnsAt(doc, cls, i)[j].scope = ColumnsAt(doc, other, i)[j].scope
  BY ColumnsAgree DEF SameColumn
<1>2. /\ extract_region(doc, cls, i).columns
            = {ColumnsAt(doc, cls, i)[j] : j \in DOMAIN Source(doc, i).columns}
      /\ extract_region(doc, other, i).columns
            = {ColumnsAt(doc, other, i)[j] : j \in DOMAIN Source(doc, i).columns}
  BY RegionIs
<1> QED BY <1>1, <1>2

LEMMA FiguresKeep ==
  ASSUME NEW doc, NEW cls, NEW other, NEW i, NEW j, NEW r, NEW v,
         Place(doc, cls, i, j, r, v)
  PROVE  SameFigures(CandidateAt(doc, cls, i, j, r, v), CandidateAt(doc, other, i, j, r, v))
<1> DEFINE s == extract_region(doc, cls, i)
           t == extract_region(doc, other, i)
           a == CellAt(doc, cls, i, j, r, v)
           b == CellAt(doc, other, i, j, r, v)
           m == MappingAt(doc, cls, i, r)
           p == PeriodAt(doc, cls, i, j, r)
<1>1. i \in DOMAIN doc.statements
  BY DEF Place, Shown
<1>2. /\ MappingAt(doc, other, i, r) = m /\ PeriodAt(doc, other, i, j, r) = p
      /\ SameColumn(ColumnsAt(doc, cls, i)[j], ColumnsAt(doc, other, i)[j])
  BY PlaceKeeps
<1>3. /\ a.row = r /\ b.row = r /\ SameColumn(a.col, b.col)
      /\ a.raw = b.raw /\ a.value = b.value /\ a.scale = b.scale
      /\ a.currency = b.currency /\ a.status = b.status
  BY <1>2, CellKeeps
<1>4. s.kind = t.kind /\ s.root = t.root
  BY <1>1, RegionIs
<1>5. (\E c \in s.columns : c.column_kind = "period" /\ c.scope = "group")
      <=> (\E c \in t.columns : c.column_kind = "period" /\ c.scope = "group")
  BY <1>1, GroupKeeps
<1> HIDE DEF s, t, a, b, m, p
<1>6. SameFigures(Candidate(cls, s, a, m, p), Candidate(other, t, b, m, p))
  <2> DEFINE c == Candidate(cls, s, a, m, p)
             d == Candidate(other, t, b, m, p)
  <2>1. /\ c.candidate_status = d.candidate_status /\ c.mapping_status = d.mapping_status
        /\ c.concept_key = d.concept_key /\ c.value_type = d.value_type
        /\ c.operations = d.operations /\ c.operations_basis = d.operations_basis
    BY <1>3 DEF Candidate, candidate_status
  <2>2. /\ c.period_kind = d.period_kind /\ c.period_class = d.period_class
        /\ c.period_derivation = d.period_derivation /\ c.start_date = d.start_date
        /\ c.end_date = d.end_date /\ c.duration_months = d.duration_months
    BY <1>3 DEF Candidate, SameColumn
  <2>3. /\ c.section = d.section /\ c.row = d.row
        /\ c.statement_root = d.statement_root /\ c.statement_kind = d.statement_kind
        /\ c.reported_scope = d.reported_scope /\ c.restated = d.restated
    BY <1>3, <1>4 DEF Candidate, SameColumn
  <2>4. c.canonical_scope = d.canonical_scope
    <3>1. a.col.scope = b.col.scope
      BY <1>3 DEF SameColumn
    <3>2. \A x : canonical_scope(x, \E k \in s.columns : k.column_kind = "period"
                                                        /\ k.scope = "group")
                 = canonical_scope(x, \E k \in t.columns : k.column_kind = "period"
                                                        /\ k.scope = "group")
      BY <1>5 DEF canonical_scope
    <3>3. c.canonical_scope =
            canonical_scope(a.col.scope, \E k \in s.columns : k.column_kind = "period"
                                                             /\ k.scope = "group")
      BY Zenon DEF Candidate
    <3>4. d.canonical_scope =
            canonical_scope(b.col.scope, \E k \in t.columns : k.column_kind = "period"
                                                             /\ k.scope = "group")
      BY Zenon DEF Candidate
    <3> HIDE DEF c, d
    <3> QED BY <3>1, <3>2, <3>3, <3>4
  <2>5. /\ c.representation_class = d.representation_class /\ c.raw_value = d.raw_value
        /\ c.parsed_value = d.parsed_value /\ c.printed_decimals = d.printed_decimals
        /\ c.reported_scale = d.reported_scale /\ c.reported_currency = d.reported_currency
    BY <1>3 DEF Candidate
  <2> HIDE DEF c, d
  <2>6. SameFigures(c, d)
    BY <2>1, <2>2, <2>3, <2>4, <2>5 DEF SameFigures, CandidateFields, TrustFields
  <2> QED BY <2>6 DEF c, d
<1> QED BY <1>2, <1>6 DEF CandidateAt, s, t, a, b, m, p

(***************************************************************************)
(* What the listing can change.                                            *)
(***************************************************************************)
(* Two classifications that F4 and F5 read alike.                          *)
ReadAlike(cls, other) ==
    /\ cls.statement_periods = other.statement_periods
    /\ cls.cover_labels = other.cover_labels
    /\ cls.fiscal_year_end = other.fiscal_year_end
    /\ cls.fiscal_year_end_basis = other.fiscal_year_end_basis
    /\ cls.fiscal_year_end_status = other.fiscal_year_end_status
    /\ cls.period_start = other.period_start

LEMMA SameColumnsRead ==
  ASSUME NEW cls, NEW other, NEW st, ReadAlike(cls, other),
         Trusted(cls) <=> Trusted(other), cls.period_end = other.period_end
  PROVE  build_columns(cls, st) = build_columns(other, st)
<1>1. \A kind, col : match_f3_role(cls, kind, col) = match_f3_role(other, kind, col)
  BY DEF match_f3_role, ReadAlike
<1>2. \A kind, col, word : LeadRole(cls, kind, col, word) = LeadRole(other, kind, col, word)
  BY <1>1 DEF LeadRole
<1>3. \A kind, col, currents :
         mirror_role(cls, kind, col, currents) = mirror_role(other, kind, col, currents)
  <2>1. (IF Trusted(cls) /\ cls.period_start # None THEN cls.period_start - 1 ELSE None)
          = IF Trusted(other) /\ other.period_start # None
            THEN other.period_start - 1 ELSE None
    BY DEF ReadAlike
  <2> QED BY <2>1, Zenon DEF mirror_role
<1>4. AssignRoles(cls, st, Grouped(st)) = AssignRoles(other, st, Grouped(st))
  <2> DEFINE plain == Grouped(st)
             dated == {i \in DOMAIN plain : plain[i].column_kind = "period"
                                            /\ plain[i].end # None}
             lead(c) == [i \in dated |-> LeadRole(c, st.kind, plain[i],
                                                  explicit_role(st.columns[i]))]
             currents(l) == {plain[i] : i \in {j \in dated : l[j].role = "current"}}
             role(c, l, i) == IF l[i].role = "unknown"
                                 /\ mirror_role(c, st.kind, plain[i], currents(l))
                              THEN RoleAs("comparative", "f4.mirrored_f3_role_rule")
                              ELSE l[i]
             label(c, i) == LET f3 == match_f3_role(c, st.kind, plain[i])
                            IN  IF f3.role # None /\ f3.audit # None
                                   /\ plain[i].audit = "unknown"
                                THEN f3.audit ELSE plain[i].audit
             one(c, l, i) ==
                IF i \notin dated THEN plain[i]
                ELSE [plain[i] EXCEPT !.role = role(c, l, i).role,
                                      !.role_basis = role(c, l, i).role_basis,
                                      !.audit_status = label(c, i)]
             assigned(c, l) == [i \in DOMAIN plain |-> one(c, l, i)]
  <2>1. lead(cls) = lead(other)
    BY <1>2
  <2>2. \A l, i : role(cls, l, i) = role(other, l, i)
    BY <1>3
  <2>3. \A i : label(cls, i) = label(other, i)
    BY <1>1
  <2>4. AssignRoles(cls, st, plain) = assigned(cls, lead(cls))
    BY Zenon DEF AssignRoles
  <2>5. AssignRoles(other, st, plain) = assigned(other, lead(other))
    BY Zenon DEF AssignRoles
  <2> HIDE DEF plain, dated, lead, role, label
  <2>6. ASSUME NEW i
        PROVE  one(cls, lead(cls), i) = one(other, lead(other), i)
    <3>1. PICK r : r = role(other, lead(other), i)
      OBVIOUS
    <3>2. role(cls, lead(cls), i) = r /\ label(cls, i) = label(other, i)
      BY <2>1, <2>2, <2>3, <3>1
    <3> QED BY <3>1, <3>2
  <2> HIDE DEF one
  <2>7. assigned(cls, lead(cls)) = assigned(other, lead(other))
    BY <2>6
  <2> HIDE DEF assigned
  <2> QED BY <2>4, <2>5, <2>7 DEF plain
<1> QED BY <1>4 DEF build_columns, Grouped

LEMMA SameResultRead ==
  ASSUME NEW doc, NEW cls, NEW other, ReadAlike(cls, other),
         Trusted(cls) <=> Trusted(other), cls.period_end = other.period_end
  PROVE  Result(doc, cls) = Result(doc, other)
<1>1. \A i : extract_region(doc, cls, i) = extract_region(doc, other, i)
  BY SameColumnsRead DEF extract_region
<1>2. extract_from_words(doc, cls) = extract_from_words(doc, other)
  BY <1>1 DEF extract_from_words
<1>3. \A role, basis : role_trust(cls, role, basis) = role_trust(other, role, basis)
  BY DEF role_trust
<1>4. \A kind, end, months : fiscal_label(cls, kind, end, months)
                             = fiscal_label(other, kind, end, months)
  BY DEF fiscal_label, ReadAlike
<1>5. \A kind, col : audit_source(cls, kind, col) = audit_source(other, kind, col)
  BY DEF audit_source, match_f3_role, ReadAlike
<1>6. \A st, cell, mapping, period : Candidate(cls, st, cell, mapping, period)
                                     = Candidate(other, st, cell, mapping, period)
  <2> SUFFICES ASSUME NEW st, NEW cell, NEW mapping, NEW period
               PROVE  Candidate(cls, st, cell, mapping, period)
                        = Candidate(other, st, cell, mapping, period)
    OBVIOUS
  <2> DEFINE col == cell.col
             ops == row_operations(cell.row)
             group == \E c \in st.columns : c.column_kind = "period"
                                            /\ c.scope = "group"
             trusted(c) == role_trust(c, col.role, col.role_basis)
             labelled(c) == fiscal_label(c, col.kind, col.end, col.months)
             sourced(c) == audit_source(c, st.kind, col)
             audit(c) == IF col.audit_status # "unknown" /\ Trusted(c)
                         THEN "trusted" ELSE "untrusted"
             made(trust, label, source, audited) ==
                [candidate_status |-> candidate_status(cell, mapping, period.class),
                 mapping_status |-> mapping.status, concept_key |-> mapping.concept,
                 value_type |-> IF mapping.concept = None THEN None
                                ELSE concept_value_type(mapping.concept),
                 role |-> col.role, role_trust |-> trust,
                 operations |-> ops.of, operations_basis |-> ops.basis,
                 period_kind |-> period.kind, period_class |-> period.class,
                 period_derivation |-> period.derivation,
                 start_date |-> IF col.kind = "duration" /\ col.months # None
                                THEN col.end - col.months + 1 ELSE None,
                 end_date |-> col.end, duration_months |-> col.months,
                 fiscal_label |-> label,
                 section |-> cell.row.maturity, row |-> cell.row.index,
                 statement_root |-> st.root, statement_kind |-> st.kind,
                 reported_scope |-> IF col.scope = None THEN "unstated" ELSE col.scope,
                 canonical_scope |-> canonical_scope(col.scope, group),
                 restated |-> col.restated, audit_label |-> col.audit_status,
                 audit_source |-> source,
                 audit_trust |-> audited,
                 representation_class |-> cell.value.class, raw_value |-> cell.raw.form,
                 parsed_value |-> cell.value.parsed, printed_decimals |-> cell.value.decimals,
                 reported_scale |-> cell.scale, reported_currency |-> cell.currency]
             of(c) == made(trusted(c), labelled(c), sourced(c), audit(c))
  <2>1. /\ trusted(cls) = trusted(other)
        /\ labelled(cls) = labelled(other)
        /\ sourced(cls) = sourced(other)
    BY <1>3, <1>4, <1>5
  <2>2. audit(cls) = audit(other)
    BY DEF Trusted
  <2>3. Candidate(cls, st, cell, mapping, period) = of(cls)
    BY Zenon DEF Candidate
  <2>4. Candidate(other, st, cell, mapping, period) = of(other)
    BY Zenon DEF Candidate
  <2> HIDE DEF trusted, labelled, sourced, audit, made
  <2> QED BY <2>1, <2>2, <2>3, <2>4
<1>7. \A sts : build(sts, cls) = build(sts, other)
  BY <1>6 DEF build
<1> QED BY <1>2, <1>7 DEF Result

(* A document alone gives what the document with its listing gives, but    *)
(* for a period end, and the status that says whether to trust it.         *)
LEMMA ListingOnlyWithdraws ==
  ASSUME NEW doc, NEW meta, NEW silent, silent.title_end = None,
         silent.title_word = None, silent.manual_date = None
  PROVE  LET cls == classify(doc, meta)
             bare == classify(doc, silent)
         IN  /\ ReadAlike(cls, bare)
             /\ Trusted(cls) => Trusted(bare) /\ cls.period_end = bare.period_end
<1>1. CASE doc.text = "none"
  BY <1>1 DEF classify, ReadAlike
<1>2. CASE doc.text # "none"
  <2> DEFINE cols == statement_periods_of(doc)
             period == DocumentPeriod(doc, cols)
             type == UnderlyingType(doc, period)
             said == interpret_metadata(meta)
             none == interpret_metadata(silent)
             cls == Classified(doc, said, cols, period, type)
             bare == Classified(doc, none, cols, period, type)
  <2>1. classify(doc, meta) = cls /\ classify(doc, silent) = bare
    BY <1>2 DEF classify, ClassifyColumns
  <2>2. none.title_end = None /\ none.manual_date = None /\ none.title_duration = None
    <3>1. None \notin {"3M", "6M", "9M", "12M", "quarter", "half", "year", "period"}
      BY NothingAssumption DEF MonthsWords
    <3> QED BY <3>1 DEF interpret_metadata, duration_of, Months
  <2> HIDE DEF cols, period, type, said, none
  <2>3. ReadAlike(cls, bare)
    BY DEF ReadAlike, Classified
  <2>4. cls.period_status = PeriodStatus(period, said)
        /\ bare.period_status = PeriodStatus(period, none)
    BY DEF Classified
  <2>5. ASSUME Trusted(cls)
        PROVE  period # None /\ ~ period.internal_conflict
    BY <2>4, <2>5 DEF Trusted, PeriodStatus, TRUSTED_F3_STATUSES
  <2>6. ASSUME Trusted(cls)
        PROVE  Trusted(bare) /\ cls.period_end = bare.period_end
    <3>1. PeriodStatus(period, none) = "document_only"
      BY <2>2, <2>5, <2>6 DEF PeriodStatus
    <3>2. cls.period_end = bare.period_end
      BY <2>5, <2>6 DEF Classified
    <3> QED BY <2>4, <3>1, <3>2 DEF Trusted, TRUSTED_F3_STATUSES
  <2> QED BY <2>1, <2>3, <2>6
<1> QED BY <1>1, <1>2

(* Without a text layer there is no candidate.                             *)
LEMMA NothingRead ==
  ASSUME NEW doc, NEW cls, doc.text = "none"
  PROVE  Result(doc, cls) = {}
BY DEF Result, build

(* The figures of a document do not depend on its classification.          *)
LEMMA FiguresAgree ==
  ASSUME NEW doc, NEW cls, NEW other
  PROVE  Figures(Result(doc, cls)) = Figures(Result(doc, other))
<1>1. CASE doc.text = "none"
  BY <1>1, NothingRead
<1>2. CASE doc.text # "none"
  <2> DEFINE figures(c) == [k \in DOMAIN c \ TrustFields |-> c[k]]
  <2>1. ASSUME NEW a, NEW b, NEW c \in Result(doc, a)
        PROVE  \E d \in Result(doc, b) : figures(d) = figures(c)
    <3>1. PICK i, j, r, v : /\ Place(doc, a, i, j, r, v)
                            /\ c = CandidateAt(doc, a, i, j, r, v)
      BY <1>2, ResultAt
    <3> DEFINE d == CandidateAt(doc, b, i, j, r, v)
    <3>2. d \in Result(doc, b)
      BY <1>2, <3>1, PlaceKeeps, ResultAt
    <3>3. SameFigures(c, d)
      BY <3>1, FiguresKeep
    <3>4. DOMAIN c = CandidateFields /\ DOMAIN d = CandidateFields
      BY <3>1, FieldsAt DEF CandidateAt
    <3> HIDE DEF d
    <3>5. figures(c) = figures(d)
      BY <3>3, <3>4 DEF SameFigures
    <3> QED BY <3>2, <3>5
  <2>2. \A a, b : Figures(Result(doc, a)) \subseteq Figures(Result(doc, b))
    <3> SUFFICES ASSUME NEW a, NEW b, NEW x \in Figures(Result(doc, a))
                 PROVE  x \in Figures(Result(doc, b))
      OBVIOUS
    <3>1. PICK c \in Result(doc, a) : x = figures(c)
      BY DEF Figures
    <3>2. PICK d \in Result(doc, b) : figures(d) = figures(c)
      BY <2>1
    <3> QED BY <3>1, <3>2 DEF Figures
  <2> QED BY <2>2
<1> QED BY <1>1, <1>2

(* Under a period that only the listing knows nothing F5 makes is trusted. *)
LEMMA NothingTrusted ==
  ASSUME NEW doc, NEW cls, ~ Trusted(cls), NEW c \in Result(doc, cls)
  PROVE  /\ DOMAIN c = CandidateFields /\ c.role_trust = "untrusted"
         /\ c.fiscal_label = None /\ c.audit_trust = "untrusted"
<1>1. doc.text # "none"
  BY NothingRead
<1>2. PICK i, j, r, v : c = CandidateAt(doc, cls, i, j, r, v)
  BY <1>1, ResultAt
<1>3. \A st, cell, mapping, period :
         LET d == Candidate(cls, st, cell, mapping, period)
         IN  /\ d.role_trust = "untrusted" /\ d.fiscal_label = None
             /\ d.audit_trust = "untrusted"
  BY DEF Candidate, role_trust, fiscal_label
<1> QED BY <1>2, <1>3, FieldsAt DEF CandidateAt

(* Such a candidate is not eligible.                                       *)
LEMMA NothingEligible ==
  ASSUME NEW doc, NEW cls, ~ Trusted(cls), NEW uploaded,
         NEW v \in Validated(Result(doc, cls), cls, uploaded)
  PROVE  v.ineligible # {}
<1> DEFINE run == RunEvidence(cls, Link, uploaded)
<1>1. PICK x \in contexts_from_f5_result(Result(doc, cls)) : v = validate_candidate(x, run)
  BY DEF Validated, validate_run
<1>2. PICK c \in Result(doc, cls) :
         \E s, m : x = [c EXCEPT !.start_date = s, !.duration_months = m]
  BY DEF contexts_from_f5_result
<1>3. PICK s, m : x = [c EXCEPT !.start_date = s, !.duration_months = m]
  BY <1>2
<1>4. DOMAIN c = CandidateFields /\ c.role_trust = "untrusted"
  BY NothingTrusted
<1>5. x.role_trust = "untrusted"
  BY <1>3, <1>4 DEF CandidateFields
<1>6. "role_untrusted" \in EligibilityReasons(x, run)
  BY <1>5 DEF EligibilityReasons, Why
<1>7. "role_untrusted" \in validate_candidate(x, run).ineligible
  BY <1>6 DEF validate_candidate
<1> QED BY <1>1, <1>7

(* F6.1 asks of a trusted period only that it is trusted.                  *)
LEMMA JudgedAlike ==
  ASSUME NEW cls, NEW other, ReadAlike(cls, other), Trusted(cls), Trusted(other),
         NEW cands, NEW uploaded
  PROVE  Validated(cands, cls, uploaded) = Validated(cands, other, uploaded)
<1> DEFINE run == RunEvidence(cls, Link, uploaded)
           same == RunEvidence(other, Link, uploaded)
<1>1. /\ run.issuer_link_status = same.issuer_link_status
      /\ run.publication_date = same.publication_date
      /\ run.fiscal_year_end_basis = same.fiscal_year_end_basis
      /\ run.fiscal_year_end_status = same.fiscal_year_end_status
      /\ run.period_status \in TRUSTED_F3_STATUSES
      /\ same.period_status \in TRUSTED_F3_STATUSES
  BY DEF RunEvidence, ReadAlike, Trusted
<1> HIDE DEF run, same
<1>2. \A c : EligibilityReasons(c, run) = EligibilityReasons(c, same)
  BY <1>1 DEF EligibilityReasons
<1>3. \A c : PeriodReasons(c, run) = PeriodReasons(c, same)
  BY <1>1 DEF PeriodReasons
<1>4. \A c : validate_candidate(c, run) = validate_candidate(c, same)
  BY <1>2, <1>3 DEF validate_candidate
<1> QED BY <1>4 DEF Validated, validate_run, run, same

(* I-4, I-5, I-7 and F6.1's eligibility: whatever the listing says, it     *)
(* only withdraws trust from what the document alone gives.                *)
THEOREM ListingWithdraws == ChainSpec => []MetadataOnlyWithdraws
<1>1. ChainInv => MetadataOnlyWithdraws
  <2> SUFFICES ASSUME ChainInv, stage = "validated"
               PROVE  WithinClassification(classify(document, Silent))
    BY DEF MetadataOnlyWithdraws
  <2> DEFINE cls == classified
             bare == classify(document, Silent)
             alone == Result(document, bare)
             checked == Validated(alone, bare, metadata.uploaded)
  <2>1. /\ cls = classify(document, metadata) /\ candidates = Result(document, cls)
        /\ validated = Validated(candidates, cls, metadata.uploaded)
    BY DEF ChainInv
  <2>2. /\ ReadAlike(cls, bare)
        /\ Trusted(cls) => Trusted(bare) /\ cls.period_end = bare.period_end
    BY <2>1, ListingOnlyWithdraws DEF Silent
  <2>3. Figures(candidates) = Figures(alone)
    BY <2>1, FiguresAgree
  <2>4. CASE Trusted(cls)
    <3>1. candidates = alone
      BY <2>1, <2>2, <2>4, SameResultRead
    <3>2. validated = checked
      BY <2>1, <2>2, <2>4, <3>1, JudgedAlike
    <3>3. WithinResult(alone, checked)
      BY <2>3, <3>1, <3>2 DEF WithinResult
    <3> QED BY <3>3 DEF WithinClassification, WithinCandidates
  <2>5. CASE ~ Trusted(cls)
    <3>1. \A c \in candidates : /\ c.role_trust = "untrusted" /\ c.fiscal_label = None
                                /\ c.audit_trust = "untrusted"
      BY <2>1, <2>5, NothingTrusted
    <3>2. \A v \in validated : v.ineligible # {}
      BY <2>1, <2>5, NothingEligible
    <3>3. WithinResult(alone, checked)
      BY <2>3, <3>1, <3>2 DEF WithinResult
    <3> QED BY <3>3 DEF WithinClassification, WithinCandidates
  <2> QED BY <2>4, <2>5
<1> QED BY <1>1, ChainHolds, PTL

(***************************************************************************)
(* The dates and durations of a document.                                  *)
(***************************************************************************)
(* The one element of a set that is known to be finite.                    *)
LEMMA SingleIn ==
  ASSUME NEW S, IsFiniteSet(S), Cardinality(S) = 1
  PROVE  Single(S) \in S /\ S = {Single(S)}
<1>1. PICK x : S = {x}
  BY FS_Singleton
<1>2. Single(S) = x
  BY <1>1 DEF Single
<1> QED BY <1>1, <1>2

LEMMA MonthIn ==
  ASSUME NEW t \in Int
  PROVE  Month(t) \in MonthsOfYear
BY DEF Month, MonthsOfYear

LEMMA MonthNumbersIn ==
  /\ LastMonth \in Nat /\ IsFiniteSet(NamedMonths) /\ NamedMonths \subseteq Int
  /\ \A y \in Years, m \in NamedMonths : 12 * y + m \in MonthNumbers
<1>1. LastMonth \in Nat
  BY DEF LastMonth
<1>2. IsFiniteSet(NamedMonths)
  <2>1. \A n \in Nat : IsFiniteSet(0 .. n)
    BY FS_Interval
  <2>2. 12 \in Nat
    OBVIOUS
  <2> QED BY <2>1, <2>2, Zenon DEF NamedMonths
<1>3. ASSUME NEW y \in Years
      PROVE  y \in Nat /\ y <= 9999
  BY DEF Years
<1>4. ASSUME NEW m \in NamedMonths
      PROVE  m \in Nat /\ m <= 12
  BY DEF NamedMonths
<1>5. \A y, m \in Nat : y <= 9999 /\ m <= 12 => 12 * y + m \in Nat /\ 12 * y + m <= LastMonth
  BY DEF LastMonth
<1>6. \A y \in Years, m \in NamedMonths : 12 * y + m \in MonthNumbers
  BY <1>1, <1>3, <1>4, <1>5 DEF MonthNumbers
<1> QED BY <1>1, <1>2, <1>4, <1>6

(* A header's end is the month its cells or its phrase name.               *)
LEMMA HeaderEnd ==
  ASSUME NEW st, DatedStatement(st), NEW i \in DOMAIN st.columns
  PROVE  LET h == HeaderColumn(st, st.columns[i])
         IN  /\ h.end \in MonthNumbers \cup {None}
             /\ h.months # None => h.kind = "duration"
<1> DEFINE c == st.columns[i]
           h == HeaderColumn(st, c)
           offered == {p.month : p \in st.phrases}
<1> DEFINE Named == NamedMonths \cup {None}
<1>1. c.year \in Years /\ c.month \in Named /\ \A p \in st.phrases : p.month \in Named
  BY DEF DatedStatement
<1>0. IsFiniteSet(Named)
  BY MonthNumbersIn, FS_AddElement
<1> HIDE DEF Named
<1>2. offered \in SUBSET Named
  BY <1>1
<1>3. Cardinality(offered) = 1 => Single(offered) \in Named
  <2> HIDE DEF offered
  <2>1. IsFiniteSet(offered)
    BY <1>0, <1>2, FS_Subset
  <2> QED BY <1>2, <2>1, SingleIn
<1>4. \E month \in Named : h.end = IF month = None THEN None ELSE 12 * c.year + month
  <2> DEFINE fills(label) == /\ c.month = None /\ Cardinality(offered) = 1
                             /\ label = "12M" => \E p \in st.phrases :
                                                    duration_of(p.word).label = "12M"
             month(label) == IF fills(label) THEN Single(offered) ELSE c.month
  <2>1. \E label : h.end = IF month(label) = None THEN None ELSE 12 * c.year + month(label)
    BY DEF HeaderColumn
  <2>2. \A label : month(label) \in Named
    <3> HIDE DEF offered
    <3> QED BY <1>1, <1>3
  <2> HIDE DEF month
  <2> QED BY <2>1, <2>2
<1>5. h.end \in MonthNumbers \cup {None}
  <2>1. PICK month \in Named : h.end = IF month = None THEN None ELSE 12 * c.year + month
    BY <1>4
  <2> HIDE DEF h, c
  <2>2. month # None => month \in NamedMonths
    BY DEF Named
  <2> QED BY <1>1, <2>1, <2>2, MonthNumbersIn
<1>6. h.months # None => h.kind = "duration"
  BY DEF HeaderColumn
<1> QED BY <1>5, <1>6

LEMMA ParsedEnd ==
  ASSUME NEW st, DatedStatement(st), st.kind # "changes_in_equity",
         NEW i \in DOMAIN st.columns
  PROVE  LET h == parse_statement_header(st)[i]
         IN  /\ h.end \in MonthNumbers \cup {None}
             /\ h.months # None => h.kind = "duration"
<1> DEFINE heads == [k \in DOMAIN st.columns |-> HeaderColumn(st, st.columns[k])]
           h == WithoutClashes(heads)[i]
<1>1. parse_statement_header(st) = WithoutClashes(heads)
  BY DEF parse_statement_header
<1>2. h = heads[i] \/ h = [heads[i] EXCEPT !.end = None]
  BY DEF WithoutClashes
<1>3. /\ heads[i].end \in MonthNumbers \cup {None}
      /\ heads[i].months # None => heads[i].kind = "duration"
  BY HeaderEnd
<1>4. {"end", "months", "kind"} \subseteq DOMAIN heads[i]
  BY DEF HeaderColumn
<1> HIDE DEF heads, h
<1>5. h.end \in MonthNumbers \cup {None} /\ (h.months # None => h.kind = "duration")
  BY <1>2, <1>3, <1>4
<1> QED BY <1>1, <1>5 DEF h

(* Every column of a document ends in a month of the calendar, if it says  *)
(* when it ends.                                                           *)
LEMMA ColumnEnds ==
  ASSUME NEW doc \in Documents, NEW p \in DOMAIN statement_periods_of(doc)
  PROVE  statement_periods_of(doc)[p].end \in MonthNumbers \cup {None}
<1> DEFINE st == doc.statements[p[1]]
<1>1. /\ p[1] \in DOMAIN doc.statements /\ p[2] \in DOMAIN statement_columns(st)
      /\ statement_periods_of(doc)[p] = statement_columns(st)[p[2]]
  BY DEF statement_periods_of
<1>2. DatedStatement(st)
  BY <1>1, DocumentsAssumption
<1>3. CASE st.columns = <<>>
  <2>1. statement_columns(st) = HeadingColumn(st)
    BY <1>3 DEF statement_columns
  <2>2. HeadingColumn(st) # <<>> /\ p[2] \in DOMAIN HeadingColumn(st)
    BY <1>1, <2>1
  <2>3. st.near # None /\ DOMAIN HeadingColumn(st) = {1}
    BY <2>2 DEF HeadingColumn
  <2>4. HeadingColumn(st)[1].end = st.near.end
    BY <2>2 DEF HeadingColumn
  <2>5. st.near.end \in MonthNumbers
    BY <1>2, <2>3 DEF DatedStatement
  <2> QED BY <1>1, <2>1, <2>2, <2>3, <2>4, <2>5
<1>4. CASE st.columns # <<>>
  <2>1. statement_columns(st) = parse_statement_header(st)
    BY <1>4 DEF statement_columns
  <2>2. p[2] \in DOMAIN parse_statement_header(st)
    BY <1>1, <2>1
  <2>3. st.kind # "changes_in_equity"
    BY <2>2 DEF parse_statement_header
  <2>4. DOMAIN parse_statement_header(st) = DOMAIN st.columns
    BY <2>3 DEF parse_statement_header, WithoutClashes
  <2> QED BY <1>1, <1>2, <2>1, <2>2, <2>3, <2>4, ParsedEnd
<1> QED BY <1>3, <1>4

(* So does the period the document reports.                                *)
LEMMA PeriodEnds ==
  ASSUME NEW doc \in Documents
  PROVE  LET period == DocumentPeriod(doc, statement_periods_of(doc))
         IN  period # None => period.end \in MonthNumbers
<1> DEFINE cols == statement_periods_of(doc)
           front == front_period(doc)
           stmt == doc_period_from_statements(cols)
<1>1. ASSUME NEW kind, NEW S \in SUBSET Dated(cols, kind), S # {}
      PROVE  Max({c.end : c \in S}) \in MonthNumbers
  <2> DEFINE ends == {c.end : c \in S}
  <2>1. \A c \in S : c.end \in MonthNumbers
    BY ColumnEnds DEF Dated
  <2>2. ends \in SUBSET MonthNumbers /\ ends # {}
    BY <1>1, <2>1
  <2> HIDE DEF ends
  <2>3. \E n \in Nat : MonthNumbers = 0 .. n
    BY MonthNumbersIn DEF MonthNumbers
  <2>4. Max(ends) \in ends
    BY <2>2, <2>3, MaxInSet
  <2> QED BY <2>2, <2>4 DEF ends
<1>2. stmt # None => stmt.end \in MonthNumbers
  <2> DEFINE timed == {c \in Dated(cols, "duration") : c.statement \in DURATION_STATEMENTS}
  <2>1. stmt # None => timed # {} /\ stmt.end = Max({c.end : c \in timed})
    BY DEF doc_period_from_statements, Period
  <2> HIDE DEF stmt
  <2>2. timed \in SUBSET Dated(cols, "duration")
    OBVIOUS
  <2> HIDE DEF timed
  <2> QED BY <1>1, <2>1, <2>2
<1>3. front # None => /\ front.end \in MonthNumbers
                      /\ DOMAIN front = {"end", "months", "label", "year_word",
                                         "instant", "internal_conflict"}
  <2>1. front # None => \E phrase \in {doc.front, doc.deep} \ {None} :
                           front = PhrasePeriod(phrase)
    BY DEF front_period
  <2> HIDE DEF front
  <2>2. \A phrase : /\ PhrasePeriod(phrase).end = phrase.end
                    /\ DOMAIN PhrasePeriod(phrase) = {"end", "months", "label", "year_word",
                                                      "instant", "internal_conflict"}
    BY DEF PhrasePeriod, Period
  <2> QED BY <2>1, <2>2, DocumentsAssumption
<1>4. Dated(cols, "instant") # {} =>
         Max({c.end : c \in Dated(cols, "instant")}) \in MonthNumbers
  BY <1>1
<1>5. LET period == DocumentPeriod(doc, cols)
      IN  \/ period \in {None, front}
          \/ stmt # None /\ period = stmt
          \/ front # None /\ period = [front EXCEPT !.internal_conflict = TRUE]
          \/ /\ Dated(cols, "instant") # {}
             /\ period.end = Max({c.end : c \in Dated(cols, "instant")})
  <2> HIDE DEF cols
  <2>1. CASE front # None /\ stmt # None
    BY <2>1 DEF DocumentPeriod
  <2>2. CASE front # None /\ stmt = None
    BY <2>2 DEF DocumentPeriod
  <2>3. CASE front = None /\ stmt # None
    BY <2>3 DEF DocumentPeriod
  <2>4. CASE front = None /\ stmt = None
    <3> DEFINE insts == Dated(cols, "instant")
               latest == Period(Max({c.end : c \in insts}), None, None, FALSE, TRUE, FALSE)
    <3>1. DocumentPeriod(doc, cols) = IF insts = {} THEN None ELSE latest
      BY <2>4 DEF DocumentPeriod
    <3>2. latest.end = Max({c.end : c \in insts})
      BY DEF Period
    <3> QED BY <3>1, <3>2
  <2> QED BY <2>1, <2>2, <2>3, <2>4
<1> HIDE DEF front, stmt, cols
<1>6. front # None => [front EXCEPT !.internal_conflict = TRUE].end \in MonthNumbers
  BY <1>3
<1> QED BY <1>2, <1>3, <1>4, <1>5, <1>6 DEF cols

(***************************************************************************)
(* The fiscal year end, F3's fiscal period and F5's fiscal label.          *)
(***************************************************************************)
(* A documented year end is one month, the one any inference gives.        *)
LEMMA OneYearEnd ==
  ASSUME NEW doc \in Documents, NEW type, NEW period, period.end \in MonthNumbers,
         YearEndBasis(YearEnds(doc, type, period, statement_periods_of(doc))) = "documented"
  PROVE  LET ends == YearEnds(doc, type, period, statement_periods_of(doc))
         IN  /\ Single(ends.documented) \in Int
             /\ ends.documented = {Single(ends.documented)}
             /\ ends.inferred \subseteq ends.documented
<1> DEFINE cols == statement_periods_of(doc)
           ends == YearEnds(doc, type, period, cols)
           documented == ends.documented
<1>1. \A p \in DOMAIN cols : cols[p].end # None => Month(cols[p].end) \in MonthsOfYear
  <2> SUFFICES ASSUME NEW p \in DOMAIN cols, cols[p].end # None
               PROVE  Month(cols[p].end) \in MonthsOfYear
    OBVIOUS
  <2>1. cols[p].end \in MonthNumbers
    BY ColumnEnds
  <2>2. cols[p].end \in Int
    BY <2>1, MonthNumbersIn DEF MonthNumbers
  <2> QED BY <2>2, MonthIn
<1>2. Month(period.end) \in MonthsOfYear
  BY MonthIn, MonthNumbersIn DEF MonthNumbers
<1>3. doc.year_phrases \subseteq MonthsOfYear
  BY DocumentsAssumption
<1>4. documented \in SUBSET MonthsOfYear
  <2> HIDE DEF cols
  <2> QED BY <1>1, <1>2, <1>3 DEF YearEnds, Why
<1>5. IsFiniteSet(MonthsOfYear) /\ MonthsOfYear \subseteq Int
  <2>1. \A n \in Nat : IsFiniteSet(0 .. n)
    BY FS_Interval
  <2>2. 11 \in Nat
    OBVIOUS
  <2>3. IsFiniteSet(MonthsOfYear)
    BY <2>1, <2>2, Zenon DEF MonthsOfYear
  <2>4. MonthsOfYear \subseteq Int
    BY DEF MonthsOfYear
  <2> QED BY <2>3, <2>4
<1>6. /\ ~ (Cardinality(documented) > 1) /\ documented # {}
      /\ ends.inferred \ documented = {}
  BY DEF YearEndBasis
<1> HIDE DEF ends
<1>7. IsFiniteSet(documented)
  BY <1>4, <1>5, FS_Subset
<1>8. Cardinality(documented) = 1
  <2>1. Cardinality(documented) \in Nat /\ Cardinality(documented) # 0
    BY <1>6, <1>7, FS_EmptySet, FS_CardinalityType
  <2> QED BY <1>6, <2>1
<1>9. Single(documented) \in documented /\ documented = {Single(documented)}
  BY <1>7, <1>8, SingleIn
<1> QED BY <1>4, <1>5, <1>6, <1>9 DEF ends

(* A fiscal period other than FY ends a quarter of the documented year.    *)
LEMMA QuarterEnds ==
  ASSUME NEW type, NEW period, NEW basis, NEW Y \in Int, NEW observed, period.end \in Int,
         FiscalPeriod(type, period, basis, Y, observed) # None,
         ~ (type \in ANNUAL_TYPES /\ period.months = 12)
  PROVE  LET k == (Month(period.end) - Y) % 12
             named == FiscalPeriod(type, period, basis, Y, observed)
         IN  /\ basis = "documented"
             /\ \/ k = 0 /\ named = "Q4"
                \/ k = 3 /\ named = "Q1"
                \/ k = 6 /\ named = "Q2"
                \/ k = 9 /\ named = "Q3"
<1> DEFINE k == (Month(period.end) - Y) % 12
           elapsed == IF k = 0 THEN 12 ELSE k
           named == FiscalPeriod(type, period, basis, Y, observed)
<1>1. k \in Int /\ 0 <= k /\ k <= 11
  <2>1. Month(period.end) \in Int
    BY DEF Month
  <2> QED BY <2>1
<1>2. /\ basis = "documented" /\ elapsed % 3 = 0
      /\ named = CASE elapsed = 3 -> "Q1" [] elapsed = 6 -> "Q2"
                   [] elapsed = 9 -> "Q3" [] OTHER -> "Q4"
  BY DEF FiscalPeriod
<1> HIDE DEF k, named
<1>3. k = 0 \/ k = 3 \/ k = 6 \/ k = 9
  BY <1>1, <1>2
<1> QED BY <1>2, <1>3 DEF k, named

(* The labels of columns that end k months after the year end.             *)
LEMMA LabelAfter ==
  ASSUME NEW cls, NEW kind, NEW end, NEW months,
         fiscal_label(cls, kind, end, months) # None
  PROVE  LET k == (Month(end) - cls.fiscal_year_end) % 12
             label == fiscal_label(cls, kind, end, months)
         IN  /\ cls.fiscal_year_end_basis = "documented" /\ Trusted(cls)
             /\ k = 0 => label \in {"Q4", "H2", "FY"}
             /\ k = 3 => label = "Q1"
             /\ k = 6 => label \in {"Q2", "H1"}
             /\ k = 9 => label \in {"Q3", "9M"}
BY NothingAssumption DEF fiscal_label

LEMMA QuarterLabel ==
  ASSUME NEW cls, NEW end, end # None, cls.fiscal_year_end_basis = "documented",
         cls.fiscal_year_end_status \in TRUSTED_F3_STATUSES, Trusted(cls)
  PROVE  LET k == (Month(end) - cls.fiscal_year_end) % 12
             label == fiscal_label(cls, "duration", end, 3)
         IN  /\ k = 0 => label = "Q4"
             /\ k = 3 => label = "Q1"
             /\ k = 6 => label = "Q2"
             /\ k = 9 => label = "Q3"
BY DEF fiscal_label

(* A column with a duration is a duration column.                          *)
LEMMA HeaderKind ==
  ASSUME NEW st, st.kind # "changes_in_equity", NEW i \in DOMAIN st.columns
  PROVE  LET h == parse_statement_header(st)[i]
         IN  /\ {"kind", "months", "label", "end"} \subseteq DOMAIN h
             /\ h.months # None => h.kind = "duration"
<1> DEFINE heads == [k \in DOMAIN st.columns |-> HeaderColumn(st, st.columns[k])]
           h == WithoutClashes(heads)[i]
<1>1. parse_statement_header(st) = WithoutClashes(heads)
  BY DEF parse_statement_header
<1>2. h = heads[i] \/ h = [heads[i] EXCEPT !.end = None]
  BY DEF WithoutClashes
<1>3. heads[i].months # None => heads[i].kind = "duration"
  BY DEF HeaderColumn
<1>4. {"kind", "months", "label", "end"} \subseteq DOMAIN heads[i]
  BY DEF HeaderColumn
<1> HIDE DEF heads, h
<1>5. {"kind", "months", "label", "end"} \subseteq DOMAIN h
      /\ (h.months # None => h.kind = "duration")
  BY <1>2, <1>3, <1>4
<1> QED BY <1>1, <1>5 DEF h

LEMMA PeriodKind ==
  ASSUME NEW st, NEW c, NEW h, {"kind", "months", "label", "end"} \subseteq DOMAIN h,
         h.months # None => h.kind = "duration"
  PROVE  LET p == PeriodColumn(st, c, h)
         IN  p.months # None => p.kind = "duration"
<1> DEFINE dated == month_range(st, c, h)
           p == PeriodColumn(st, c, h)
<1>1. dated.months # None => dated.kind = "duration"
  BY DEF month_range
<1> HIDE DEF dated
<1>2. /\ p.months = IF dated.end = None THEN None ELSE dated.months
      /\ p.kind = IF dated.end = None THEN None ELSE dated.kind
  BY DEF PeriodColumn, OtherColumn, dated
<1> QED BY <1>1, <1>2

LEMMA ColumnKind ==
  ASSUME NEW st, NEW i \in DOMAIN st.columns
  PROVE  Grouped(st)[i].months # None => Grouped(st)[i].kind = "duration"
<1> DEFINE plain == PlainColumns(st)[i]
           c == st.columns[i]
<1>1. \/ /\ st.kind # "changes_in_equity"
         /\ plain = PeriodColumn(st, c, parse_statement_header(st)[i])
      \/ \E kind, status : plain = OtherColumn(c, kind, status)
  BY DEF PlainColumns
<1>2. \A kind, status : OtherColumn(c, kind, status).months = None
  BY DEF OtherColumn
<1> HIDE DEF plain
<1>3. plain.months # None => plain.kind = "duration"
  BY <1>1, <1>2, HeaderKind, PeriodKind
<1>4. Grouped(st)[i] = plain \/ \E x : Grouped(st)[i] = [plain EXCEPT !.scope = x]
  BY PlainFields DEF Grouped, group_scopes, plain
<1>5. DOMAIN plain = ColumnFields
  BY PlainFields DEF plain
<1>6. CASE \E x : Grouped(st)[i] = [plain EXCEPT !.scope = x]
  <2>1. PICK x : Grouped(st)[i] = [plain EXCEPT !.scope = x]
    BY <1>6
  <2>2. Grouped(st)[i].months = plain.months /\ Grouped(st)[i].kind = plain.kind
    BY <1>5, <2>1 DEF ColumnFields
  <2> QED BY <1>3, <2>2
<1> QED BY <1>3, <1>4, <1>6

(* What a candidate's period and label are of its column.                  *)
LEMMA PeriodOfCandidate ==
  ASSUME NEW doc, NEW cls, NEW c \in Result(doc, cls)
  PROVE  /\ doc.text # "none"
         /\ \E kind : /\ c.fiscal_label = fiscal_label(cls, kind, c.end_date,
                                                       c.duration_months)
                      /\ c.duration_months # None => kind = "duration"
<1>1. doc.text # "none"
  BY NothingRead
<1>2. PICK i, j, r, v : Place(doc, cls, i, j, r, v) /\ c = CandidateAt(doc, cls, i, j, r, v)
  BY <1>1, ResultAt
<1> DEFINE col == ColumnsAt(doc, cls, i)[j]
<1>3. col.months # None => col.kind = "duration"
  <2>1. j \in DOMAIN Source(doc, i).columns
    BY <1>2 DEF Place, Shown
  <2>2. \A k \in ColumnFields \ RoleFields : col[k] = Grouped(Source(doc, i))[j][k]
    BY <2>1, ColumnsKeep DEF ColumnsAt
  <2> HIDE DEF col
  <2>3. col.months = Grouped(Source(doc, i))[j].months
        /\ col.kind = Grouped(Source(doc, i))[j].kind
    BY <2>2 DEF ColumnFields, RoleFields
  <2> QED BY <2>1, <2>3, ColumnKind
<1>4. CellAt(doc, cls, i, j, r, v).col = col
  BY DEF CellAt, make_cell
<1>5. \A st, cell, mapping, period :
         LET d == Candidate(cls, st, cell, mapping, period)
         IN  /\ d.fiscal_label = fiscal_label(cls, cell.col.kind, cell.col.end,
                                              cell.col.months)
             /\ d.end_date = cell.col.end /\ d.duration_months = cell.col.months
  BY DEF Candidate
<1> HIDE DEF col
<1>6. /\ c.fiscal_label = fiscal_label(cls, col.kind, col.end, col.months)
      /\ c.end_date = col.end /\ c.duration_months = col.months
  BY <1>2, <1>4, <1>5 DEF CandidateAt
<1> QED BY <1>1, <1>3, <1>6

(* I-7 against F3: the quarter or year of a column that ends with the      *)
(* document's period is the one F3 names for the document.                 *)
THEOREM FiscalPeriodsAgree == ChainSpec => []QuartersAgree
<1>1. ChainInv => QuartersAgree
  <2> SUFFICES ASSUME ChainInv, stage = "built", classified.fiscal_period # None,
                      NEW c \in candidates, c.end_date = classified.period_end
               PROVE  /\ c.fiscal_label \in EndsWith(classified.fiscal_period) \cup {None}
                      /\ classified.fiscal_period # "FY" /\ Trusted(classified)
                            /\ c.duration_months = 3
                         => c.fiscal_label = classified.fiscal_period
    BY DEF QuartersAgree
  <2> DEFINE cls == classified
             cols == statement_periods_of(document)
             period == DocumentPeriod(document, cols)
             type == UnderlyingType(document, period)
             ends == YearEnds(document, type, period, cols)
             basis == YearEndBasis(ends)
             Y == IF basis = "documented" THEN Single(ends.documented) ELSE None
             k == (Month(c.end_date) - cls.fiscal_year_end) % 12
  <2>1. /\ document \in Documents /\ cls = classify(document, metadata)
        /\ c \in Result(document, cls)
    BY DEF ChainInv
  <2>2. document.text # "none"
    BY <2>1, PeriodOfCandidate
  <2>3. PICK kind : /\ c.fiscal_label = fiscal_label(cls, kind, c.end_date,
                                                     c.duration_months)
                    /\ c.duration_months # None => kind = "duration"
    BY <2>1, PeriodOfCandidate
  <2>4. /\ period # None
        /\ cls.period_end = period.end /\ cls.fiscal_year_end = Y
        /\ cls.fiscal_year_end_basis = basis
        /\ basis = "documented" => cls.fiscal_year_end_status = "document_only"
        /\ \E months : cls.fiscal_period = FiscalPeriod(type, period, basis, Y, months)
    <3> DEFINE hints == interpret_metadata(metadata)
               roled == RoledColumns(cols, document.signals, type, period)
    <3>1. cls = Classified(document, hints, cols, period, type)
      BY <2>1, <2>2 DEF classify, ClassifyColumns
    <3>2. LET fiscal == fiscal_of(document, type, period, cols, roled)
          IN  /\ cls.fiscal_year_end = fiscal.end /\ cls.fiscal_year_end_basis = fiscal.basis
              /\ cls.fiscal_year_end_status = fiscal.status
              /\ cls.fiscal_period = fiscal.period
              /\ cls.period_end = IF period # None THEN period.end ELSE hints.title_end
      BY <3>1 DEF Classified
    <3> HIDE DEF period, type, cols, roled, hints
    <3>3. period # None
      BY <3>2 DEF fiscal_of
    <3> QED BY <3>2, <3>3 DEF fiscal_of
  <2>5. PICK months : cls.fiscal_period = FiscalPeriod(type, period, basis, Y, months)
    BY <2>4
  <2>6. period.end \in MonthNumbers /\ period.end \in Int /\ period.end # None
    <3>1. period.end \in MonthNumbers
      BY <2>1, <2>4, PeriodEnds
    <3> QED BY <3>1, MonthNumbersIn, NothingAssumption DEF MonthNumbers
  <2>7. basis = "documented" => /\ Y \in Int /\ ends.documented = {Y}
                                /\ ends.inferred \subseteq {Y}
    BY <2>1, <2>6, OneYearEnd
  <2>8. c.fiscal_label = None \/ (basis = "documented" /\ c.fiscal_label # None)
    BY <2>3, <2>4, LabelAfter
  <2>9. CASE type \in ANNUAL_TYPES /\ period.months = 12
    <3>1. cls.fiscal_period = "FY"
      BY <2>5, <2>9 DEF FiscalPeriod
    <3>2. ASSUME basis = "documented"
          PROVE  k = 0
      <4>1. Month(period.end) \in ends.documented \cup ends.inferred
        BY <2>9 DEF YearEnds, Why
      <4>2. Month(period.end) = Y /\ Y \in Int
        BY <2>7, <3>2, <4>1
      <4> HIDE DEF Y
      <4> QED BY <2>4, <4>2
    <3>3. c.fiscal_label \in {"Q4", "H2", "FY", None}
      BY <2>3, <2>8, <3>2, LabelAfter
    <3> QED BY <3>1, <3>3 DEF EndsWith
  <2>10. CASE ~ (type \in ANNUAL_TYPES /\ period.months = 12)
    <3>1. basis = "documented"
      BY <2>5, <2>10 DEF FiscalPeriod
    <3> HIDE DEF Y, basis, ends, type, period, cols
    <3>2. \/ k = 0 /\ cls.fiscal_period = "Q4"
          \/ k = 3 /\ cls.fiscal_period = "Q1"
          \/ k = 6 /\ cls.fiscal_period = "Q2"
          \/ k = 9 /\ cls.fiscal_period = "Q3"
      BY <2>4, <2>5, <2>6, <2>7, <2>10, <3>1, QuarterEnds
    <3>3. c.fiscal_label \in EndsWith(cls.fiscal_period) \cup {None}
      BY <2>3, <3>2, LabelAfter DEF EndsWith
    <3>4. ASSUME Trusted(cls), c.duration_months = 3
          PROVE  c.fiscal_label = cls.fiscal_period
      <4>1. kind = "duration"
        BY <2>3, <3>4, NothingAssumption
      <4>2. cls.fiscal_year_end_status \in TRUSTED_F3_STATUSES
        BY <2>4, <3>1 DEF TRUSTED_F3_STATUSES
      <4>3. c.end_date # None /\ cls.fiscal_year_end_basis = "documented"
        BY <2>4, <2>6, <3>1
      <4> QED BY <2>3, <3>2, <3>4, <4>1, <4>2, <4>3, QuarterLabel
    <3> QED BY <3>3, <3>4
  <2> QED BY <2>9, <2>10
<1> QED BY <1>1, ChainHolds, PTL

(***************************************************************************)
(* What the cover of a document changes.                                   *)
(***************************************************************************)
AuditWords == {"provisional", "unaudited", "audited", "unknown"}

LEMMA HeaderWord ==
  ASSUME NEW st, st.kind # "changes_in_equity", NEW i \in DOMAIN st.columns
  PROVE  LET h == parse_statement_header(st)[i]
         IN  h.audit \in AuditWords /\ h.role_word \in {"current", "comparative", None}
<1> DEFINE heads == [k \in DOMAIN st.columns |-> HeaderColumn(st, st.columns[k])]
           h == WithoutClashes(heads)[i]
<1>1. parse_statement_header(st) = WithoutClashes(heads)
  BY DEF parse_statement_header
<1>2. h = heads[i] \/ h = [heads[i] EXCEPT !.end = None]
  BY DEF WithoutClashes
<1>3. /\ heads[i].audit \in AuditWords
      /\ heads[i].role_word \in {"current", "comparative", None}
  BY DEF HeaderColumn, AuditWords
<1>4. {"audit", "role_word"} \subseteq DOMAIN heads[i]
  BY DEF HeaderColumn
<1> HIDE DEF heads, h
<1>5. h.audit \in AuditWords /\ h.role_word \in {"current", "comparative", None}
  BY <1>2, <1>3, <1>4
<1> QED BY <1>1, <1>5 DEF h

(* The column read from a heading carries no mark of audit or role.        *)
LEMMA HeadingUnmarked ==
  ASSUME NEW st, NEW i \in DOMAIN HeadingColumn(st)
  PROVE  HeadingColumn(st)[i].audit = "unknown" /\ HeadingColumn(st)[i].role_word = None
<1>1. \/ HeadingColumn(st) = <<>>
      \/ \E index, statement, page, kind, months, label, end :
           HeadingColumn(st) =
             <<[index |-> index, statement |-> statement, page |-> page,
                kind |-> kind, months |-> months, label |-> label, end |-> end,
                year_word |-> FALSE, filled |-> FALSE,
                audit |-> "unknown", role_word |-> None, restated |-> FALSE,
                scopes |-> {}]>>
  BY Zenon DEF HeadingColumn
<1>2. HeadingColumn(st) # <<>>
  OBVIOUS
<1> QED BY <1>1, <1>2

LEMMA ColumnWords ==
  ASSUME NEW doc, NEW p \in DOMAIN statement_periods_of(doc)
  PROVE  LET c == statement_periods_of(doc)[p]
         IN  c.audit \in AuditWords /\ c.role_word \in {"current", "comparative", None}
<1> DEFINE st == doc.statements[p[1]]
<1>1. /\ p[1] \in DOMAIN doc.statements /\ p[2] \in DOMAIN statement_columns(st)
      /\ statement_periods_of(doc)[p] = statement_columns(st)[p[2]]
  BY DEF statement_periods_of
<1>2. CASE st.columns = <<>>
  <2>1. statement_columns(st) = HeadingColumn(st)
    BY <1>2 DEF statement_columns
  <2>2. p[2] \in DOMAIN HeadingColumn(st)
    BY <1>1, <2>1
  <2> HIDE DEF st
  <2>3. /\ HeadingColumn(st)[p[2]].audit = "unknown"
        /\ HeadingColumn(st)[p[2]].role_word = None
    BY <2>2, HeadingUnmarked
  <2> QED BY <1>1, <2>1, <2>3 DEF AuditWords
<1>3. CASE st.columns # <<>>
  <2>1. statement_columns(st) = parse_statement_header(st)
    BY <1>3 DEF statement_columns
  <2>2. p[2] \in DOMAIN parse_statement_header(st)
    BY <1>1, <2>1
  <2>3. st.kind # "changes_in_equity"
    BY <2>2 DEF parse_statement_header
  <2>4. DOMAIN parse_statement_header(st) = DOMAIN st.columns
    BY <2>3 DEF parse_statement_header, WithoutClashes
  <2> QED BY <1>1, <2>1, <2>2, <2>3, <2>4, HeaderWord
<1> QED BY <1>2, <1>3

(* F3's row for column i.                                                  *)
RoleAt(cols, period, i) == ColumnRole(Kept(cols, cols[i]), cols[i], period)
OwnAudit(cols, i) == ColumnAudit(Kept(cols, cols[i]), cols[i])
KeptPlaces(cols) == {j \in DOMAIN cols : cols[j].end # None /\ cols[j] \in Kept(cols, cols[j])}

LEMMA RoledIs ==
  ASSUME NEW cols, NEW sig, NEW type, NEW period
  PROVE  LET roled == RoledColumns(cols, sig, type, period)
         IN  /\ DOMAIN roled = KeptPlaces(cols)
             /\ \A i \in KeptPlaces(cols) :
                   /\ roled[i].statement_kind = cols[i].statement
                   /\ roled[i].period = PeriodOf(cols[i])
                   /\ roled[i].role = RoleAt(cols, period, i)
                   /\ roled[i].covered =>
                         /\ roled[i].role = "current"
                         /\ roled[i].audit_status = CoverStatus(sig, type)
                         /\ CoverStatus(sig, type) # None
                   /\ ~ roled[i].covered => roled[i].audit_status = OwnAudit(cols, i)
BY DEF RoledColumns, KeptPlaces, RoleAt, OwnAudit

(* Every role and label of a statement period is one of a few words.       *)
LEMMA RoledWords ==
  ASSUME NEW doc, NEW sig, NEW type, NEW period,
         NEW i \in DOMAIN RoledColumns(statement_periods_of(doc), sig, type, period)
  PROVE  LET r == RoledColumns(statement_periods_of(doc), sig, type, period)[i]
         IN  r.audit_status \in AuditWords /\ r.role \in TRUSTED_ROLES \cup {"unknown"}
<1> DEFINE cols == statement_periods_of(doc)
           r == RoledColumns(cols, sig, type, period)[i]
<1>1. i \in KeptPlaces(cols) /\ i \in DOMAIN cols
  <2>1. DOMAIN RoledColumns(cols, sig, type, period) = KeptPlaces(cols)
    BY RoledIs
  <2> HIDE DEF cols
  <2>2. KeptPlaces(cols) \subseteq DOMAIN cols
    BY DEF KeptPlaces
  <2> QED BY <2>1, <2>2 DEF cols
<1>2. cols[i].audit \in AuditWords /\ cols[i].role_word \in {"current", "comparative", None}
  BY <1>1, ColumnWords
<1>3. CoverStatus(sig, type) \in AuditWords \cup {None}
  BY DEF CoverStatus, AuditWords
<1>4. OwnAudit(cols, i) \in AuditWords
  BY <1>2 DEF OwnAudit, ColumnAudit, AuditWords
<1>5. RoleAt(cols, period, i) \in TRUSTED_ROLES \cup {"unknown"}
  BY <1>2 DEF RoleAt, ColumnRole, FirstRole, TRUSTED_ROLES
<1>6. /\ r.role = RoleAt(cols, period, i)
      /\ \/ r.audit_status = OwnAudit(cols, i)
         \/ r.audit_status = CoverStatus(sig, type) /\ CoverStatus(sig, type) # None
  BY <1>1, RoledIs
<1> HIDE DEF r, cols
<1>7. r.audit_status \in AuditWords
  BY <1>3, <1>4, <1>6
<1>8. r.role \in TRUSTED_ROLES \cup {"unknown"}
  BY <1>5, <1>6
<1> QED BY <1>7, <1>8 DEF r, cols

(* The statement periods F4 reads, and those for a kind and period.        *)
StatementRows(roled) ==
    {[k \in {"statement_kind", "period", "role", "audit_status", "restated"} |->
         roled[i][k]] : i \in DOMAIN roled}

HitsAt(roled, kind, p) ==
    {i \in DOMAIN roled : roled[i].statement_kind = kind /\ roled[i].period = p}
RolesAt(roled, kind, p) == {roled[i].role : i \in HitsAt(roled, kind, p)}
AuditsAt(roled, kind, p) == {roled[i].audit_status : i \in HitsAt(roled, kind, p)}

LEMMA MatchAt ==
  ASSUME NEW cls, NEW roled, cls.statement_periods = StatementRows(roled), NEW kind, NEW col
  PROVE  LET f3 == match_f3_role(cls, kind, col)
         IN  /\ f3.role = Single(RolesAt(roled, kind, PeriodOf(col)))
             /\ f3.audit = Single(AuditsAt(roled, kind, PeriodOf(col)))
<1> DEFINE row(i) == [k \in {"statement_kind", "period", "role", "audit_status",
                             "restated"} |-> roled[i][k]]
           rows == {s \in cls.statement_periods :
                      s.statement_kind = kind /\ s.period = PeriodOf(col)}
           hits == HitsAt(roled, kind, PeriodOf(col))
<1>1. \A i : /\ row(i).statement_kind = roled[i].statement_kind
             /\ row(i).period = roled[i].period /\ row(i).role = roled[i].role
             /\ row(i).audit_status = roled[i].audit_status
  OBVIOUS
<1>2. cls.statement_periods = {row(i) : i \in DOMAIN roled}
  BY DEF StatementRows
<1> HIDE DEF row
<1>3. rows = {row(i) : i \in hits}
  BY <1>1, <1>2 DEF HitsAt
<1> HIDE DEF rows, hits
<1>4. /\ {s.role : s \in rows} = {roled[i].role : i \in hits}
      /\ {s.audit_status : s \in rows} = {roled[i].audit_status : i \in hits}
  BY <1>1, <1>3
<1> QED BY <1>4 DEF match_f3_role, rows, hits, RolesAt, AuditsAt

(* The roles do not depend on the cover.                                   *)
LEMMA RolesKept ==
  ASSUME NEW cols, NEW period, NEW sig, NEW type, NEW sig2, NEW type2, NEW cls, NEW other,
         cls.statement_periods = StatementRows(RoledColumns(cols, sig, type, period)),
         other.statement_periods = StatementRows(RoledColumns(cols, sig2, type2, period)),
         NEW kind, NEW col
  PROVE  match_f3_role(cls, kind, col).role = match_f3_role(other, kind, col).role
<1> DEFINE a == RoledColumns(cols, sig, type, period)
           b == RoledColumns(cols, sig2, type2, period)
           p == PeriodOf(col)
<1>1. /\ DOMAIN a = KeptPlaces(cols) /\ DOMAIN b = KeptPlaces(cols)
      /\ \A i \in KeptPlaces(cols) : /\ a[i].statement_kind = b[i].statement_kind
                                     /\ a[i].period = b[i].period /\ a[i].role = b[i].role
  BY RoledIs
<1>2. /\ match_f3_role(cls, kind, col).role = Single(RolesAt(a, kind, p))
      /\ match_f3_role(other, kind, col).role = Single(RolesAt(b, kind, p))
  BY MatchAt
<1> HIDE DEF a, b, p
<1>3. HitsAt(a, kind, p) = HitsAt(b, kind, p) /\ HitsAt(a, kind, p) \subseteq KeptPlaces(cols)
  BY <1>1 DEF HitsAt
<1>4. RolesAt(a, kind, p) = RolesAt(b, kind, p)
  BY <1>1, <1>3 DEF RolesAt
<1> QED BY <1>2, <1>4

(* Equal roles of F3 give equal roles of F4.                               *)
LEMMA RolesRead ==
  ASSUME NEW cls, NEW other, NEW st, Trusted(cls) <=> Trusted(other),
         cls.period_end = other.period_end, cls.period_start = other.period_start,
         \A kind, col : match_f3_role(cls, kind, col).role
                        = match_f3_role(other, kind, col).role
  PROVE  \A i \in DOMAIN st.columns :
            /\ build_columns(cls, st)[i].role = build_columns(other, st)[i].role
            /\ build_columns(cls, st)[i].role_basis = build_columns(other, st)[i].role_basis
<1>2. \A kind, col, word : LeadRole(cls, kind, col, word) = LeadRole(other, kind, col, word)
  BY DEF LeadRole
<1>3. \A kind, col, currents :
         mirror_role(cls, kind, col, currents) = mirror_role(other, kind, col, currents)
  <2>1. (IF Trusted(cls) /\ cls.period_start # None THEN cls.period_start - 1 ELSE None)
          = IF Trusted(other) /\ other.period_start # None
            THEN other.period_start - 1 ELSE None
    OBVIOUS
  <2> QED BY <2>1, ZenonT(60) DEF mirror_role
<1> DEFINE plain == Grouped(st)
           dated == {i \in DOMAIN plain : plain[i].column_kind = "period"
                                          /\ plain[i].end # None}
           lead(c) == [i \in dated |-> LeadRole(c, st.kind, plain[i],
                                                explicit_role(st.columns[i]))]
           currents(l) == {plain[i] : i \in {j \in dated : l[j].role = "current"}}
           role(c, l, i) == IF l[i].role = "unknown"
                               /\ mirror_role(c, st.kind, plain[i], currents(l))
                            THEN RoleAs("comparative", "f4.mirrored_f3_role_rule")
                            ELSE l[i]
           label(c, i) == LET f3 == match_f3_role(c, st.kind, plain[i])
                          IN  IF f3.role # None /\ f3.audit # None
                                 /\ plain[i].audit = "unknown"
                              THEN f3.audit ELSE plain[i].audit
           assigned(c, l) == [i \in DOMAIN plain |->
              IF i \notin dated THEN plain[i]
              ELSE [plain[i] EXCEPT !.role = role(c, l, i).role,
                                    !.role_basis = role(c, l, i).role_basis,
                                    !.audit_status = label(c, i)]]
<1>4. lead(cls) = lead(other)
  BY <1>2
<1>5. \A l, i : role(cls, l, i) = role(other, l, i)
  BY <1>3
<1>6. /\ build_columns(cls, st) = assigned(cls, lead(cls))
      /\ build_columns(other, st) = assigned(other, lead(other))
  BY DEF AssignRoles, build_columns, Grouped
<1>7. DOMAIN plain = DOMAIN st.columns
      /\ \A i \in DOMAIN plain : DOMAIN plain[i] = ColumnFields
  BY GroupedFields
<1> HIDE DEF plain, lead, role, label, dated
<1>8. \A c, l : \A i \in DOMAIN plain :
         /\ assigned(c, l)[i].role = IF i \in dated THEN role(c, l, i).role ELSE plain[i].role
         /\ assigned(c, l)[i].role_basis =
               IF i \in dated THEN role(c, l, i).role_basis ELSE plain[i].role_basis
  BY <1>7 DEF ColumnFields
<1>9. \A l : \A i \in DOMAIN plain :
         /\ assigned(cls, l)[i].role = assigned(other, l)[i].role
         /\ assigned(cls, l)[i].role_basis = assigned(other, l)[i].role_basis
  <2> HIDE DEF assigned
  <2> QED BY <1>5, <1>8
<1> HIDE DEF assigned
<1> QED BY <1>4, <1>6, <1>7, <1>9

(* The label of a dated column, and that a period column is dated.         *)
LEMMA LabelRead ==
  ASSUME NEW cls, NEW st, NEW i \in DOMAIN st.columns,
         Grouped(st)[i].column_kind = "period", Grouped(st)[i].end # None
  PROVE  LET col == build_columns(cls, st)[i]
             f3 == match_f3_role(cls, st.kind, col)
         IN  col.audit_status = IF f3.role # None /\ f3.audit # None /\ col.audit = "unknown"
                                THEN f3.audit ELSE col.audit
<1> DEFINE plain == Grouped(st)
           col == build_columns(cls, st)[i]
           f3 == match_f3_role(cls, st.kind, plain[i])
           label == IF f3.role # None /\ f3.audit # None /\ plain[i].audit = "unknown"
                    THEN f3.audit ELSE plain[i].audit
<1>1. DOMAIN plain = DOMAIN st.columns /\ DOMAIN plain[i] = ColumnFields
  BY GroupedFields
<1>2. \E a, b : col = [plain[i] EXCEPT !.role = a, !.role_basis = b, !.audit_status = label]
  BY <1>1 DEF build_columns, AssignRoles, Grouped
<1>3. \A k \in ColumnFields \ RoleFields : col[k] = plain[i][k]
  BY ColumnsKeep
<1> HIDE DEF plain, col, label
<1>4. col.audit_status = label
  <2>1. PICK a, b : col = [plain[i] EXCEPT !.role = a, !.role_basis = b,
                                           !.audit_status = label]
    BY <1>2
  <2> QED BY <1>1, <2>1 DEF ColumnFields
<1>5. col.audit = plain[i].audit /\ PeriodOf(col) = PeriodOf(plain[i])
  BY <1>3 DEF ColumnFields, RoleFields, PeriodOf
<1>6. match_f3_role(cls, st.kind, col) = f3
  BY <1>5 DEF match_f3_role
<1> QED BY <1>4, <1>5, <1>6 DEF col, label

(* The first of several places in reading order.                           *)
LEMMA FirstPlace ==
  ASSUME NEW A \in SUBSET (Nat \X Nat), A # {}
  PROVE  \E p \in A : \A q \in A : ~ Before(q, p)
<1> DEFINE X == {q[1] : q \in A}
           x == Min(X)
           here == {q \in A : q[1] = x}
           Y == {q[2] : q \in here}
           y == Min(Y)
<1>1. X \in SUBSET Nat /\ X # {}
  OBVIOUS
<1>2. x \in X /\ \A z \in X : x <= z
  <2> HIDE DEF X
  <2> QED BY <1>1, MinOfNaturals
<1> HIDE DEF x
<1>3. Y \in SUBSET Nat /\ Y # {}
  BY <1>2
<1>4. y \in Y /\ \A z \in Y : y <= z
  <2> HIDE DEF Y
  <2> QED BY <1>3, MinOfNaturals
<1> HIDE DEF y
<1>5. PICK p \in here : p[2] = y
  BY <1>4
<1>6. ASSUME NEW q \in A
      PROVE  ~ Before(q, p)
  <2>1. q[1] \in Nat /\ q[2] \in Nat /\ p[1] = x /\ p[2] = y /\ x <= q[1]
    BY <1>2, <1>5
  <2>2. q[1] = x => y <= q[2]
    BY <1>4
  <2>3. x \in Nat /\ y \in Nat
    BY <1>1, <1>2, <1>3, <1>4
  <2> HIDE DEF X, Y, here
  <2> QED BY <2>1, <2>2, <2>3 DEF Before
<1> QED BY <1>5, <1>6

LEMMA PlacesOf ==
  ASSUME NEW doc \in Documents
  PROVE  DOMAIN statement_periods_of(doc) \in SUBSET (Nat \X Nat)
<1>1. \A p \in DOMAIN statement_periods_of(doc) :
         /\ p[1] \in DOMAIN doc.statements
         /\ p[2] \in DOMAIN statement_columns(doc.statements[p[1]]) /\ p = <<p[1], p[2]>>
  BY DEF statement_periods_of
<1>2. ASSUME NEW i \in DOMAIN doc.statements
      PROVE  i \in Nat /\ DOMAIN statement_columns(doc.statements[i]) \subseteq Nat
  <2> DEFINE st == doc.statements[i]
  <2>1. i \in Nat /\ DOMAIN st.columns \subseteq Nat
    BY DocumentsAssumption DEF DatedStatement
  <2>2. DOMAIN HeadingColumn(st) \subseteq Nat
    BY DEF HeadingColumn
  <2>3. DOMAIN parse_statement_header(st) \subseteq Nat
    BY <2>1 DEF parse_statement_header, WithoutClashes
  <2> QED BY <2>1, <2>2, <2>3 DEF statement_columns
<1> QED BY <1>1, <1>2

(* The cover rule leaves evidence of a label that only it gave.            *)
LEMMA CoverLeaves ==
  ASSUME NEW doc \in Documents, NEW sig, NEW type, NEW period, NEW kind, NEW p,
         LET roled == RoledColumns(statement_periods_of(doc), sig, type, period)
         IN  /\ HitsAt(roled, kind, p) # {}
             /\ \A i \in HitsAt(roled, kind, p) : roled[i].covered
  PROVE  LET roled == RoledColumns(statement_periods_of(doc), sig, type, period)
         IN  CoverStatus(sig, type) \in CoverLabels(roled)
<1> DEFINE cols == statement_periods_of(doc)
           roled == RoledColumns(cols, sig, type, period)
           hits == HitsAt(roled, kind, p)
           aggregate(r) == <<r.statement_kind, r.period, r.role, r.audit_status, r.restated>>
<1>1. /\ DOMAIN roled = KeptPlaces(cols)
      /\ \A i \in KeptPlaces(cols) :
            roled[i].covered => /\ roled[i].audit_status = CoverStatus(sig, type)
                                /\ CoverStatus(sig, type) # None
  BY RoledIs
<1>2. DOMAIN roled \in SUBSET (Nat \X Nat)
  <2>1. KeptPlaces(cols) \subseteq DOMAIN cols
    BY DEF KeptPlaces
  <2> QED BY <1>1, <2>1, PlacesOf
<1>3. PICK i \in hits : TRUE
  OBVIOUS
<1> DEFINE same == {k \in DOMAIN roled : aggregate(roled[k]) = aggregate(roled[i])}
<1> HIDE DEF roled
<1>4. same \in SUBSET (Nat \X Nat) /\ same # {}
  BY <1>2, <1>3 DEF HitsAt
<1>5. PICK j \in same : \A q \in same : ~ Before(q, j)
  <2> HIDE DEF same
  <2> QED BY <1>4, FirstPlace
<1>6. j \in hits
  BY <1>3, <1>5 DEF HitsAt
<1>7. roled[j].covered /\ j \in DOMAIN roled
  BY <1>6 DEF roled, HitsAt
<1>8. ~ \E k \in DOMAIN roled : /\ Before(k, j)
                                /\ aggregate(roled[k]) = aggregate(roled[j])
  BY <1>5
<1>9. roled[j].audit_status = CoverStatus(sig, type) /\ CoverStatus(sig, type) # None
  BY <1>1, <1>7
<1>10. CoverStatus(sig, type) \in IF roled[j].audit_status = "audited" THEN {"audited"}
                                  ELSE {"unaudited", "provisional"}
  BY <1>9 DEF CoverStatus
<1> HIDE DEF hits, same
<1>11. CoverStatus(sig, type) \in CoverLabels(roled)
  <2> DEFINE gives(k) == IF roled[k].audit_status = "audited" THEN {"audited"}
                         ELSE {"unaudited", "provisional"}
             first == {k \in DOMAIN roled : /\ roled[k].covered
                         /\ ~ \E m \in DOMAIN roled : /\ Before(m, k)
                               /\ aggregate(roled[m]) = aggregate(roled[k])}
  <2>1. CoverLabels(roled) = UNION {gives(k) : k \in first}
    BY DEF CoverLabels
  <2>2. j \in first
    BY <1>7, <1>8
  <2> HIDE DEF first
  <2> QED BY <1>10, <2>1, <2>2
<1> QED BY <1>11 DEF roled

(* A label of F3 that the cover did not leave is printed by a column.      *)
LEMMA LabelPrinted ==
  ASSUME NEW doc \in Documents, NEW sig, NEW type, NEW period, NEW cls, NEW kind, NEW col,
         LET roled == RoledColumns(statement_periods_of(doc), sig, type, period)
         IN  /\ cls.statement_periods = StatementRows(roled)
             /\ cls.cover_labels = CoverLabels(roled),
         LET f3 == match_f3_role(cls, kind, col)
         IN  /\ f3.role # None /\ f3.audit \notin {None, "unknown"}
             /\ ~ (f3.audit \in cls.cover_labels /\ f3.role = "current")
  PROVE  LET cols == statement_periods_of(doc)
         IN  \E i \in DOMAIN cols : /\ cols[i].statement = kind
                                    /\ PeriodOf(cols[i]) = PeriodOf(col)
                                    /\ cols[i].audit = match_f3_role(cls, kind, col).audit
<1> DEFINE cols == statement_periods_of(doc)
           roled == RoledColumns(cols, sig, type, period)
           f3 == match_f3_role(cls, kind, col)
           p == PeriodOf(col)
           hits == HitsAt(roled, kind, p)
<1>1. f3.role = Single(RolesAt(roled, kind, p)) /\ f3.audit = Single(AuditsAt(roled, kind, p))
  BY MatchAt
<1>2. \A i \in hits : roled[i].audit_status \in AuditWords
                      /\ roled[i].role \in TRUSTED_ROLES \cup {"unknown"}
  BY RoledWords DEF HitsAt
<1> HIDE DEF f3, p
<1>3. \A S, W : S \subseteq W /\ IsFiniteSet(W) /\ Single(S) # None => S = {Single(S)}
  <2> SUFFICES ASSUME NEW S, NEW W, S \subseteq W, IsFiniteSet(W), Single(S) # None
               PROVE  S = {Single(S)}
    OBVIOUS
  <2>1. IsFiniteSet(S)
    BY FS_Subset
  <2>2. Cardinality(S) = 1
    BY DEF Single
  <2> QED BY <2>1, <2>2, SingleIn
<1>4. IsFiniteSet(AuditWords) /\ IsFiniteSet(TRUSTED_ROLES \cup {"unknown"})
  <2>1. \A a, b, c : IsFiniteSet({a, b, c})
    <3> SUFFICES ASSUME NEW a, NEW b, NEW c PROVE IsFiniteSet({a, b, c})
      OBVIOUS
    <3>1. IsFiniteSet({a} \cup {b})
      BY FS_Singleton, FS_AddElement
    <3>2. IsFiniteSet(({a} \cup {b}) \cup {c})
      BY <3>1, FS_AddElement
    <3> QED BY <3>2
  <2>2. IsFiniteSet({"provisional", "unaudited", "audited"} \cup {"unknown"})
    BY <2>1, FS_AddElement
  <2>3. IsFiniteSet({"current"} \cup {"comparative"})
    BY FS_Singleton, FS_AddElement
  <2>4. AuditWords = {"provisional", "unaudited", "audited"} \cup {"unknown"}
    BY DEF AuditWords
  <2>5. TRUSTED_ROLES = {"current"} \cup {"comparative"}
    BY DEF TRUSTED_ROLES
  <2>6. IsFiniteSet(TRUSTED_ROLES)
    BY <2>3, <2>5
  <2> QED BY <2>2, <2>4, <2>6, FS_AddElement
<1>5. AuditsAt(roled, kind, p) = {f3.audit} /\ RolesAt(roled, kind, p) = {f3.role}
  <2>1. /\ AuditsAt(roled, kind, p) \subseteq AuditWords
        /\ RolesAt(roled, kind, p) \subseteq TRUSTED_ROLES \cup {"unknown"}
    BY <1>2 DEF AuditsAt, RolesAt
  <2>2. f3.role # None /\ f3.audit # None
    BY DEF f3
  <2> QED BY <1>1, <1>3, <1>4, <2>1, <2>2
<1>6. hits # {} /\ \A i \in hits : roled[i].audit_status = f3.audit /\ roled[i].role = f3.role
  BY <1>5 DEF AuditsAt, RolesAt
<1>7. /\ DOMAIN roled = KeptPlaces(cols)
      /\ \A i \in KeptPlaces(cols) :
            /\ roled[i].statement_kind = cols[i].statement
            /\ roled[i].period = PeriodOf(cols[i])
            /\ roled[i].covered => /\ roled[i].role = "current"
                                   /\ roled[i].audit_status = CoverStatus(sig, type)
            /\ ~ roled[i].covered => roled[i].audit_status = OwnAudit(cols, i)
  BY RoledIs
<1>8. \E i \in hits : ~ roled[i].covered
  <2> SUFFICES ASSUME \A i \in hits : roled[i].covered PROVE FALSE
    OBVIOUS
  <2>1. CoverStatus(sig, type) \in cls.cover_labels
    BY <1>6, CoverLeaves
  <2>2. PICK i \in hits : TRUE
    BY <1>6
  <2>3. i \in KeptPlaces(cols)
    BY <1>7 DEF HitsAt
  <2>4. f3.role = "current" /\ f3.audit = CoverStatus(sig, type)
    BY <1>6, <1>7, <2>3
  <2> QED BY <2>1, <2>4 DEF f3
<1>9. PICK i \in hits : ~ roled[i].covered
  BY <1>8
<1>10. i \in KeptPlaces(cols) /\ roled[i].statement_kind = kind /\ roled[i].period = p
  BY <1>7 DEF HitsAt
<1>11. OwnAudit(cols, i) = f3.audit
  BY <1>6, <1>7, <1>9, <1>10
<1>12. cols[i].audit = f3.audit
  <2>1. f3.audit # "unknown"
    BY DEF f3
  <2> HIDE DEF cols
  <2> QED BY <1>11, <2>1 DEF OwnAudit, ColumnAudit
<1>13. i \in DOMAIN cols /\ cols[i].statement = kind /\ PeriodOf(cols[i]) = p
  <2>1. KeptPlaces(cols) \subseteq DOMAIN cols
    BY DEF KeptPlaces
  <2> QED BY <1>7, <1>10, <2>1
<1> QED BY <1>12, <1>13 DEF f3, p

(* Two documents with the same statements have the same places.            *)
LEMMA SameStatements ==
  ASSUME NEW doc, NEW other, other.statements = doc.statements, NEW cls,
         NEW i, NEW j, NEW r, NEW v
  PROVE  /\ Place(other, cls, i, j, r, v) <=> Place(doc, cls, i, j, r, v)
         /\ CandidateAt(other, cls, i, j, r, v) = CandidateAt(doc, cls, i, j, r, v)
<1>1. Source(other, i) = Source(doc, i)
  BY DEF Source
<1>2. StatementScale(other, doc.statements[i]) = StatementScale(doc, doc.statements[i])
  BY DEF StatementScale
<1>3. \A k : extract_region(other, cls, k) = extract_region(doc, cls, k)
  BY DEF extract_region, StatementScale
<1>4. extract_from_words(other, cls) = extract_from_words(doc, cls)
  BY <1>3 DEF extract_from_words
<1>5. ColumnsAt(other, cls, i) = ColumnsAt(doc, cls, i)
  BY <1>1 DEF ColumnsAt
<1>6. CellAt(other, cls, i, j, r, v) = CellAt(doc, cls, i, j, r, v)
  BY <1>2, <1>5 DEF CellAt
<1>7. MappingAt(other, cls, i, r) = MappingAt(doc, cls, i, r)
  BY <1>4 DEF MappingAt
<1>8. PeriodAt(other, cls, i, j, r) = PeriodAt(doc, cls, i, j, r)
  BY <1>5, <1>7 DEF PeriodAt
<1>9. Shown(other, i, j, r, v) <=> Shown(doc, i, j, r, v)
  BY <1>1 DEF Shown
<1> QED BY <1>3, <1>5, <1>6, <1>7, <1>8, <1>9 DEF Place, CandidateAt

(* The fields of a candidate that F3's roles and labels decide.            *)
LEMMA LabelFieldsAt ==
  ASSUME NEW doc, NEW cls, NEW i \in DOMAIN doc.statements, NEW j, NEW r, NEW v
  PROVE  LET c == CandidateAt(doc, cls, i, j, r, v)
             col == ColumnsAt(doc, cls, i)[j]
             kind == doc.statements[i].kind
         IN  /\ DOMAIN c = CandidateFields /\ c.statement_kind = kind
             /\ c.end_date = col.end /\ c.duration_months = col.months
             /\ c.role = col.role /\ c.role_trust = role_trust(cls, col.role, col.role_basis)
             /\ c.audit_label = col.audit_status
             /\ c.audit_source = audit_source(cls, kind, col)
             /\ c.audit_trust = IF col.audit_status # "unknown" /\ Trusted(cls)
                                THEN "trusted" ELSE "untrusted"
<1>1. \A st, cell, mapping, period :
         LET d == Candidate(cls, st, cell, mapping, period)
         IN  /\ d.statement_kind = st.kind
             /\ d.end_date = cell.col.end /\ d.duration_months = cell.col.months
             /\ d.role = cell.col.role
             /\ d.role_trust = role_trust(cls, cell.col.role, cell.col.role_basis)
             /\ d.audit_label = cell.col.audit_status
             /\ d.audit_source = audit_source(cls, st.kind, cell.col)
             /\ d.audit_trust = IF cell.col.audit_status # "unknown" /\ Trusted(cls)
                                THEN "trusted" ELSE "untrusted"
  BY DEF Candidate
<1>2. CellAt(doc, cls, i, j, r, v).col = ColumnsAt(doc, cls, i)[j]
  BY DEF CellAt, make_cell
<1>3. extract_region(doc, cls, i).kind = doc.statements[i].kind
  BY RegionIs
<1>4. DOMAIN CandidateAt(doc, cls, i, j, r, v) = CandidateFields
  BY FieldsAt DEF CandidateAt
<1> QED BY <1>1, <1>2, <1>3, <1>4 DEF CandidateAt

(* A candidate's column is a dated one of a statement of its own kind.     *)
LEMMA DatedAt ==
  ASSUME NEW doc \in Documents, NEW cls, NEW i, NEW j, NEW r, NEW v,
         Place(doc, cls, i, j, r, v)
  PROVE  LET st == Source(doc, i)
         IN  /\ i \in DOMAIN doc.statements /\ j \in DOMAIN st.columns
             /\ st.kind = doc.statements[i].kind
             /\ Grouped(st)[j].column_kind = "period" /\ Grouped(st)[j].end # None
<1> DEFINE st == Source(doc, i)
           col == ColumnsAt(doc, cls, i)[j]
           plain == PlainColumns(st)[j]
<1>1. /\ i \in DOMAIN doc.statements /\ j \in DOMAIN st.columns
      /\ col.column_kind = "period" /\ PeriodAt(doc, cls, i, j, r) # None
  BY DEF Place, Shown
<1>2. st.kind = doc.statements[i].kind
  BY <1>1, DocumentsAssumption DEF Source
<1>3. col.kind # None
  <2> HIDE DEF col
  <2>1. \A concept : candidate_period(concept, col) # None => col.kind # None
    BY DEF candidate_period
  <2> QED BY <1>1, <2>1 DEF PeriodAt, col
<1>4. \A k \in ColumnFields \ RoleFields : col[k] = Grouped(st)[j][k]
  BY <1>1, ColumnsKeep DEF ColumnsAt
<1> HIDE DEF col
<1>5. Grouped(st)[j].column_kind = "period" /\ Grouped(st)[j].kind # None
  BY <1>1, <1>3, <1>4 DEF ColumnFields, RoleFields
<1>6. plain.kind # None => plain.end # None
  <2>1. \/ plain = PeriodColumn(st, st.columns[j], parse_statement_header(st)[j])
        \/ \E kind, status : plain = OtherColumn(st.columns[j], kind, status)
    BY <1>1 DEF PlainColumns
  <2>2. \A kind, status : OtherColumn(st.columns[j], kind, status).kind = None
    BY DEF OtherColumn
  <2>3. \A c, h : LET p == PeriodColumn(st, c, h) IN p.kind # None => p.end # None
    BY DEF PeriodColumn, OtherColumn
  <2> HIDE DEF plain
  <2> QED BY <2>1, <2>2, <2>3
<1>7. /\ Grouped(st)[j].kind = plain.kind /\ Grouped(st)[j].end = plain.end
  <2>1. Grouped(st)[j] = plain \/ \E x : Grouped(st)[j] = [plain EXCEPT !.scope = x]
    BY <1>1, PlainFields DEF Grouped, group_scopes
  <2>2. DOMAIN plain = ColumnFields
    BY <1>1, PlainFields
  <2> HIDE DEF plain
  <2>3. CASE \E x : Grouped(st)[j] = [plain EXCEPT !.scope = x]
    <3>1. PICK x : Grouped(st)[j] = [plain EXCEPT !.scope = x]
      BY <2>3
    <3> QED BY <2>2, <3>1 DEF ColumnFields
  <2> QED BY <2>1, <2>3
<1> HIDE DEF plain
<1>8. Grouped(st)[j].end # None
  BY <1>5, <1>6, <1>7
<1> QED BY <1>1, <1>2, <1>5, <1>8

(* Without its cover phrases a document reports the same period, and its   *)
(* columns the same roles.                                                 *)
LEMMA CoverKeeps ==
  ASSUME NEW doc \in Documents, doc.text # "none", NEW meta
  PROVE  LET bare == WithoutCover(doc)
             hints == interpret_metadata(meta)
             cols == statement_periods_of(doc)
             period == DocumentPeriod(doc, cols)
         IN  /\ bare.statements = doc.statements /\ bare.text = doc.text
             /\ classify(doc, meta) = Classified(doc, hints, cols, period,
                                                 UnderlyingType(doc, period))
             /\ classify(bare, meta) = Classified(bare, hints, cols, period,
                                                  UnderlyingType(bare, period))
<1> DEFINE bare == WithoutCover(doc)
           cols == statement_periods_of(doc)
<1>1. /\ bare.statements = doc.statements /\ bare.text = doc.text
      /\ bare.front = doc.front /\ bare.deep = doc.deep
      /\ bare.signals = doc.signals \ {"cover_unaudited", "provisional", "auditor_report"}
  BY DocumentsAssumption DEF WithoutCover
<1> HIDE DEF bare
<1>2. statement_periods_of(bare) = cols
  BY <1>1 DEF statement_periods_of
<1>3. front_period(bare) = front_period(doc)
  BY <1>1 DEF front_period
<1> HIDE DEF cols
<1>4. DocumentPeriod(bare, cols) = DocumentPeriod(doc, cols)
  BY <1>3 DEF DocumentPeriod
<1>5. classify(bare, meta) = Classified(bare, interpret_metadata(meta), cols,
                                        DocumentPeriod(bare, cols),
                                        UnderlyingType(bare, DocumentPeriod(bare, cols)))
  BY <1>1, <1>2 DEF classify, ClassifyColumns
<1>6. classify(doc, meta) = Classified(doc, interpret_metadata(meta), cols,
                                       DocumentPeriod(doc, cols),
                                       UnderlyingType(doc, DocumentPeriod(doc, cols)))
  BY DEF classify, ClassifyColumns, cols
<1> QED BY <1>1, <1>4, <1>5, <1>6 DEF bare, cols

(* What a classification says of the statements.                           *)
LEMMA ClassifiedIs ==
  ASSUME NEW doc, NEW hints, NEW cols, NEW period, NEW type
  PROVE  LET cls == Classified(doc, hints, cols, period, type)
             roled == RoledColumns(cols, doc.signals, type, period)
         IN  /\ cls.statement_periods = StatementRows(roled)
             /\ cls.cover_labels = CoverLabels(roled)
             /\ cls.period_status = PeriodStatus(period, hints)
             /\ cls.period_end = IF period # None THEN period.end ELSE hints.title_end
             /\ cls.period_start = IF PriorEnd(period) = None THEN None
                                   ELSE PriorEnd(period) + 1
BY DEF Classified, StatementRows

(* I-5: a label that was not recorded as an inference from the cover is    *)
(* printed by a column, or given without the cover's phrases too.          *)
LEMMA LabelKept ==
  ASSUME NEW doc \in Documents, doc.text # "none", NEW meta,
         NEW c \in Result(doc, classify(doc, meta)),
         c.audit_source \in {"column_header_word", "f3_statement_period"},
         ~ Printed(doc, c)
  PROVE  StillLabelled(c, Result(WithoutCover(doc), classify(WithoutCover(doc), meta)))
<1> DEFINE cls == classify(doc, meta)
           bare == WithoutCover(doc)
           other == classify(bare, meta)
           hints == interpret_metadata(meta)
           cols == statement_periods_of(doc)
           period == DocumentPeriod(doc, cols)
           type == UnderlyingType(doc, period)
           roled == RoledColumns(cols, doc.signals, type, period)
           bared == RoledColumns(cols, bare.signals, UnderlyingType(bare, period), period)
<1>1. PICK i, j, r, v : Place(doc, cls, i, j, r, v) /\ c = CandidateAt(doc, cls, i, j, r, v)
  BY ResultAt
<1> DEFINE st == Source(doc, i)
           col == ColumnsAt(doc, cls, i)[j]
           own == ColumnsAt(doc, other, i)[j]
           kind == doc.statements[i].kind
           d == CandidateAt(doc, other, i, j, r, v)
<1>2. /\ i \in DOMAIN doc.statements /\ j \in DOMAIN st.columns /\ st.kind = kind
      /\ Grouped(st)[j].column_kind = "period" /\ Grouped(st)[j].end # None
  BY <1>1, DatedAt
<1>3. /\ bare.statements = doc.statements /\ bare.text # "none"
      /\ cls = Classified(doc, hints, cols, period, type)
      /\ other = Classified(bare, hints, cols, period, UnderlyingType(bare, period))
  BY CoverKeeps
<1> HIDE DEF cls, other, bare, hints, cols, period, type, roled, bared
<1>4. /\ cls.statement_periods = StatementRows(roled)
      /\ other.statement_periods = StatementRows(bared)
      /\ cls.cover_labels = CoverLabels(roled)
      /\ Trusted(cls) <=> Trusted(other)
      /\ cls.period_end = other.period_end /\ cls.period_start = other.period_start
  BY <1>3, ClassifiedIs DEF Trusted, roled, bared
<1>5. \A k, x : match_f3_role(cls, k, x).role = match_f3_role(other, k, x).role
  BY <1>4, RolesKept DEF roled, bared
<1>6. col.role = own.role /\ col.role_basis = own.role_basis
  BY <1>2, <1>4, <1>5, RolesRead DEF ColumnsAt
<1>7. d \in Result(bare, other)
  <2>1. Place(doc, other, i, j, r, v)
    BY <1>1, PlaceKeeps
  <2>2. Place(bare, other, i, j, r, v) /\ CandidateAt(bare, other, i, j, r, v) = d
    BY <1>3, <2>1, SameStatements
  <2> HIDE DEF d
  <2> QED BY <1>3, <2>2, ResultAt
<1> DEFINE f3 == match_f3_role(cls, kind, col)
<1>8. /\ col.audit_status = IF f3.role # None /\ f3.audit # None /\ col.audit = "unknown"
                            THEN f3.audit ELSE col.audit
      /\ col.audit # "unknown" => own.audit_status = own.audit
  BY <1>2, LabelRead, ColumnsAgree DEF ColumnsAt, SameColumn
<1>9. /\ c.statement_kind = kind /\ c.end_date = col.end /\ c.duration_months = col.months
      /\ c.audit_label = col.audit_status /\ c.audit_source = audit_source(cls, kind, col)
  BY <1>1, <1>2, LabelFieldsAt
<1>10. /\ col.audit_status # "unknown"
       /\ ~ (/\ col.audit_status \in cls.cover_labels /\ f3.role = "current"
             /\ f3.audit = col.audit_status)
  <2> HIDE DEF col
  <2> QED BY <1>9 DEF audit_source
<1>11. col.audit # "unknown"
  <2> SUFFICES ASSUME col.audit = "unknown" PROVE FALSE
    OBVIOUS
  <2> HIDE DEF col
  <2>1. f3.role # None /\ f3.audit \notin {None, "unknown"} /\ col.audit_status = f3.audit
    BY <1>8, <1>10
  <2>2. ~ (f3.audit \in cls.cover_labels /\ f3.role = "current")
    BY <1>10, <2>1
  <2>3. \E k \in DOMAIN cols : /\ cols[k].statement = kind
                               /\ PeriodOf(cols[k]) = PeriodOf(col)
                               /\ cols[k].audit = f3.audit
    BY <1>4, <2>1, <2>2, LabelPrinted DEF cols, roled
  <2>4. PICK k \in DOMAIN cols : /\ cols[k].statement = kind
                                 /\ PeriodOf(cols[k]) = PeriodOf(col)
                                 /\ cols[k].audit = f3.audit
    BY <2>3
  <2>5. cols[k].end = col.end /\ cols[k].months = col.months
    BY <2>4 DEF PeriodOf
  <2>6. cols[k] \in Range(cols)
    BY DEF Range
  <2>7. Printed(doc, c)
    BY <1>9, <2>1, <2>4, <2>5, <2>6 DEF Printed, cols
  <2> QED BY <2>7
<1>12. own.audit_status = col.audit_status
  <2>1. own.audit = col.audit
    BY <1>2, ColumnsAgree DEF SameColumn
  <2> HIDE DEF own, col
  <2> QED BY <1>8, <1>11, <2>1
<1>13. SameFigures(c, d)
  BY <1>1, FiguresKeep
<1>14. /\ c.role = d.role /\ c.role_trust = d.role_trust /\ c.audit_label = d.audit_label
       /\ c.audit_trust = d.audit_trust
       /\ DOMAIN c = CandidateFields /\ DOMAIN d = CandidateFields
  <2> HIDE DEF col, own
  <2>1. \A x, y : role_trust(cls, x, y) = role_trust(other, x, y)
    BY <1>4 DEF role_trust
  <2> QED BY <1>1, <1>2, <1>4, <1>6, <1>12, <2>1, LabelFieldsAt DEF col, own
<1> HIDE DEF d
<1>15. \A k \in DOMAIN c \ {"fiscal_label", "audit_source"} : c[k] = d[k]
  BY <1>13, <1>14 DEF SameFigures, CandidateFields, TrustFields
<1> QED BY <1>7, <1>15 DEF StillLabelled, bare, other

(* I-5: an audit label recorded as column or statement evidence does not   *)
(* come from the cover of the document, unless another column of the same  *)
(* statement and period prints it.                                         *)
THEOREM CoverNeverUpgrades == ChainSpec => []AuditNeverUpgraded
<1>1. ChainInv => AuditNeverUpgraded
  <2> SUFFICES ASSUME ChainInv, stage = "built"
               PROVE  LET doc == WithoutCover(document)
                      IN  UpgradedBeyond(Result(doc, classify(doc, metadata))) = {}
    BY DEF AuditNeverUpgraded
  <2>1. /\ document \in Documents
        /\ candidates = Result(document, classify(document, metadata))
    BY DEF ChainInv
  <2>2. CASE document.text = "none"
    BY <2>1, <2>2, NothingRead DEF UpgradedBeyond
  <2>3. CASE document.text # "none"
    BY <2>1, <2>3, LabelKept DEF UpgradedBeyond
  <2> QED BY <2>2, <2>3
<1> QED BY <1>1, ChainHolds, PTL
=============================================================================

--------------------------- MODULE IssuerIdentity ---------------------------
(***************************************************************************)
(* F5's issuer rules (worker/issuer_identity.py), without state: what the  *)
(* CSE bodies say of a security, the secId reuse guard, and the decisions  *)
(* made of a security and of a filing.                                     *)
(*                                                                         *)
(* An observation is [query, symbol, field, sec, isin, name]; a set of     *)
(* them holds each once, as F5's unique key does.  An ISIN is [cse, code]  *)
(* and a name [words, style]: the shape and the spelling that the rules    *)
(* look through.  A reason is a tuple of its parts.                        *)
(***************************************************************************)
EXTENDS Naturals, FiniteSets

CONSTANT None

(***************************************************************************)
(* Observations.                                                           *)
(***************************************************************************)
Observed(query, symbol, field, sec, isin, name) ==
    [query |-> query, symbol |-> symbol, field |-> field, sec |-> sec,
     isin |-> isin, name |-> name]

(* One per field of the body that carries an issuer secId; one without a   *)
(* secId when neither field does and the body names the security.          *)
observations_from_company_info(body, query) ==
    LET with(field, sec) ==
            Observed(query, body.symbol, field, sec, body.isin, body.name)
        found == {with("securityId", body.beta), with("logo", body.logo)}
        carrying == {o \in found : o.sec # None}
    IN  CASE carrying # {} -> carrying
          [] body.symbol # None \/ body.id # None -> {with("info", None)}
          [] OTHER -> {}

(* A listing answer names secIds and nothing comparable.                   *)
observations_from_financials(secs, query) ==
    {Observed(query, query, "reqFinancial", s, None, None) : s \in secs \ {None}}

(***************************************************************************)
(* The secId reuse guard.                                                  *)
(***************************************************************************)
isin_issuer_code(isin) ==
    IF isin # None /\ isin.cse THEN isin.code ELSE None

normalise_name(name) ==
    IF name # None /\ name.words # <<>> THEN name.words ELSE None

Identity(obs) ==
    [codes |-> {isin_issuer_code(o.isin) : o \in obs} \ {None},
     names |-> {normalise_name(o.name) : o \in obs} \ {None}]

Insufficient == "identity_evidence_insufficient"

same_issuer(a, b, same) ==
    CASE a.codes # {} /\ b.codes # {} ->
            IF Cardinality(a.codes \cup b.codes) = 1 THEN None
            ELSE "isin_issuer_code_differs"
      [] a.names # {} /\ b.names # {} ->
            IF Cardinality(a.names \cup b.names) = 1 THEN None ELSE "name_differs"
      [] OTHER -> IF same THEN None ELSE Insufficient

Claiming(obs, sec) == {o \in obs : o.symbol # None /\ o.sec = sec}

(* Why security s, which claims sec, is not shown to be of one issuer with *)
(* another claimant, or with itself over time.                             *)
Failures(obs, sec, s) ==
    LET claims == Claiming(obs, sec)
        of(t) == Identity({o \in claims : o.symbol = t})
    IN  {f \in {<<same_issuer(of(s), of(t), s = t), t>> :
                   t \in {o.symbol : o \in claims}} : f[1] # None}

SecIds(obs) == {o.sec : o \in {p \in obs : p.symbol # None}} \ {None}

AllFailures(obs, sec) ==
    UNION {Failures(obs, sec, s) : s \in {o.symbol : o \in Claiming(obs, sec)}}

disputed_sec_ids(obs) == {sec \in SecIds(obs) : AllFailures(obs, sec) # {}}

(***************************************************************************)
(* Decisions.                                                              *)
(***************************************************************************)
(* From the secIds observed for the security alone.                        *)
decide_security(secs) ==
    IF Cardinality(secs) = 1
    THEN [status |-> "evidenced", sec |-> CHOOSE s \in secs : TRUE,
          secs |-> secs, reasons |-> {}]
    ELSE [status |-> "conflict", sec |-> None, secs |-> secs,
          reasons |-> {<<"sec_ids_disagree">>}]

(* With the guard: a claimant of a disputed secId is in conflict.          *)
decide_securities(obs, s) ==
    LET secs == {o.sec : o \in {p \in obs : p.symbol = s}} \ {None}
        alone == decide_security(secs)
        bad == secs \cap disputed_sec_ids(obs)
    IN  CASE secs = {} -> None
          [] bad = {} -> alone
          [] OTHER ->
                [status |-> "conflict", sec |-> None, secs |-> secs,
                 reasons |-> alone.reasons
                             \cup {<<"sec_id_identity_disputed", x>> : x \in bad}
                             \cup UNION {Failures(obs, x, s) : x \in bad}]

path_sec_id(path) == IF path = None THEN None ELSE path.sec

(* linked[s] is the security's current decision, or None.                  *)
decide_filing(path, symbols, linked, issuers, disputed) ==
    LET psec == path_sec_id(path)
        conflicts == {s \in symbols : linked[s] # None /\ linked[s].status = "conflict"}
        listed == {linked[s].sec : s \in {t \in symbols \ conflicts : linked[t] # None}}
        secs == (listed \cup {psec}) \ {None}
        silent == {<<"listing_symbol_without_issuer_evidence", s>> :
                      s \in {t \in symbols : linked[t] = None}}
                  \cup {<<"no_document_path_prefix">> : p \in {psec} \cap {None}}
        sec == IF conflicts = {} /\ Cardinality(secs) = 1
               THEN CHOOSE x \in secs : TRUE ELSE None
        verdict == CASE conflicts # {} -> <<"conflict", "listing_security_in_conflict">>
                     [] Cardinality(secs) > 1 -> <<"conflict", "sec_ids_disagree">>
                     [] sec = None -> <<"unresolved", None>>
                     [] sec \in disputed -> <<"conflict", "sec_id_identity_disputed">>
                     [] sec \in issuers -> <<"evidenced", None>>
                     [] OTHER -> <<"unresolved", "no_issuer_for_sec_id">>
    IN  [status |-> verdict[1],
         basis |-> CASE psec # None /\ listed # {} -> "both"
                     [] psec # None -> "document_path_prefix"
                     [] listed # {} -> "listing_symbol_sec_id"
                     [] OTHER -> "none",
         issuer |-> IF verdict[1] = "evidenced" THEN sec ELSE None,
         path |-> psec, symbols |-> symbols, secs |-> listed,
         conflicts |-> conflicts,
         reasons |-> silent \cup ({<<verdict[2]>>} \ {<<None>>})]
=============================================================================

----------------------------- MODULE MCPipeline -----------------------------
(***************************************************************************)
(* Two filings of two issuers that publish two documents or the same one,  *)
(* a timer and an operator's shell.                                        *)
(***************************************************************************)
EXTENDS BackfillRunner

MCFilings == {1, 2}
MCIssuers == {1, 2}
MCDocuments == [f \in MCFilings |-> 1..f]
MCReports == [f \in MCFilings |-> {"revenue"}]
MCFirstIssuer == [f \in MCFilings |-> f]
=============================================================================

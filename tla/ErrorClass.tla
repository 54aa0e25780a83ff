------------------------------ MODULE ErrorClass ------------------------------
(***************************************************************************)
(* ChainError::is_log_response_too_large: what tells a range that has too  *)
(* many logs, to be bisected, from any other failure, to be retried.       *)
(*                                                                         *)
(* An error of the transport is a record: its kind (an error response of   *)
(* the JSON-RPC server, an HTTP error with its status, or "gone" for the   *)
(* kinds without a text) and the phrases the classifier looks for that its *)
(* message or body contains, in whatever case.                             *)
(***************************************************************************)
EXTENDS Naturals

LOG_RANGE_TOO_LARGE_MARKERS ==
  {"try with this block range", "block range is too wide",
   "this block range should work", "range too large", "exceeds the range",
   "max block range", "max range", "logs over more",
   "response size should not", "returned more than", "exceeds max results",
   "range is too large", "too large, max is", "response too large",
   "query exceeds limit", "limit the query to", "maximum block range",
   "range limit exceeded", "too many results", "try paginating",
   "eth_getlogs is limited"}

\* Two phrases that count only together.
Compound == {"maximum", "blocks distance"}

Phrases == LOG_RANGE_TOO_LARGE_MARKERS \union Compound

Errors == [kind : {"resp", "http", "gone"}, status : Nat, phrases : SUBSET Phrases]

ErrorResp(phrases) == [kind |-> "resp", status |-> 0, phrases |-> phrases]

HttpError(status, phrases) ==
  [kind |-> "http", status |-> status, phrases |-> phrases]

BackendGone == [kind |-> "gone", status |-> 0, phrases |-> {}]

-----------------------------------------------------------------------------
(* Faulty variants: the bugs the checked properties are meant to catch.    *)

MarkerWithoutCompound(phrases) ==
  phrases \intersect LOG_RANGE_TOO_LARGE_MARKERS # {}

-----------------------------------------------------------------------------
contains_log_range_marker(phrases) ==
  \/ phrases \intersect LOG_RANGE_TOO_LARGE_MARKERS # {}
  \/ Compound \subseteq phrases

\* Faulty variant: the text of a rate limit is looked at like any other.
AnyStatusTooLarge(e) ==
  \/ e.kind = "resp" /\ contains_log_range_marker(e.phrases)
  \/ e.kind = "http" /\ (e.status = 413 \/ contains_log_range_marker(e.phrases))

is_log_response_too_large(e) ==
  \/ e.kind = "resp" /\ contains_log_range_marker(e.phrases)
  \/ /\ e.kind = "http" /\ e.status # 429
     /\ e.status = 413 \/ contains_log_range_marker(e.phrases)
=============================================================================

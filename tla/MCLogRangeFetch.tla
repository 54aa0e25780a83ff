--------------------------- MODULE MCLogRangeFetch ---------------------------
(***************************************************************************)
(* Instances of LogRangeFetch for TLC: the providers are those that answer *)
(* a range of at most Cap logs, for each way to put logs into the blocks;  *)
(* the errors are those of the tests of error.rs.                          *)
(***************************************************************************)
EXTENDS LogRangeFetch, FiniteSetsExt

CONSTANTS Cap,      \* log-count limit of the provider
          Weights   \* how many logs a block can have

CappedProviders ==
  {{r \in Ranges : MapThenSumSet(LAMBDA b : logsIn[b], r[1] .. r[2]) <= Cap} :
     logsIn \in [1 .. LastBlock -> Weights]}

\* Infura, Alchemy, an HTTP 413, a marker in a body, a distance of blocks.
TooLarge ==
  {ErrorResp({"returned more than", "try with this block range"}),
   ErrorResp({"this block range should work"}),
   HttpError(413, {}),
   HttpError(400, {"range is too large"}),
   ErrorResp({"maximum", "blocks distance"})}

\* A rate limit, an HTTP 429 with a marker in its body, no answer, an error
\* about a maximum fee.
Others ==
  {ErrorResp({}), HttpError(429, {"too many results"}), BackendGone,
   ErrorResp({"maximum"})}
=============================================================================

---------------------------- MODULE HttpExchange ----------------------------
(***************************************************************************)
(* What may become of one HTTP request, and what http.py makes of it.      *)
(* Jira and DingTalk are reached through these operators.                  *)
(***************************************************************************)

(* The fate of a request, as the network and the service decide it.        *)
Outcomes == {
  "json",         \* 2xx, a JSON body of the shape the caller expects
  "odd",          \* 2xx, JSON of another shape
  "empty",        \* 2xx, no body (204)
  "garbled",      \* 2xx, a body that is not JSON
  "undecodable",  \* 2xx, a body that is not UTF-8
  "not_found",    \* 404
  "refused",      \* another 4xx
  "failed",       \* 5xx, from the service or from a gateway before it
  "unreachable",  \* no connection: the service never saw the request
  "silent"        \* the connection timed out or was reset after the request
                  \* was written, before the answer was read
}

(* Whether the service carried the request out: for some outcomes the      *)
(* caller cannot know.                                                     *)
CarriedOut(o) ==
  IF o \in {"json", "odd", "empty", "garbled", "undecodable"} THEN {TRUE}
  ELSE IF o \in {"failed", "silent"} THEN {TRUE, FALSE}
  ELSE {FALSE}

(* What may be raised beside HttpRequestError, the one the tools catch.    *)
Uncaught == {"OSError", "UnicodeDecodeError"}

(* urlopen wraps an OSError in URLError only while it connects and writes; *)
(* waiting for the answer and reading it raise the OSError itself, which   *)
(* request_bytes does not catch.                                           *)
RequestBytes(o) ==
  IF o \in {"not_found", "refused", "failed", "unreachable"} THEN "HttpRequestError"
  ELSE IF o = "silent" THEN "OSError"
  ELSE "body"

(* An empty body is None; a body that is not JSON is an HttpRequestError;  *)
(* one that is not UTF-8 raises UnicodeDecodeError, which is not caught.   *)
RequestJson(o) ==
  IF RequestBytes(o) # "body" THEN RequestBytes(o)
  ELSE IF o = "empty" THEN "None"
  ELSE IF o = "garbled" THEN "HttpRequestError"
  ELSE IF o = "undecodable" THEN "UnicodeDecodeError"
  ELSE "payload"

=============================================================================

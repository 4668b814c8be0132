------------------------------- MODULE Client -------------------------------
(***************************************************************************)
(* One query of the service (client.py): the pages it asks for and what    *)
(* comes of them, and the class an error of it has (errors.py), which      *)
(* decides whether the query is made again.                                *)
(*                                                                         *)
(* A service answers request n, counted from 0, with service[n]: whether   *)
(* the code is 0, whether has_more is set, and the items, a set.           *)
(***************************************************************************)
EXTENDS Naturals

(* The loop of query_paginated ends with request n: the page is an error,  *)
(* the query is not paged, nothing more is to come or nothing came, or     *)
(* this was the last page it may ask for.                                  *)
Ends(service, paged, maxPages, n) ==
    \/ ~service[n].ok
    \/ ~paged \/ ~service[n].more \/ service[n].items = {}
    \/ n + 1 >= maxPages

LastRequest(service, paged, maxPages) ==
    CHOOSE n \in 0..maxPages :
        /\ Ends(service, paged, maxPages, n)
        /\ \A k \in 0..maxPages : k < n => ~Ends(service, paged, maxPages, k)

(* What the query gives: its items, or an error of the service or of the   *)
(* limit on pages.  That error carries the last response, whose code is 0. *)
Query(service, paged, maxPages) ==
    LET n == LastRequest(service, paged, maxPages)
        page == service[n]
    IN  [result |-> IF ~page.ok THEN "refused"
                    ELSE IF paged /\ page.more /\ page.items # {} THEN "too_many_pages"
                    ELSE "items",
         requests |-> n + 1,
         items |-> UNION {service[k].items : k \in 0..n}]

-----------------------------------------------------------------------------
(* Classes of errors *)

Retryable == {"rate_limited", "network_error", "server_error", "unknown_error"}

(* What classify_tushare_response looks for in a message.                  *)
Topics == {"token", "permission", "rate", "endpoint", "param"}

(* Codes: 0, that of a bad token, those of a server that fails, any other. *)
Codes == {"ok", "bad_token", "server", "other"}

(* classify_tushare_response: a message may be about several topics, and   *)
(* the first one counts.                                                   *)
Classify(code, topics) ==
    CASE code = "ok" -> "accessible"
      [] code # "ok" /\ (code = "bad_token" \/ topics \intersect {"token", "permission"} # {}) ->
            "permission_denied"
      [] OTHER ->
            IF "rate" \in topics THEN "rate_limited"
            ELSE IF "endpoint" \in topics THEN "invalid_endpoint"
            ELSE IF "param" \in topics THEN "invalid_params"
            ELSE IF code = "server" THEN "server_error"
            ELSE "unknown_error"

(* classify_exception, for an error of the client: a class that is no      *)
(* error type is unknown.                                                  *)
ErrorType(code, topics) ==
    IF code = "ok" THEN "unknown_error" ELSE Classify(code, topics)

(* should_retry *)
ShouldRetry(type, attempt, maxAttempts) == type \in Retryable /\ attempt < maxAttempts

Capped(n, limit) == IF n < limit THEN n ELSE limit

(* retry_delay_seconds, for attempts from 1 on *)
RetryDelay(type, attempt) ==
    CASE type = "rate_limited" -> Capped(2 ^ (attempt - 1), 30)
      [] type \in Retryable \ {"rate_limited"} -> Capped(attempt, 10)
      [] OTHER -> 0

(* _query_with_retry, of a query that fails in one way each time: how many *)
(* attempts it makes.                                                      *)
Attempts(type, maxAttempts) ==
    CHOOSE n \in 1..maxAttempts :
        /\ ~ShouldRetry(type, n, maxAttempts)
        /\ \A k \in 1..n : ShouldRetry(type, k, maxAttempts) \/ k = n
=============================================================================

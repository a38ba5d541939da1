------------------------------ MODULE Answers ------------------------------
(***************************************************************************)
(* What the clients make of an answer: the error taxonomy of resttrade and *)
(* restinfo, the status endpoints' own reading, and the WebSocket's.       *)
(*                                                                         *)
(* An answer is an HTTP status with the kind of its body; over the         *)
(* WebSocket the status means nothing.  A body is                          *)
(*   html      anything that is not JSON                                   *)
(*   plain     JSON with neither a response nor an error                   *)
(*   error     an envelope with an error                                   *)
(*   null      an envelope whose response is null                          *)
(*   garbled   one whose response does not fit the result type             *)
(*   response  one with the result                                         *)
(***************************************************************************)
EXTENDS Naturals

Body == {"html", "plain", "error", "null", "garbled", "response"}
Answer == [status : {200, 400, 500}, body : Body]
NoAnswer == [status |-> 0, body |-> "none"]

\* What the caller gets: no error, a RESTError or WSError, a TransportError, or
\* the error of the JSON decoder.
Verdict == {"ok", "refused", "transport", "undecodable"}

\* Faulty variant: an answer without an error is a success.
ClassifyNoStatus(a) ==
  CASE a.body = "html"    -> "transport"
    [] a.body = "error"   -> "refused"
    [] a.body = "garbled" -> "undecodable"
    [] OTHER              -> "ok"

\* postTradeRaw, and postInfo, which is the same: an error wins over the status.
Classify(a) ==
  CASE a.body = "html"    -> "transport"
    [] a.body = "error"   -> "refused"
    [] a.status >= 400    -> "transport"
    [] a.body = "garbled" -> "undecodable"
    [] OTHER              -> "ok"

\* getStatus: an envelope without a response is decoded as the result itself,
\* so an error is not noticed.
ClassifyStatus(a) ==
  IF a.body \in {"html", "garbled"} \/ a.status >= 400 THEN "transport" ELSE "ok"

\* wstrade's Post; a result may be wrapped in a response or not.
ClassifyFrame(a) ==
  CASE a.body = "error"   -> "refused"
    [] a.body = "garbled" -> "undecodable"
    [] OTHER              -> "ok"
=============================================================================

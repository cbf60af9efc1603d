---------------------------- MODULE GraphClient ----------------------------
(***************************************************************************)
(* What Connector.query (src/pkg/connector/client_graph.go) makes of the   *)
(* answer of Microsoft Graph, through the SDK's uhttp.BaseHttpClient.Do.   *)
(*                                                                         *)
(* An error is the set of facts a caller can observe about it: the gRPC    *)
(* code it carries, the sentinel errors it wraps (ErrNotFound, ...) and    *)
(* the phrases of Graph's answer that its text quotes.  No error is {}.    *)
(***************************************************************************)
EXTENDS Naturals

NoError == {}

(* The bodies that Graph's answers differ in.  "exists" is the error       *)
(* object whose message says that an added object reference already exists.*)
Bodies == {"none", "object", "error", "exists"}

\* The parts of Graph's answer that decide the outcome.
Response(status, json, body) == [status |-> status, json |-> json, body |-> body]

(* uhttp.WithResponse(res).  wanted: the caller passed a res to decode     *)
(* into.  Decoding into nil fails and quotes the body.                     *)
DecodeError(resp, wanted) ==
  CASE ~resp.json -> {"unsupported content type"}
    [] resp.json /\ ~wanted /\ resp.body = "none" -> NoError
    [] resp.json /\ ~wanted /\ resp.body # "none" -> {"unmarshal", resp.body}
    [] resp.json /\ wanted -> IF resp.body = "none" THEN {"unmarshal"} ELSE NoError

\* The gRPC code that Do gives a status, whatever the options said.
StatusCode(status) ==
  CASE status = 401 -> "Unauthenticated"
    [] status = 403 -> "PermissionDenied"
    [] status = 404 -> "NotFound"
    [] status = 408 -> "DeadlineExceeded"
    [] status = 409 -> "AlreadyExists"
    [] status = 429 -> "Unavailable"
    [] status = 501 -> "Unimplemented"
    [] status \in 500 .. 599 \ {501} -> "Unavailable"
    [] OTHER -> "Unknown"

Do(resp, wanted) ==
  IF resp.status \in 200 .. 299
    THEN DecodeError(resp, wanted)
    ELSE {StatusCode(resp.status)} \union DecodeError(resp, wanted)

(* doRequest looks at the status only when Do returned no error.           *)
Query(resp, wanted) ==
  LET err == Do(resp, wanted) IN
  IF err # NoError THEN err
  ELSE IF resp.status \notin 200 .. 299 THEN {"ErrRequestFailed"}
  ELSE IF resp.status = 404 THEN {"ErrNotFound"}
  ELSE IF wanted /\ resp.status \notin {200, 201, 204} THEN {"ErrNoResponse"}
  ELSE IF resp.status \notin {200, 201, 204} THEN {"ErrRequestFailed"}
  ELSE NoError

(* The bodies doRequest is given, and what uhttp.WithJSONBody sends: it    *)
(* encodes the value it gets, and a *bytes.Reader has no exported field.   *)
(* What Graph finds in the result is a reference to the principal or not.  *)
NamesPrincipal(body) ==
  CASE body = "map" -> TRUE          \* map[string]any of the app role assignment
    [] body = "reader" -> FALSE      \* MarshalToReader: sent as {}
    [] body = "nil" -> FALSE         \* sent as null
=============================================================================

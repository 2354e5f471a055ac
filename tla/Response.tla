------------------------------ MODULE Response ------------------------------
(***************************************************************************)
(* hbf_response_t, the answer a script accumulates, and what each method   *)
(* of the response object does to it (src/hbf/qjs/bindings/response.c).    *)
(* A method first tests, then converts its arguments, then acts: Open is   *)
(* the test, the other operators are the act.                              *)
(***************************************************************************)
EXTENDS Integers, Sequences

CONSTANTS
  HeaderSlots,   \* entries of the header table
  Codes          \* status codes the script asks for

ASSUME HeaderSlotsAssumption == HeaderSlots \in Nat

NoBody == "nothing"
Calls == {"status", "send", "json", "set"}

Fresh == [status |-> 200, headers |-> <<>>, body |-> NoBody, sent |-> FALSE]

\* Mutants: one entry too many, or a second send is let through.
OpenOneMore(res, call) ==
  CASE call \in {"send", "json"} -> ~res.sent
    [] call = "set"              -> Len(res.headers) <= HeaderSlots
    [] OTHER                     -> TRUE
OpenTwice(res, call) == call = "set" => Len(res.headers) < HeaderSlots

Open(res, call) ==
  CASE call \in {"send", "json"} -> ~res.sent
    [] call = "set"              -> Len(res.headers) < HeaderSlots
    [] OTHER                     -> TRUE

WithStatus(res, code) == [res EXCEPT !.status = code]
WithHeader(res, header) == [res EXCEPT !.headers = Append(@, header)]
WithBody(res, body) == [res EXCEPT !.body = body, !.sent = TRUE]

\* Mutant: the type is left out once a header was set.
TypedIfFirst(res) == IF res.headers = <<>> THEN WithHeader(res, "json") ELSE res
\* json() adds its Content-Type if there is room left.
Typed(res) ==
  IF Len(res.headers) < HeaderSlots THEN WithHeader(res, "json") ELSE res

\* The strdup of the Content-Type is not tested: if it fails the entry is counted
\* and NULL.
Untyped(res) ==
  IF Len(res.headers) < HeaderSlots THEN WithHeader(res, "null") ELSE res

\* The results a call can have once its arguments are converted: malloc may
\* fail, which leaves send and json without body, json without its type, and
\* set without header.
Results(res, call) ==
  CASE call = "status" -> {WithStatus(res, code) : code \in Codes}
    [] call = "send"   -> {WithBody(res, "text"), [res EXCEPT !.body = NoBody]}
    [] call = "json"   -> {Typed(WithBody(res, "json")), Untyped(WithBody(res, "json")),
                           [res EXCEPT !.body = NoBody]}
    [] call = "set"    -> {WithHeader(res, "set"), res}

ResponseType ==
  [status : Codes \cup {200}, headers : Seq({"set", "json", "null"}),
   body : {NoBody, "text", "json"}, sent : BOOLEAN]
=============================================================================

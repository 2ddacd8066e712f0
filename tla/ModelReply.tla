----------------------------- MODULE ModelReply -----------------------------
(***************************************************************************)
(* The claude -p provider as the pipeline sees it: every way one call can  *)
(* end (Replies) and what run and parse_envelope make of it (Outcome).     *)
(*                                                                         *)
(* A result text is a sequence of pieces: prose, a notice that a safety    *)
(* classifier stopped the model, a scalar (a number, a quoted string), an  *)
(* object, an array (a bracketed number in prose is one), a fenced object, *)
(* or braces that do not parse even when repaired.  Only an object can be  *)
(* the answer; whether its fields are good is for the validators.          *)
(***************************************************************************)
EXTENDS Naturals, Sequences, FiniteSets, FiniteSetsExt

CONSTANT MaxPieces       (* pieces of a result text                          *)

ASSUME ModelReplyAssumption == MaxPieces \in Nat

Pieces == {"prose", "notice", "scalar", "object", "array", "fenced", "broken"}
Texts == UNION {[1..n -> Pieces] : n \in 0..MaxPieces}
Missing == <<"missing">>
Models == {"requested", "fallback"}

Replies ==
  [run : {"no workdir", "timeout", "no spawn", "exit rate limit", "exit", "no envelope",
          "error", "error rate limit"}]
  \cup [run : {"success"}, models : SUBSET Models,
        structured : {"none", "answer", "leaked"}, text : Texts \cup {Missing}]

HasNotice(text) == \E i \in DOMAIN text : text[i] = "notice"
IsWhole(text) == Len(text) = 1 /\ text[1] \in {"scalar", "object", "array"}

\* The pieces a span from the first opener to the last closer covers.
Bracketed(text, kinds) == {i \in DOMAIN text : text[i] \in kinds}
Span(text, kinds) == LET on == Bracketed(text, kinds) IN Min(on)..Max(on)

\* The candidates cut from around prose, in the order they are tried: the
\* first fence, then the two spans, the earlier opener first.  A span parses
\* when it is one piece that does.
Fence(text) == LET on == Bracketed(text, {"fenced"}) IN IF on = {} THEN {} ELSE {Min(on)}
BraceKinds == {"object", "fenced", "broken"}
Spans(text) ==
  {Min(Span(text, kinds)) : kinds \in
     {k \in {BraceKinds, {"array"}} :
        /\ Bracketed(text, k) # {}
        /\ Cardinality(Span(text, k)) = 1
        /\ text[Min(Bracketed(text, k))] # "broken"}}
Extracted(text) ==
  IF Fence(text) # {} THEN Fence(text)
  ELSE IF Spans(text) = {} THEN {} ELSE {Min(Spans(text))}

Ok(value) == [kind |-> "ok", value |-> value]
Failure(kind) == [kind |-> kind, value |-> "none"]
Value(piece) == IF piece \in {"scalar", "array"} THEN "other" ELSE "answer"

\* The answer of a result text that is not blank.  A notice counts around what
\* was extracted, or anywhere when nothing was.
FromText(text) ==
  IF IsWhole(text) THEN Ok(Value(text[1]))
  ELSE IF Extracted(text) = {} THEN Failure(IF HasNotice(text) THEN "stopped" ELSE "malformed")
  ELSE LET at == Min(Extracted(text))
       IN IF \E i \in (DOMAIN text) \ {at} : text[i] = "notice"
          THEN Failure("stopped") ELSE Ok(Value(text[at]))

\* Mutant: the structured answer is taken before the models are counted.
StructuredFirst(r) ==
  IF r.structured = "answer" THEN Ok("answer")
  ELSE IF Cardinality(r.models) > 1 THEN Failure("stopped")
  ELSE IF r.structured = "leaked" \/ r.text = Missing THEN Failure("malformed")
  ELSE IF r.text = <<>> THEN Failure("failed") ELSE FromText(r.text)

\* parse_envelope of a success envelope: a second model is looked for before
\* anything is parsed, and the structured answer comes before the text.
FromEnvelope(r) ==
  IF Cardinality(r.models) > 1 THEN Failure("stopped")
  ELSE CASE r.structured = "leaked" -> Failure("malformed")
         [] r.structured = "answer" -> Ok("answer")
         [] r.structured = "none" ->
              IF r.text = Missing THEN Failure("malformed")
              ELSE IF r.text = <<>> THEN Failure("failed")
              ELSE FromText(r.text)

Parse(r) ==
  CASE r.run = "success" -> FromEnvelope(r)
    [] r.run \in {"exit rate limit", "error rate limit"} -> Failure("limited")
    [] r.run = "no envelope" -> Failure("malformed")
    [] OTHER -> Failure("failed")

\* The reply shows that the model was stopped: another model answered, or the
\* text says so outside the JSON.
ShowsStop(r) ==
  /\ r.run = "success"
  /\ \/ Cardinality(r.models) > 1
     \/ /\ r.structured = "none" /\ r.text # Missing /\ ~IsWhole(r.text)
        /\ HasNotice(r.text)

\* What the pipeline gets from a reply, the one model run records for it, and
\* whether the reply showed a stop.
Outcome(r) ==
  LET parsed == Parse(r)
  IN [kind  |-> parsed.kind, value |-> parsed.value, stop |-> ShowsStop(r),
      model |-> IF parsed.kind = "ok" /\ Cardinality(r.models) = 1 THEN r.models ELSE {}]
Outcomes == {Outcome(r) : r \in Replies}
=============================================================================

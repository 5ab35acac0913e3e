------------------------------- MODULE Decode -------------------------------
(***************************************************************************)
(* The transformation tier (decode.py).  A text is the encodings around a  *)
(* part of some content, outermost first, and its length in characters:    *)
(* the first len characters of what the encoding gives.  It may have other *)
(* characters attached (more), which are not counted.  What a decoder      *)
(* makes of a text that was not encoded for it is no part of any content   *)
(* and is left out, and so is what follows a torn percent escape.          *)
(***************************************************************************)
EXTENDS Integers, FiniteSets, SequencesExt

CONSTANT Width   \* the bytes of each character of a content in UTF-8

Encodings == {"base64", "hex", "url", "json"}
MinToken == 8

\* The characters that n bytes (json: n characters) take when all of them are
\* encoded; base64 without its padding, which the decoder restores.
Encoded(enc, n) ==
  CASE enc = "base64" -> (4 * n + 2) \div 3
    [] enc = "hex" -> 2 * n
    [] enc = "url" -> 3 * n
    [] enc = "json" -> 6 * n

\* The length of part characters of a content, encoded by all of layers: by the
\* last k of them, where only the last meets wide characters.
EncodedLen(layers, part, of) ==
  LET n == Len(layers)
      len[k \in 0..n] ==
        IF k = 0 THEN part
        ELSE Encoded(layers[n - k + 1],
                     IF k = 1 /\ layers[n] # "json" THEN part * Width[of] ELSE len[k - 1])
  IN len[n]

Text(layers, part, of) ==
  [layers |-> layers, len |-> EncodedLen(layers, part, of), of |-> of, more |-> FALSE]
Attached(t) == [t EXCEPT !.more = TRUE]

CharBytes(t) == IF t.layers = <<>> THEN Width[t.of] ELSE 1

Least(a, b) == IF a <= b THEN a ELSE b

\* _truncate: the bytes are counted, the characters are cut.
Truncate(t, max) ==
  IF t.len * CharBytes(t) <= max THEN t ELSE [t EXCEPT !.len = Least(t.len, max)]

\* A length that the encoding may have, and the bytes inside of so many characters,
\* w of which make one character.
Whole(enc, len) ==
  CASE enc = "base64" -> len % 4 # 1
    [] enc = "hex" -> len % 2 = 0
    [] enc = "url" -> len % 3 = 0
    [] enc = "json" -> len % 6 = 0
BytesIn(enc, len, w) ==
  CASE enc = "base64" -> (3 * len) \div 4
    [] enc = "hex" -> len \div 2
    [] enc = "url" -> len \div 3
    [] enc = "json" -> (len \div 6) * w

\* _try_base64, _try_hex, _try_url, _try_json_escape: the text inside, unless
\* the length is none of the encoding's or a UTF-8 character is cut in two.
Decoded(t) ==
  IF t.layers = <<>> THEN {}
  ELSE LET enc == Head(t.layers)
           inside == [t EXCEPT !.layers = Tail(t.layers)]
           bytes == BytesIn(enc, t.len, CharBytes(inside))
           chars == bytes \div CharBytes(inside)
       IN IF Whole(enc, t.len) /\ bytes % CharBytes(inside) = 0 /\ chars > 0
          THEN {[inside EXCEPT !.len = chars]} ELSE {}

\* Wrong variant of Candidates: the short ones count as well.
CandidatesOfAll(limits, payload) ==
  {i \in DOMAIN payload : payload[i].len >= MinToken /\ i <= limits.max_candidates_per_payload}

\* The first of the tokens that are long enough.
Candidates(limits, payload) ==
  LET long == {i \in DOMAIN payload : payload[i].len >= MinToken}
  IN {i \in long : Cardinality({j \in long : j < i}) < limits.max_candidates_per_payload}

\* _extract_candidates
Tokens(limits, payload) ==
  {Truncate(payload[i], limits.max_candidate_len_bytes) : i \in Candidates(limits, payload)}

\* A decoded text d of t: cut when it has grown too much, and to the length.
Bounded(limits, t, d) ==
  LET ratio == limits.max_expansion_ratio
      cap == (t.len * ratio.num) \div ratio.den
  IN IF d.len * ratio.den > t.len * ratio.num
     THEN Truncate(d, Least(cap, limits.max_candidate_len_bytes))
     ELSE Truncate(d, limits.max_candidate_len_bytes)

\* expand, without the payload itself: what _decode_recursive appends.
Expand(limits, payload) ==
  LET level[depth \in 0..limits.max_nesting_depth] ==
        IF depth = 0 THEN Tokens(limits, payload)
        ELSE UNION {{Bounded(limits, t, d) : d \in Decoded(t)} : t \in level[depth - 1]}
  IN UNION {level[depth] : depth \in 1..limits.max_nesting_depth}
=============================================================================

-------------------------------- MODULE Text --------------------------------
(***************************************************************************)
(* How a text gets from one page to the next: the writers of html.c, the   *)
(* browser that reads an attribute, the server that decodes a path, and    *)
(* the parser of the query string.                                         *)
(*                                                                         *)
(* A text is a sequence of characters.  The two hexadecimal digits of an   *)
(* escape ("26") and the name of an entity ("amp;") are one element each,  *)
(* and a text may hold them as they are; letters stand for those that are  *)
(* no hexadecimal digits.                                                  *)
(***************************************************************************)
EXTENDS Integers, Sequences, SequencesExt

\* What html_attr() writes for a character, and what url_escape_table has for it.
EntityOf ==
  "<" :> "lt;" @@ ">" :> "gt;" @@ "&" :> "amp;" @@ "'" :> "#x27;" @@ "\"" :> "quot;"
DigitsOf ==
  " " :> "20" @@ "\"" :> "22" @@ "#" :> "23" @@ "%" :> "25" @@ "&" :> "26" @@ "'" :> "27" @@
  "+" :> "2b" @@ "<" :> "3c" @@ "=" :> "3d" @@ ">" :> "3e" @@ "?" :> "3f"

\* Each character of a text is written as something.
Escaped(text, written) == FlattenSeq([n \in DOMAIN text |-> written[text[n]]])
Escape(c) == <<"%", DigitsOf[c]>>

HtmlAttr(text) == Escaped(text, [c \in ToSet(text) |-> IF c \in DOMAIN EntityOf THEN <<"&", EntityOf[c]>> ELSE <<c>>])
HtmlUrlPath(text) == Escaped(text, [c \in ToSet(text) |-> IF c \in DOMAIN DigitsOf \ {"+", "&"} THEN Escape(c) ELSE <<c>>])
ArgAsPath(text) == HtmlUrlPath(text)   \* mutant: an argument is escaped like a path
HtmlUrlArg(text) == Escaped(text, [c \in ToSet(text) |-> IF c = " " THEN <<"+">> ELSE IF c \in DOMAIN DigitsOf THEN Escape(c) ELSE <<c>>])

\* The texts before and after the first of some characters.
At(text, stops)     == SelectInSeq(text, LAMBDA c : c \in stops)
Before(text, stops) == IF At(text, stops) = 0 THEN text ELSE SubSeq(text, 1, At(text, stops) - 1)
After(text, stops)  == IF At(text, stops) = 0 THEN <<>> ELSE SubSeq(text, At(text, stops) + 1, Len(text))

\* mark and a code become what the code is for; anything else stays.
Unescaped(text, mark, codeOf) ==
  LET meaning(code) == CHOOSE c \in DOMAIN codeOf : codeOf[c] = code
      codes == {codeOf[c] : c \in DOMAIN codeOf}
      from[n \in 1..(Len(text) + 1)] ==
        IF n > Len(text) THEN <<>>
        ELSE IF text[n] = mark /\ n < Len(text) /\ text[n + 1] \in codes
          THEN <<meaning(text[n + 1])>> \o from[n + 2]
          ELSE <<text[n]>> \o from[n + 1]
  IN  from[1]

\* url_decode_parameter_value() of git.
Decoded(text) == Unescaped([n \in DOMAIN text |-> IF text[n] = "+" THEN " " ELSE text[n]], "%", DigitsOf)

\* http_parse_querystring(): the arguments, in their order.  The name of one
\* without "=" ends at the "&", and the next argument is taken for its value.
ParseQuerystring(text) ==
  LET from[rest \in {SubSeq(text, n, Len(text)) : n \in 1..(Len(text) + 1)}] ==
        IF rest = <<>> THEN <<>>
        ELSE LET name   == Before(rest, {"&", "="})
                 behind == After(rest, {"&", "="})
             IN  IF name = <<>> THEN from[behind]
                 ELSE <<[name |-> Decoded(name), value |-> Decoded(Before(behind, {"&"}))]>> \o from[After(behind, {"&"})]
  IN  from[text]

\* The browser: an attribute ends at a quote, and a URL at "#".
Attribute(written) == Unescaped(Before(written, {"'"}), "&", EntityOf)
Url(written)       == Before(Attribute(written), {"#"})
\* The server decodes the path, and passes the query on.
PathInfo(written)    == Unescaped(Before(Url(written), {"?"}), "%", DigitsOf)
QueryString(written) == After(Url(written), {"?"})
\* A form sends every character of a value so that it arrives.
Submitted(name, value) == name \o <<"=">> \o Escaped(value, [c \in ToSet(value) |-> IF c \in DOMAIN DigitsOf THEN Escape(c) ELSE <<c>>])
=============================================================================

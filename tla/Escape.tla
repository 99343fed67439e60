-------------------------------- MODULE Escape --------------------------------
(***************************************************************************)
(* How text is made safe for a format: src/format/html/html_escape.c,      *)
(* gemini/gemini_escape.c, latex/latex_escape.c and roff/roff_escape.c.    *)
(* A text is a sequence of symbols, each a character or a run of           *)
(* characters that none of this tells apart.                               *)
(***************************************************************************)
EXTENDS Integers, Sequences

LOCAL INSTANCE Functions
LOCAL INSTANCE SequencesExt
LOCAL INSTANCE TLC

White    == {" ", "\n", "\t"}
Controls == {"\n", "\t"}

\* The text with each symbol in the domain of table replaced.
Replaced(table, text) ==
  [k \in DOMAIN text |-> IF text[k] \in DOMAIN table THEN table[text[k]] ELSE text[k]]

(***************************************************************************)
(* lowdown_html_esc(): "<", ">" and "&" always, the quote and the slash    *)
(* only as OWASP has it, with numeric or with named entities.              *)
(***************************************************************************)
Must(num) == IF num THEN ("<" :> "&#60;") @@ (">" :> "&#62;") @@ ("&" :> "&#38;")
                    ELSE ("<" :> "&lt;") @@ (">" :> "&gt;") @@ ("&" :> "&amp;")
May == ("'" :> "&#39;") @@ ("/" :> "&#47;")

Html_esc(text, secure, num) ==
  Replaced(IF secure THEN Must(num) @@ May ELSE Must(num), text)

Html_esc_attr(text) == Replaced(("\"" :> "&quot;") @@ ("&" :> "&amp;"), text)

Html_esc_href(text) ==
  Replaced(("&" :> "&amp;") @@ ("'" :> "&#x27;") @@ ("<" :> "%3C") @@ (">" :> "%3E")
             @@ ("\"" :> "%22") @@ (" " :> "%20") @@ ("\n" :> "%0A"), text)

Latex_esc(text) ==
  Replaced([c \in {"&", "%", "$", "#", "_", "{", "}"} |-> "\\" \o c]
             @@ ("~" :> "\\textasciitilde{}") @@ ("^" :> "\\textasciicircum{}")
             @@ ("\\" :> "\\textbackslash{}"), text)

(***************************************************************************)
(* Control characters go, a newline with them unless all is to be on one   *)
(* line: then it is a space, or two after a full stop.                     *)
(***************************************************************************)
Gemini_esc(text, oneline) ==
  LET stop(k) == \E j \in 1 .. k - 1 :
                   text[j] = "." /\ \A m \in j + 1 .. k - 1 : text[m] = "\t"
      of(k) == IF text[k] = "\n" /\ oneline
               THEN IF stop(k) THEN <<" ", " ">> ELSE <<" ">>
               ELSE IF text[k] \in Controls THEN <<>> ELSE <<text[k]>>
  IN  FlattenSeq([k \in DOMAIN text |-> of(k)])

RoffTable == ("^" :> "\\(ha") @@ ("~" :> "\\(ti") @@ ("tick" :> "\\(ga")
               @@ ("\"" :> "\\(dq") @@ ("\\" :> "\\e")

(***************************************************************************)
(* lowdown_roff_esc() into an empty buffer: white-space after a newline    *)
(* goes, and a full stop or quote that would begin a request is escaped:   *)
(* after a newline, and at the start if oneline is negative.               *)
(***************************************************************************)
Roff_esc(text, oneline) ==
  LET after(k) == \E j \in 1 .. k - 1 : text[j] = "\n" /\ \A m \in j .. k - 1 : text[m] \in {" ", "\n"}
      of(k) ==
        CASE text[k] \in {" ", "\n"} /\ after(k) -> <<>>
          [] text[k] = "\n" /\ ~after(k) -> <<IF oneline > 0 THEN " " ELSE "\n">>
          [] text[k] \in {".", "'"} ->
               (IF (oneline < 0 /\ k = 1) \/ (oneline <= 0 /\ after(k)) THEN <<"\\&">> ELSE <<>>)
                 \o <<text[k]>>
          [] OTHER -> <<IF text[k] \in DOMAIN RoffTable THEN RoffTable[text[k]] ELSE text[k]>>
  IN  FlattenSeq([k \in DOMAIN text |-> of(k)])
===============================================================================

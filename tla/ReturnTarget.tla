------------------------------ MODULE ReturnTarget ------------------------------
(***************************************************************************)
(* The return-target sanitiser of browser_auth.rs, byte by byte: a target  *)
(* is where the browser goes after a sign-in or a form, and it must not    *)
(* become another origin's, however often it is percent-decoded on the way.*)
(*                                                                         *)
(* A byte is named by its character; "!" is any control character, "x" any *)
(* other text, "u" a byte that makes the text invalid UTF-8.  Escapes are  *)
(* written with the digits 0 2 3 5 c f: no two of the bytes from 0xc0 up   *)
(* that they can spell form a character.                                   *)
(***************************************************************************)
EXTENDS Integers, Sequences

Digits  == {"0", "2", "3", "5", "c", "f"}
Byte    == {"/", "\\", "#", "!", "%", "x", "u"} \cup Digits
HomePage == <<"/">>
Rounds  == 0 .. 8

\* hex_nibble of two bytes, and the byte they spell.
Spelled(high, low) ==
  CASE high \in {"c", "f"} -> "u"
    [] high = "0" -> "!"
    [] high = "3" /\ low \in {"0", "2", "3", "5"} -> low
    [] <<high, low>> = <<"2", "3">> -> "#"
    [] <<high, low>> = <<"2", "5">> -> "%"
    [] <<high, low>> = <<"2", "f">> -> "/"
    [] <<high, low>> = <<"5", "c">> -> "\\"
    [] OTHER -> "x"

Escape(text, i) ==
  /\ text[i] = "%" /\ i + 2 <= Len(text)
  /\ text[i + 1] \in Digits /\ text[i + 2] \in Digits

Changed(text) == \E i \in DOMAIN text : Escape(text, i)

\* percent_decode_once: one pass from the left.
PercentDecodeOnce(text) ==
  LET from[i \in 1 .. Len(text) + 1] ==
        IF i > Len(text) THEN << >>
        ELSE IF Escape(text, i)
             THEN <<Spelled(text[i + 1], text[i + 2])>> \o from[i + 3]
             ELSE <<text[i]>> \o from[i + 1]
  IN  from[1]

\* The text after 0, 1, 2, ... decodings.
Decodings(text, n) ==
  LET after[k \in 0 .. n] ==
        IF k = 0 THEN text ELSE PercentDecodeOnce(after[k - 1])
  IN  after

\* A path of this origin to every reader of it.
Local(text) ==
  /\ text # << >> /\ text[1] = "/"
  /\ Len(text) > 1 => text[2] \notin {"/", "\\"}

Clean(text) ==
  /\ Local(text)
  /\ \A i \in DOMAIN text : text[i] \notin {"u", "\\", "#", "!"}

\* Mutants: what still changes after the last round is accepted; the target is
\* looked at as it came only.
AcceptedAtTheLimit(text) ==
  LET after == Decodings(text, 8)
  IN  \E k \in Rounds : /\ \A i \in 0 .. k : Clean(after[i])
                        /\ k = 8 \/ ~Changed(after[k])
AcceptedUndecoded(text) == Clean(text)

\* return_target_is_local: clean in every round until one changes nothing, and
\* that within nine rounds.
ReturnTargetIsLocal(text) ==
  LET after == Decodings(text, 8)
  IN  \E k \in Rounds : /\ \A i \in 0 .. k : Clean(after[i])
                        /\ ~Changed(after[k])

SanitizeReturnTo(text) == IF ReturnTargetIsLocal(text) THEN text ELSE HomePage

\* redirect_target: the page a form was sent from, which the Referer names, if
\* it is of this origin.
RedirectTarget(path, ours) == IF ours THEN SanitizeReturnTo(path) ELSE HomePage
================================================================================

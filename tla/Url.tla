---------------------------------- MODULE Url ----------------------------------
(***************************************************************************)
(* Percent encoding (common/url.c).  A text is a sequence of tokens: one   *)
(* token is one character, or a whole word where no operation of the code  *)
(* looks inside it.  ASCII gives the hexadecimal digits of the characters  *)
(* that the instances use and cannot write as they are.                    *)
(***************************************************************************)
EXTENDS Naturals, Sequences, TLC

ASCII ==
       "NUL" :> <<"0", "0">> @@ " " :> <<"2", "0">> @@ "%" :> <<"2", "5">>
    @@ "&" :> <<"2", "6">> @@ ":" :> <<"3", "A">> @@ ";" :> <<"3", "B">>
    @@ "=" :> <<"3", "D">> @@ "?" :> <<"3", "F">> @@ "a" :> <<"6", "1">>

P11_URL_WHITESPACE == {" "}

P11_URL_VERBATIM == {"a"}

p11_ascii_toupper(c) ==
    IF c \in {"a", "b", "c", "d", "e", "f"}
    THEN [a |-> "A", b |-> "B", c |-> "C", d |-> "D", e |-> "E", f |-> "F"][c]
    ELSE c

p11_ascii_tolower(c) ==
    IF c \in {"A", "B", "C", "D", "E", "F", "PKCS11"}
    THEN [A |-> "a", B |-> "b", C |-> "c", D |-> "d", E |-> "e", F |-> "f",
          PKCS11 |-> "pkcs11"][c]
    ELSE c

\* lowercase: P11_KIT_URI_LOWERCASE is set in the environment.
p11_url_encode(value, verbatim, lowercase) ==
    LET hex(c) == IF lowercase THEN p11_ascii_tolower(c) ELSE c
        enc[i \in 0..Len(value)] ==
            IF i = 0 THEN <<>>
            ELSE enc[i - 1] \o
                 IF value[i] \in verbatim THEN <<value[i]>>
                 ELSE <<"%", hex(ASCII[value[i]][1]), hex(ASCII[value[i]][2])>>
    IN  enc[Len(value)]

BAD_ENCODING == [ok |-> FALSE, value |-> <<>>]

\* The decoded value, or that there is none.
p11_url_decode(text, skip) ==
    LET from[i \in 1..Len(text) + 3] ==
            IF i > Len(text) THEN [ok |-> TRUE, value |-> <<>>]
            ELSE IF text[i] = "%"
            THEN LET digits == IF i + 2 > Len(text) THEN <<>>
                               ELSE <<p11_ascii_toupper(text[i + 1]),
                                      p11_ascii_toupper(text[i + 2])>>
                 IN  IF \A c \in DOMAIN ASCII : ASCII[c] # digits THEN BAD_ENCODING
                     ELSE [from[i + 3] EXCEPT !.value =
                              <<CHOOSE c \in DOMAIN ASCII : ASCII[c] = digits>> \o @]
            ELSE IF text[i] \in skip THEN from[i + 1]
            ELSE [from[i + 1] EXCEPT !.value = <<text[i]>> \o @]
    IN  from[1]
================================================================================

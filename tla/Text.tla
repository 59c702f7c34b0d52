---------------------------------- MODULE Text ----------------------------------
(***************************************************************************)
(* Conversions of text and bytes: paths (common/path.c), argument strings  *)
(* (common/argv.c), hexadecimal (common/hex.c), base64 (common/base64.c)   *)
(* and PEM (common/pem.c), UTF-8 (trust/utf8.c), the dates of certificates *)
(* and attributes (trust/builder.c) and the lexer of the p11-kit file      *)
(* format (common/lexer.c), looked at over samples.                        *)
(*                                                                         *)
(* A path and an argument string are sequences of characters; bytes,       *)
(* base64 characters and code points are numbers.  A result that may be    *)
(* NULL is a set of at most one.  The text of a date is a sequence of      *)
(* digits, with -1 for any other character.  The text of a file is a       *)
(* sequence of characters, in which "BEGIN" stands for "-----BEGIN " and   *)
(* "END" for "-----END ".                                                  *)
(***************************************************************************)
EXTENDS Url, Integers, FiniteSets

CONSTANTS
    Samples,   \* the inputs to look at: [kind, of]
    LineLength \* of the lines of PEM, 64 characters in the code

VARIABLE sample

First(S) == CHOOSE i \in S : \A j \in S : i <= j

Greatest(S) == CHOOSE i \in S : \A j \in S : i >= j

(***************************************************************************)
(* Paths, on Unix.                                                         *)
(***************************************************************************)
is_path_separator(c) == c = "/"

\* The position of the last character that is no separator, 0 if none is.
Trimmed(path) ==
    Greatest({0} \cup {i \in DOMAIN path : ~is_path_separator(path[i])})

p11_path_base(path) ==
    LET end == Trimmed(path)
        slash == Greatest({0} \cup {i \in 1..end : is_path_separator(path[i])})
    IN  SubSeq(path, slash + 1, end)

\* One more component at the end of what is built.
BuildOn(built, path) ==
    LET starts == {i \in 1..Len(path) + 1 :
                      /\ \A j \in 1..i - 1 : is_path_separator(path[j])
                      /\ \/ i > Len(path)
                         \/ ~is_path_separator(path[i])
                         \/ built = <<>> /\ ~is_path_separator((path \o <<"NUL">>)[i + 1])}
        from == SubSeq(path, First(starts), Len(path))
        num == IF built = <<>> /\ Len(from) > 0
               THEN Greatest({1, Trimmed(from)}) ELSE Trimmed(from)
        add == SubSeq(from, 1, num)
    IN  IF built = <<>> THEN add
        ELSE IF num = 0 THEN built
        ELSE IF is_path_separator(built[Len(built)]) THEN built \o add
        ELSE built \o <<"/">> \o add

p11_path_build(paths) ==
    LET built[i \in 0..Len(paths)] ==
            IF i = 0 THEN <<>> ELSE BuildOn(built[i - 1], paths[i])
    IN  built[Len(paths)]

\* The search goes back from the terminator, and never past the first
\* character.
p11_path_parent(path) ==
    LET at(i) == (path \o <<"/">>)[i]
        back(from, stop(_)) == Greatest({1} \cup {i \in 1..from : stop(at(i))})
        other(c) == ~is_path_separator(c)
        end == back(Len(path) + 1, other)
        begin == back(end, is_path_separator)
        parent == back(begin, other)
    IN  IF parent > 1 THEN {SubSeq(path, 1, parent)}
        ELSE IF begin < end THEN {<<"/">>} ELSE {}

p11_path_prefix(string, prefix) ==
    /\ Len(string) > Len(prefix)
    /\ SubSeq(string, 1, Len(prefix)) = prefix
    /\ is_path_separator(string[Len(prefix) + 1])

p11_path_absolute(path) == path # <<>> /\ path[1] = "/"

p11_path_canon(name) ==
    [i \in DOMAIN name |-> IF name[i] \in {"a", "b"} THEN name[i] ELSE "_"]

p11_path_encode(path) == p11_url_encode(path, {"a", "b", "/"}, FALSE)

p11_path_decode(path) == p11_url_decode(path, {})

\* env: the environment, without the variables that are empty.
expand_homedir(remainder, env, secure) ==
    LET rest == SubSeq(remainder, First({i \in 1..Len(remainder) + 1 :
                           i > Len(remainder) \/ ~is_path_separator(remainder[i])}),
                       Len(remainder))
        below(home) == IF rest = <<>> THEN {p11_path_build(<<home>>)}
                       ELSE {p11_path_build(<<home, rest>>)}
    IN  IF secure THEN {}
        ELSE IF "XDG_CONFIG_HOME" \in DOMAIN env /\ p11_path_prefix(rest, <<".config">>)
        THEN {p11_path_build(<<env["XDG_CONFIG_HOME"], SubSeq(rest, 3, Len(rest))>>)}
        ELSE below(IF "HOME" \in DOMAIN env THEN env["HOME"] ELSE env["pw_dir"])

p11_path_expand(path, env, secure) ==
    IF path # <<>> /\ path[1] = "~" /\ (Len(path) = 1 \/ is_path_separator(path[2]))
    THEN expand_homedir(SubSeq(path, 2, Len(path)), env, secure)
    ELSE {path}

(***************************************************************************)
(* Arguments: quote is the quote the parser is in, args what the sink got. *)
(***************************************************************************)
p11_argv_parse(string) ==
    LET after[i \in 0..Len(string)] ==
            IF i = 0
            THEN [quote |-> "", escape |-> FALSE, arg |-> <<>>, args |-> <<>>]
            ELSE LET s == after[i - 1]  c == string[i]
                     add(chars) == [s EXCEPT !.arg = @ \o chars, !.escape = FALSE]
                 IN  IF s.escape
                     THEN add(IF s.quote \in {"", c} THEN <<c>> ELSE <<"\\", c>>)
                     ELSE IF s.quote = c THEN [s EXCEPT !.quote = ""]
                     ELSE IF s.quote # ""
                     THEN IF c = "\\" THEN [s EXCEPT !.escape = TRUE] ELSE add(<<c>>)
                     ELSE CASE c = " " -> [s EXCEPT !.arg = <<>>, !.args = Append(@, s.arg)]
                            [] c \in {"'", "\""} -> [s EXCEPT !.quote = c]
                            [] c = "\\" -> [s EXCEPT !.escape = TRUE, !.arg = Append(@, c)]
                            [] OTHER -> add(<<c>>)
        end == after[Len(string)]
    IN  [ok |-> ~end.escape,
         args |-> IF end.escape \/ end.arg = <<>> THEN end.args
                  ELSE Append(end.args, end.arg)]

(***************************************************************************)
(* Hexadecimal: digits are 0..15, Colon is the separator.                  *)
(***************************************************************************)
Colon == 16

hex_encode(data) ==
    LET enc[i \in 0..Len(data)] ==
            IF i = 0 THEN <<>>
            ELSE enc[i - 1] \o (IF i > 1 THEN <<Colon>> ELSE <<>>)
                     \o <<data[i] \div 16, data[i] % 16>>
    IN  enc[Len(data)]

hex_decode(hex) ==
    LET n == Len(hex)
        sep == n > 2 /\ hex[IF n > 2 THEN 3 ELSE 1] = Colon
        step == IF sep THEN 3 ELSE 2
        count == IF sep THEN (n + 1) \div 3 ELSE n \div 2
        digits == {step * i + j : i \in 0..count - 1, j \in {1, 2}}
    IN  IF \/ n = 0
           \/ sep /\ \E i \in 6..n : i % 3 = 0 /\ hex[i] # Colon
           \/ sep /\ (n + 1) % 3 # 0
           \/ ~sep /\ n % 2 # 0
        THEN {}
        ELSE IF \E i \in digits : hex[i] > 15 THEN {}
        ELSE {[i \in 1..count |-> 16 * hex[step * (i - 1) + 1] + hex[step * (i - 1) + 2]]}
(***************************************************************************)
(* Base64: 0..63 are the characters of the alphabet.                       *)
(***************************************************************************)
Pad64 == 64
Space == 65
Newline == 66

isspace(c) == c \in {Space, Newline}

Sextets(data) ==
    LET six(group) ==    \* one to three bytes
            LET b(i) == IF i <= Len(group) THEN group[i] ELSE 0
            IN  <<b(1) \div 4, (b(1) % 4) * 16 + b(2) \div 16,
                  IF Len(group) = 1 THEN Pad64 ELSE (b(2) % 16) * 4 + b(3) \div 64,
                  IF Len(group) < 3 THEN Pad64 ELSE b(3) % 64>>
        enc[i \in 0..(Len(data) + 2) \div 3] ==
            IF i = 0 THEN <<>>
            ELSE enc[i - 1] \o six(SubSeq(data, 3 * i - 2, Greatest({j \in 0..3 * i : j <= Len(data)})))
    IN  enc[(Len(data) + 2) \div 3]

\* A line break before every breakl characters; none for breakl 0.
p11_b64_ntop(data, breakl) ==
    LET chars == Sextets(data)
        put[i \in 0..Len(chars)] ==
            IF i = 0 THEN <<>>
            ELSE put[i - 1]
                 \o (IF breakl # 0 /\ Len(put[i - 1]) % (breakl + 1) = 0
                     THEN <<Newline>> ELSE <<>>)
                 \o <<chars[i]>>
    IN  put[Len(chars)]

\* The bytes of the sextets, without the bits left over.
Octets(six) ==
    [i \in 1..(Len(six) * 3) \div 4 |->
        LET s(j) == six[((i - 1) \div 3) * 4 + j]
        IN  CASE i % 3 = 1 -> (s(1) * 4 + s(2) \div 16) % 256
              [] i % 3 = 2 -> (s(2) * 16 + s(3) \div 4) % 256
              [] i % 3 = 0 -> (s(3) * 64 + s(4)) % 256]

\* The last character of the text is not looked at once the padding is
\* complete.
p11_b64_pton(text, targsize) ==
    LET n == Len(text)
        pads == {i \in 1..n : text[i] = Pad64}
        end == IF pads = {} THEN n + 1 ELSE First(pads)
        six == SelectSeq(SubSeq(text, 1, end - 1), LAMBDA c : ~isspace(c))
        k == Len(six)
        again == First({i \in end + 1..n + 1 : i > n \/ ~isspace((text \o <<Pad64>>)[i])})
        last == IF k % 4 = 2 THEN again ELSE end
    IN  IF \/ \E i \in 1..k : six[i] > 63
           \/ \E i \in 1..k : ((i - 1) \div 4) * 3 + <<0, 1, 2, 2>>[((i - 1) % 4) + 1] >= targsize
        THEN {}
        ELSE IF pads = {} THEN IF k % 4 = 0 THEN {Octets(six)} ELSE {}
        ELSE IF \/ k % 4 \in {0, 1}
                \/ k % 4 = 2 /\ (again > n \/ text[IF again > n THEN n ELSE again] # Pad64)
                \/ \E i \in last + 1..n - 1 : ~isspace(text[i])
                \/ k % 4 = 2 /\ six[k] % 16 # 0
                \/ k % 4 = 3 /\ six[k] % 4 # 0
        THEN {}
        ELSE {Octets(six)}

(***************************************************************************)
(* PEM.  A text is a sequence of pieces: [kind |-> "begin" or "end", type] *)
(* is a line of armour, [kind |-> "text", chars] what stands between two.  *)
(***************************************************************************)
pem_parse_block(chars) ==
    LET blank == {j \in DOMAIN chars :
                     /\ chars[j] = Newline
                     /\ \E i \in 1..j - 1 : /\ chars[i] = Newline
                                            /\ \A h \in i..j : isspace(chars[h])}
        data == IF blank = {} THEN chars ELSE SubSeq(chars, First(blank), Len(chars))
    IN  p11_b64_pton(data, (Len(data) * 3) \div 4 + 1)

\* The first line from i that begins a block.
pem_find_begin(text, i) ==
    LET begins == {j \in i..Len(text) : text[j].kind = "begin"}
    IN  IF begins = {} THEN {} ELSE {First(begins)}

\* The first line after i that ends a block, if it has the type.
pem_find_end(text, i, type) ==
    LET ends == {j \in i + 1..Len(text) : text[j].kind = "end"}
    IN  IF ends = {} THEN {}
        ELSE IF text[First(ends)].type # type THEN {} ELSE {First(ends)}

\* The blocks given to the sink: the first line that ends no block of the
\* type that was begun stops the parse.
p11_pem_parse(text) ==
    LET block(begin, end) ==
            IF end # begin + 2 THEN <<>>
            ELSE IF text[begin + 1].chars = <<>> THEN <<>>
            ELSE LET der == pem_parse_block(text[begin + 1].chars)
                 IN  IF der = {} THEN <<>>
                     ELSE <<[type |-> text[begin].type, der |-> CHOOSE d \in der : TRUE]>>
        found[i \in 1..Len(text) + 1] ==
            IF pem_find_begin(text, i) = {} THEN <<>>
            ELSE LET begin == CHOOSE b \in pem_find_begin(text, i) : TRUE
                     ends == pem_find_end(text, begin, text[begin].type)
                     end == CHOOSE e \in ends : TRUE
                 IN  IF ends = {} THEN <<>> ELSE block(begin, end) \o found[end + 1]
    IN  found[1]

p11_pem_write(contents, type, breakl) ==
    <<[kind |-> "begin", type |-> type],
      [kind |-> "text", chars |-> p11_b64_ntop(contents, breakl) \o <<Newline>>],
      [kind |-> "end", type |-> type],
      [kind |-> "text", chars |-> <<Newline>>]>>

(***************************************************************************)
(* UTF-8.                                                                  *)
(***************************************************************************)
\* want, lbound and what the first octet holds, for an octet above 127.
Lead(ch) ==
    CASE ch \div 32 = 6 -> <<2, 128, ch % 32>>
      [] ch \div 16 = 14 -> <<3, 2048, ch % 16>>
      [] ch \div 8 = 30 -> <<4, 65536, ch % 8>>
      [] ch \div 4 = 62 -> <<5, 2097152, ch % 4>>
      [] ch \div 2 = 126 -> <<6, 67108864, ch % 2>>
      [] OTHER -> <<0, 0, 0>>

\* [length, code], none if the text does not start with a character.
utf8_to_uchar(str) ==
    LET lead == Lead(str[1])  want == lead[1]
        uch[i \in 1..want] == IF i = 1 THEN lead[3] ELSE uch[i - 1] * 64 + (str[i] % 64)
    IN  IF str[1] < 128 THEN {[length |-> 1, code |-> str[1]]}
        ELSE IF \/ want = 0 \/ want > Len(str) THEN {}
        ELSE IF \E i \in 2..want : str[i] \div 64 # 2 THEN {}
        ELSE IF uch[want] < lead[2] \/ uch[want] \in 55296..57343 \/ uch[want] > 1114111 THEN {}
        ELSE {[length |-> want, code |-> uch[want]]}

utf8_for_uchar(uc) ==
    LET more(lead, want) ==
            LET shifted(k) == uc \div (64 ^ k)
            IN  [i \in 1..want |-> IF i = 1 THEN lead + shifted(want - 1)
                                   ELSE 128 + (shifted(want - i) % 64)]
    IN  CASE uc < 128 -> <<uc>>
          [] uc \in 128..2047 -> more(192, 2)
          [] uc \in 2048..65535 -> more(224, 3)
          [] uc \in 65536..2097151 -> more(240, 4)
          [] uc \in 2097152..67108863 -> more(248, 5)
          [] OTHER -> more(252, 6)

p11_utf8_validate(str) ==
    LET from[i \in 1..Len(str) + 1] ==
            \/ i > Len(str)
            \/ \E c \in utf8_to_uchar(SubSeq(str, i, Len(str))) : from[i + c.length]
    IN  from[1]

\* The character at i of a text in UCS-2 or UCS-4, none if it is cut off.
ucs2be_to_uchar(str, i) ==
    IF i + 1 > Len(str) THEN {} ELSE {str[i] * 256 + str[i + 1]}

ucs4be_to_uchar(str, i) ==
    IF i + 3 > Len(str) THEN {}
    ELSE {((str[i] * 256 + str[i + 1]) * 256 + str[i + 2]) * 256 + str[i + 3]}

\* width: the octets of a character of the input; convert[i]: the one at i.
utf8_for_convert(convert, width, str) ==
    LET from[i \in 1..Len(str) + width] ==
            IF i > Len(str) THEN {<<>>}
            ELSE {utf8_for_uchar(uc) \o rest : uc \in convert[i], rest \in from[i + width]}
    IN  from[1]

p11_utf8_for_ucs2be(str) == utf8_for_convert([i \in DOMAIN str |-> ucs2be_to_uchar(str, i)], 2, str)

p11_utf8_for_ucs4be(str) == utf8_for_convert([i \in DOMAIN str |-> ucs4be_to_uchar(str, i)], 4, str)

(***************************************************************************)
(* Dates.                                                                  *)
(***************************************************************************)
\* The number that the digits are, or -1.
atoin(p) ==
    LET value[n \in 0..Len(p)] == IF n = 0 THEN 0 ELSE value[n - 1] * 10 + p[n]
    IN  IF -1 \in {p[i] : i \in DOMAIN p} THEN -1 ELSE value[Len(p)]

IsLeap(y) == (y % 4 = 0 /\ y % 100 # 0) \/ y % 400 = 0

\* Of a month from 0 to 11.
DaysIn(y, mon) == IF mon = 1 THEN (IF IsLeap(y) THEN 29 ELSE 28)
                  ELSE IF mon \in {3, 5, 8, 10} THEN 30 ELSE 31

\* Whether mktime, in UTC, leaves the year, the month from 0 and the day as
\* they are, and gives no time before 1970.
mktime_keeps(y, mon, day) == y >= 1970 /\ mon <= 11 /\ day <= DaysIn(y, mon)

type_date(text) ==
    LET year == atoin(SubSeq(text, 1, 4))
        mon == atoin(SubSeq(text, 5, 6))
        mday == atoin(SubSeq(text, 7, 8))
    IN  \/ text = <<>>
        \/ /\ Len(text) = 8
           /\ year >= 1900 /\ mon > 0 /\ mday > 0
           /\ mktime_keeps(year, mon, mday)

\* Text without its last Z; the time is not given to mktime.
type_false_or_time(text) ==
    LET digits == IF Len(text) = 12 THEN 2 ELSE 4
        at(i) == atoin(SubSeq(text, digits + 2 * i + 1, digits + 2 * i + 2))
    IN  /\ Len(text) \in {12, 14}
        /\ atoin(SubSeq(text, 1, digits)) >= 0
        /\ at(0) > 0 /\ at(1) > 0
        /\ \A i \in 2..4 : at(i) >= 0

\* Mutant: the year a hundred years on is not the last century's.
CenturyMutant(year, now) ==
    LET current == now % 100
        century == now - current
    IN  IF current >= 40 /\ year < current /\ year <= current - 40 THEN century + 100 ELSE century

\* Where a year of two digits is, in the year now.
century_for_two_digit_year(year, now) ==
    LET current == now % 100
        century == now - current
    IN  IF current < 40 /\ year < current THEN century
        ELSE IF current < 40 /\ year > 100 - (40 - current) THEN century - 100
        ELSE IF current >= 40 /\ year < current /\ year > current - 40 THEN century
        ELSE IF year < current THEN century + 100
        ELSE century

\* The eight digits of a date, from the text of a time in a certificate.
calc_date(type, text, now) ==
    LET century == century_for_two_digit_year(atoin(SubSeq(text, 1, 2)), now) \div 100
    IN  IF type = "generalTime" THEN SubSeq(text, 1, 8)
        ELSE <<century \div 10, century % 10>> \o SubSeq(text, 1, 6)

(***************************************************************************)
(* The lexer: [at, line, tok, failed]; tok is the token, if any.           *)
(***************************************************************************)
Spaces == {" ", "\n"}

p11_lexer_init == [at |-> 1, line |-> 0, tok |-> {}, failed |-> FALSE]

clear_state(lexer) == [lexer EXCEPT !.tok = {}, !.failed = FALSE]

\* The first place of a character in text from i, or the place after the end.
FindFrom(text, i, char) ==
    LET places == {j \in i..Len(text) : text[j] = char}
    IN  IF places = {} THEN Len(text) + 1 ELSE CHOOSE j \in places : \A k \in places : j <= k

NewlinesIn(text, i, j) == Cardinality({k \in i..j : text[k] = "\n"})

\* The text from i to j without the white space around it.
StripFrom(text, i, j) ==
    LET inked == {k \in i..j : text[k] \notin Spaces}
    IN  IF inked = {} THEN <<>>
        ELSE SubSeq(text, CHOOSE k \in inked : \A l \in inked : k <= l,
                          CHOOSE k \in inked : \A l \in inked : l <= k)

\* The token of a line without the white space around it; {} if it has none.
LineToken(line) ==
    LET colon == FindFrom(line, 1, ":")
    IN  IF line[1] = "["
        THEN IF line[Len(line)] # "]" THEN {}
             ELSE {[type |-> "section", name |-> SubSeq(line, 2, Len(line) - 1), value |-> <<>>]}
        ELSE IF colon > Len(line) THEN {}
        ELSE {[type |-> "field", name |-> StripFrom(line, 1, colon - 1),
               value |-> StripFrom(line, colon + 1, Len(line))]}

\* Mutant: the lines of a block are not counted.
PemTokenMutant(text, lexer) ==
    LET ends == {j \in lexer.at + 1..Len(text) : text[j] = "END"}
        newline == FindFrom(text, CHOOSE j \in ends : \A k \in ends : j <= k, "\n")
    IN  IF ends = {} THEN [lexer EXCEPT !.failed = TRUE]
        ELSE [lexer EXCEPT !.tok = {[type |-> "pem", name |-> <<>>,
                                     value |-> SubSeq(text, lexer.at, newline)]},
                           !.line = @ + 1,
                           !.at = newline + 1]

\* A block ends with the line of its END; without one nothing is consumed.
PemToken(text, lexer) ==
    LET ends == {j \in lexer.at + 1..Len(text) : text[j] = "END" /\ text[j - 1] = "\n"}
        closing == CHOOSE j \in ends : \A k \in ends : j <= k
        newline == FindFrom(text, closing, "\n")
        last == IF newline > Len(text) THEN Len(text) ELSE newline
    IN  IF ends = {} THEN [lexer EXCEPT !.failed = TRUE]
        ELSE [lexer EXCEPT !.tok = {[type |-> "pem", name |-> <<>>,
                                     value |-> SubSeq(text, lexer.at, last)]},
                           !.line = @ + NewlinesIn(text, lexer.at, last),
                           !.at = last + 1]

p11_lexer_next(text, before) ==
    LET next[n \in 0..Len(text)] ==
            LET lexer == IF n = 0 THEN clear_state(before) ELSE next[n - 1]
                newline == FindFrom(text, lexer.at, "\n")
                moved == [lexer EXCEPT !.at = newline + 1,
                                       !.line = IF newline > Len(text) THEN @ ELSE @ + 1]
                line == StripFrom(text, lexer.at, newline - 1)
            IN  IF lexer.at > Len(text) \/ lexer.tok # {} \/ lexer.failed THEN lexer
                ELSE IF text[lexer.at] = "BEGIN" THEN PemToken(text, lexer)
                ELSE IF line = <<>> \/ line[1] = "#" THEN moved
                ELSE [moved EXCEPT !.tok = LineToken(line), !.failed = LineToken(line) = {}]
    IN  next[Len(text)]

(***************************************************************************)
(* The samples.                                                            *)
(***************************************************************************)
(***************************************************************************)
(* The checks, one input at a time.                                        *)
(***************************************************************************)
Init == sample \in Samples

Next == UNCHANGED sample

Spec == Init /\ [][Next]_sample

\* What is written can be read back, whatever the bytes: hex_encode and
\* hex_decode, p11_b64_ntop and p11_b64_pton with line breaks anywhere,
\* p11_pem_write and p11_pem_parse with other text before the block and
\* another block after it, p11_path_encode and p11_path_decode, and
\* utf8_for_uchar and utf8_to_uchar.
ConversionsInvert ==
    LET x == sample.of
    IN  CASE sample.kind = "bytes" ->
               /\ x # <<>> => hex_decode(hex_encode(x)) = {x}
               /\ \A breakl \in {0, 1, LineLength} :
                      p11_b64_pton(p11_b64_ntop(x, breakl), Len(x) + 1) = {x}
               /\ x # <<>> =>
                    LET text == <<[kind |-> "text", chars |-> <<Space>>]>>
                                \o p11_pem_write(x, "CERTIFICATE", LineLength)
                                \o p11_pem_write(<<255>>, "PUBLIC KEY", LineLength)
                    IN  p11_pem_parse(text) =
                            <<[type |-> "CERTIFICATE", der |-> x],
                              [type |-> "PUBLIC KEY", der |-> <<255>>]>>
          [] sample.kind = "code" ->
               x \notin 55296..57343 =>
                   utf8_to_uchar(utf8_for_uchar(x)) =
                       IF x <= 1114111
                       THEN {[length |-> Len(utf8_for_uchar(x)), code |-> x]} ELSE {}
          [] sample.kind = "name" ->
               p11_path_decode(p11_path_encode(x)) = [ok |-> TRUE, value |-> x]
          [] OTHER -> TRUE

\* Table 3-7 of the Unicode standard: the well formed octet sequences.
WellFormed(s) ==
    LET cont == 128..191
    IN  \/ Len(s) = 1 /\ s[1] < 128
        \/ Len(s) = 2 /\ s[1] \in 194..223 /\ s[2] \in cont
        \/ /\ Len(s) = 3 /\ s[3] \in cont
           /\ \/ s[1] = 224 /\ s[2] \in 160..191
              \/ s[1] \in 225..236 \cup 238..239 /\ s[2] \in cont
              \/ s[1] = 237 /\ s[2] \in 128..159
        \/ /\ Len(s) = 4 /\ s[3] \in cont /\ s[4] \in cont
           /\ \/ s[1] = 240 /\ s[2] \in 144..191
              \/ s[1] \in 241..243 /\ s[2] \in cont
              \/ s[1] = 244 /\ s[2] \in 128..143

WellFormedText(s) ==
    LET from[i \in 1..Len(s) + 1] ==
            i > Len(s) \/ \E n \in 1..4 : /\ i + n - 1 <= Len(s)
                                          /\ WellFormed(SubSeq(s, i, i + n - 1))
                                          /\ from[i + n]
    IN  from[1]

\* What is refused is what is malformed: p11_utf8_validate takes the texts
\* that are well formed by the Unicode standard and no other, so that no
\* second spelling of a character passes, and p11_argv_parse gives back the
\* arguments that were quoted and separated by spaces.
AcceptsExactly ==
    LET x == sample.of
        quoted(arg) ==
            LET q[i \in 0..Len(arg)] ==
                    IF i = 0 THEN <<"\"">>
                    ELSE q[i - 1] \o IF arg[i] = "\"" THEN <<"\\", "\"">> ELSE <<arg[i]>>
            IN  q[Len(arg)] \o <<"\"">>
        line[i \in 0..(IF sample.kind = "args" THEN Len(x) ELSE 0)] ==
            IF i = 0 THEN <<>>
            ELSE line[i - 1] \o (IF i > 1 THEN <<" ">> ELSE <<>>) \o quoted(x[i])
    IN  CASE sample.kind = "utf8" -> p11_utf8_validate(x) = WellFormedText(x)
          [] sample.kind = "args" ->
               (x = <<>> \/ x[Len(x)] # <<>>) =>
                   p11_argv_parse(line[Len(x)]) = [ok |-> TRUE, args |-> x]
          [] OTHER -> TRUE

\* A name put below an absolute directory by p11_path_build, as the token and
\* the tools do with the names of the files they find or make, has that name
\* as its base, that directory (less superfluous slashes) as its parent, and
\* is recognized by p11_path_prefix as being below it.
BuildStaysBelow ==
    (sample.kind = "path" /\ Trimmed(sample.of.name) > 0) =>
        LET dir == p11_path_build(<<sample.of.dir>>)
            path == p11_path_build(<<sample.of.dir, sample.of.name>>)
            plain == "/" \notin {sample.of.name[i] : i \in 1..Trimmed(sample.of.name)}
        IN  /\ p11_path_absolute(path)
            /\ p11_path_base(path) = p11_path_base(sample.of.name)
            /\ plain => p11_path_parent(path) = {dir}
            /\ dir # <<"/">> => p11_path_prefix(path, dir)
\* A time with a year of two digits is taken, and becomes a date in the hundred
\* years from 39 years before this year to 60 years after it, as the code says
\* ("within 40 years before the current date"), with the digits of the time.
DatesInWindow ==
    sample.kind = "utcTime" =>
        LET text == <<sample.of.year \div 10, sample.of.year % 10, 1, 2, 3, 1, 2, 3, 5, 9, 5, 9>>
            date == calc_date("utcTime", text, sample.of.now)
            year == atoin(SubSeq(date, 1, 4))
        IN  /\ type_false_or_time(text)
            /\ type_false_or_time(SubSeq(date, 1, 2) \o text)
            /\ Len(date) = 8
            /\ year > sample.of.now - 40 /\ year <= sample.of.now + 60
            /\ SubSeq(date, 3, 8) = SubSeq(text, 1, 6)
            /\ calc_date("generalTime", date \o SubSeq(text, 7, 12), sample.of.now) = date

\* The tokens of a file are those that were written, with comments, empty
\* lines and white space between them, and the line the lexer reports is the
\* one it has come to; text it cannot read fails and gives no token.
LexerReadsWritten ==
    sample.kind = "file" =>
        LET lines == sample.of
            text == LET t[i \in 0..Len(lines)] ==
                            IF i = 0 THEN <<>> ELSE t[i - 1] \o lines[i].text \o <<"\n">>
                    IN  t[Len(lines)]
            bad == {i \in DOMAIN lines : lines[i].bad}
            good == IF bad = {} THEN lines
                    ELSE SubSeq(lines, 1, (CHOOSE i \in bad : \A j \in bad : i <= j) - 1)
            written == LET w[i \in 0..Len(good)] ==
                               IF i = 0 THEN <<>> ELSE w[i - 1] \o good[i].tokens
                       IN  w[Len(good)]
            lexed[n \in 0..Len(lines) + 1] ==
                IF n = 0 THEN <<p11_lexer_init>>
                ELSE LET last == lexed[n - 1][Len(lexed[n - 1])]
                         step == p11_lexer_next(text, last)
                     IN  IF n > 1 /\ last.tok = {} THEN lexed[n - 1] ELSE Append(lexed[n - 1], step)
            read == lexed[Len(lines) + 1]
        IN  /\ Len(read) = Len(written) + 2
            /\ \A i \in DOMAIN written : read[i + 1].tok = {written[i]}
            /\ \A i \in DOMAIN read : read[i].line = NewlinesIn(text, 1, read[i].at - 1)
            /\ read[Len(read)].tok = {}
            /\ read[Len(read)].failed = (bad # {})

\* "If mktime changed anything, then bad date": type_date takes the dates of
\* the calendar since 1970 and no other.
DatesOfCalendar ==
    sample.kind = "date" =>
        LET d == sample.of
            text == <<d.year \div 1000, (d.year \div 100) % 10, (d.year \div 10) % 10, d.year % 10,
                      d.mon \div 10, d.mon % 10, d.day \div 10, d.day % 10>>
        IN  type_date(text) = /\ d.year >= 1970
                              /\ d.mon \in 1..12
                              /\ d.day \in 1..DaysIn(d.year, d.mon - 1)
================================================================================

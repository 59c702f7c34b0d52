-------------------------------- MODULE RpcCall --------------------------------
(*****************************************************************************)
(* One PKCS#11 call made through the logging layer and through the RPC       *)
(* client and server of p11-kit:                                             *)
(*                                                                           *)
(*   caller -> log.c                                                         *)
(*          -> stub of rpc-client.c -> request -> dispatcher of rpc-server.c *)
(*          -> module -> dispatcher -> response -> stub -> log.c -> caller   *)
(*                                                                           *)
(* for every call of the API, with every kind of argument the caller may     *)
(* pass (present, absent, empty, too small) and every way in which a module  *)
(* that follows PKCS#11 may answer.  Client and server keep their own tables *)
(* of forms and their own code for each form; the question is whether the    *)
(* module sees the call the caller made, and the caller the module's answer. *)
(*****************************************************************************)
EXTENDS RpcCodec

C == INSTANCE CallTables

\* The tables of both sides.
Stubs == [version \in {0, 1} |-> C!rpc_functions(version)]
Dispatchers == C!dispatch_call
Signatures == C!p11_rpc_calls
CallKinds == C!CK_X_FUNCTION_LIST
InfoFields == C!InfoFields
Readers == C!InfoReader
Writers == C!InfoWriter

CONSTANTS
    Calls,        \* the calls made, a subset of the API
    Versions,     \* the protocol versions negotiated
    Odd           \* which unusual arguments callers pass, see Actuals

VARIABLES
    phase,        \* "idle", "invoked", "requested", "answered", "returned", "logged"
    call,         \* the call in progress: function, arguments, what the module has
    msg,          \* the message on its way
    seen,         \* what the module was called with, and its answer
    result,       \* what the caller gets back
    log           \* the lines of the log about the call in progress

OK == "OK"

-------------------------------------------------------------------------------
(* Arguments, by the kind of their position.                                 *)

NoLength == -4            \* a NULL pointer to the length

Room(ptr, len) == [ptr |-> ptr, len |-> len, val |-> <<>>]
Pointer(ptr) == [ptr |-> ptr]

IsInfo(kind) == kind \in {"info", "slot_info", "token_info", "session_info", "mechanism_info"}
IsBytesRoom(kind) == kind \in {"buffer", "random", "optional"}
IsListRoom(kind) == kind \in {"ulongs", "handles", "mechanisms"}
IsOut(kind) == IsInfo(kind) \/ IsBytesRoom(kind) \/ IsListRoom(kind) \/ kind \in {"query", "result"}

AesIv == [iv |-> Block(16, <<"iv">>)]
Gcm == [iv |-> Block(2, <<"iv">>), ivBits |-> 1, aad |-> NoBlock, tagBits |-> 2]
Pss == [hashAlg |-> 1, mgf |-> 2, sLen |-> 3]

Templates == {
    <<>>,
    <<Attribute("CKA_CLASS", 8, <<4>>)>>,
    <<Attribute("CKA_LABEL", 2, <<"label">>), Attribute("CKA_TOKEN", 1, <<1>>),
      Attribute("CKA_ID", 0, <<>>), Attribute("CKA_START_DATE", 8, <<"date">>)>>,
    <<Attribute("CKA_WRAP_TEMPLATE", 24, <<Attribute("CKA_KEY_TYPE", 8, <<7>>)>>),
      Attribute("CKA_ALLOWED_MECHANISMS", 16, <<"CKM_RSA_PKCS", "CKM_AES_GCM">>)>> }

Queries == {
    <<AttributeSize("CKA_LABEL"), AttributeRoom("CKA_CLASS", 8)>>,
    <<AttributeRoom("CKA_LABEL", 1), AttributeRoom("CKA_TOKEN", 1), AttributeSize("CKA_CLASS")>>,
    <<AttributeRoom("CKA_LABEL", 2), AttributeRoom("CKA_START_DATE", 8)>> }

\* What callers pass for an argument of a kind at position i.
Actuals(kind, i) ==
    CASE kind = "ulong" -> {i}
      [] kind = "byte" -> {1}
      [] kind = "bytes" -> {NoBlock, Block(2, <<"data", i>>), Block(0, <<>>)}
                              \cup {[ptr |-> FALSE, len |-> 2, val |-> <<>>]}
                              \cup (IF "too_long" \in Odd THEN {Block(TOO_LONG, <<"data", i>>)} ELSE {})
      [] kind = "label" -> {Block(32, <<"label">>)}
      [] kind = "attrs" -> Templates
      [] kind = "query" -> Queries \cup (IF "empty_query" \in Odd THEN {<<>>} ELSE {})
      [] kind = "mechanism" -> {NoMechanism, Mechanism("CKM_RSA_PKCS", 0, <<>>),
                                Mechanism("CKM_AES_CBC", 16, AesIv), Mechanism("CKM_AES_GCM", 48, Gcm),
                                Mechanism("CKM_RSA_PKCS_PSS", 24, Pss),
                                Mechanism("CKM_VENDOR", 0, <<>>)}
      [] kind = "mechanism_type" -> {"CKM_RSA_PKCS", "CKM_AES_GCM", "CKM_VENDOR"}
      [] kind \in {"buffer", "optional"} ->
            {Room(FALSE, 0), Room(FALSE, 2), Room(TRUE, 0), Room(TRUE, 1), Room(TRUE, 2),
             Room(FALSE, NoLength)}
      [] kind = "random" -> {Room(TRUE, 1), Room(TRUE, 2)}
      [] kind = "handles" -> {Room(TRUE, 1), Room(TRUE, 2)}
      [] kind \in {"ulongs", "mechanisms"} ->
            {Room(FALSE, 0), Room(FALSE, 1), Room(TRUE, 1), Room(TRUE, 2), Room(FALSE, NoLength)}
              \cup (IF "zero_room" \in Odd THEN {Room(TRUE, 0)} ELSE {})
      [] OTHER -> {Pointer(TRUE), Pointer(FALSE)}

RECURSIVE ArgLists(_, _)
ArgLists(kinds, i) ==
    IF i > Len(kinds) THEN {<<>>}
    ELSE {<<a>> \o rest : a \in Actuals(kinds[i], i), rest \in ArgLists(kinds, i + 1)}

-------------------------------------------------------------------------------
(* The module behind the server, external code: it follows PKCS#11.  It      *)
(* refuses missing arguments, fails as it likes, and otherwise has a number  *)
(* of values for every result, which may be more than there is room for.     *)

Behaviours == [rv : {OK, "FUNCTION_FAILED"}, have : 0..2]

MechanismLists == <<<<"CKM_VENDOR">>, <<"CKM_VENDOR", "CKM_RSA_PKCS">>>>

\* The n values of a list result.
Values(kind, n) ==
    IF n = 0 THEN <<>> ELSE IF kind = "mechanisms" THEN MechanismLists[n] ELSE [j \in 1..n |-> 10 + j]

\* Whether the module refuses the arguments.
ArgumentsBad(kinds, args) ==
    \E i \in 1..Len(kinds) :
        LET k == kinds[i]  a == args[i] IN
        \/ k = "bytes" /\ ~a.ptr /\ a.len # 0
        \/ k \in {"buffer", "ulongs", "mechanisms"} /\ a.len = NoLength
        \/ (k = "result" \/ IsInfo(k)) /\ ~a.ptr

\* The size of an attribute's value; with have = 0 the object lacks its bytes attributes.
AttributeLength(type, have) ==
    LET kind == map_attribute_to_value_type(type) IN
    CASE kind = "byte" -> 1
      [] kind = "ulong" -> SIZEOF_ULONG
      [] kind = "date" -> SIZEOF_DATE
      [] OTHER -> IF have = 0 THEN MINUS1 ELSE have

AttributeAnswer(a, have) ==
    LET n == AttributeLength(a.type, have) IN
    CASE n = MINUS1 -> [a EXCEPT !.len = MINUS1, !.val = <<>>]
      [] n # MINUS1 /\ ~a.ptr -> [a EXCEPT !.len = n]
      [] n # MINUS1 /\ a.ptr /\ a.len < n -> [a EXCEPT !.len = MINUS1]
      [] n # MINUS1 /\ a.ptr /\ a.len >= n -> [a EXCEPT !.len = n, !.val = <<n>>]

QueryCode(q, have) ==
    IF \E i \in 1..Len(q) : AttributeLength(q[i].type, have) = MINUS1 THEN "ATTRIBUTE_TYPE_INVALID"
    ELSE IF \E i \in 1..Len(q) : q[i].ptr /\ q[i].len < AttributeLength(q[i].type, have)
    THEN "BUFFER_TOO_SMALL" ELSE OK

\* Whether the result at a position does not fit in the room given for it.
TooSmall(kind, a, have) ==
    (IsBytesRoom(kind) \/ IsListRoom(kind)) /\ kind \notin {"random", "handles"}
        /\ a.len # NoLength /\ a.ptr /\ a.len < have

\* What the memory of an argument holds after the call.
After(kind, a, have, i) ==
    CASE kind = "random" -> [a EXCEPT !.val = IF a.ptr THEN <<"bytes", i>> ELSE <<>>]
      [] kind = "handles" ->
            LET n == IF have < a.len THEN have ELSE a.len IN
            [a EXCEPT !.len = n, !.val = Values(kind, n)]
      [] kind = "optional" /\ a.len = NoLength -> a
      [] IsBytesRoom(kind) /\ kind # "random" /\ a.len # NoLength ->
            [a EXCEPT !.len = have, !.val = IF a.ptr /\ a.len >= have /\ have > 0 THEN <<"bytes", i>> ELSE <<>>]
      [] IsListRoom(kind) /\ kind # "handles" ->
            [a EXCEPT !.len = have, !.val = IF a.ptr /\ a.len >= have THEN Values(kind, have) ELSE <<>>]
      [] kind = "query" -> [j \in 1..Len(a) |-> AttributeAnswer(a[j], have)]
      [] kind = "result" -> [ptr |-> TRUE, val |-> <<100 + i>>]
      [] IsInfo(kind) -> [ptr |-> TRUE, val |-> [f \in InfoFields[kind] |-> f]]
      [] OTHER -> a

\* The answer of the module: its return value, and the arguments after the call.
Module(kinds, args, b) ==
    LET small == \E i \in 1..Len(kinds) : TooSmall(kinds[i], args[i], b.have)
        query == {i \in 1..Len(kinds) : kinds[i] = "query"}
        after == [i \in 1..Len(kinds) |-> After(kinds[i], args[i], b.have, i)] IN
    IF ArgumentsBad(kinds, args) THEN [rv |-> "ARGUMENTS_BAD", args |-> args]
    ELSE IF b.rv # OK THEN [rv |-> b.rv, args |-> args]
    ELSE IF small
    THEN [rv |-> "BUFFER_TOO_SMALL",
          args |-> [i \in 1..Len(kinds) |-> IF TooSmall(kinds[i], args[i], b.have) THEN after[i] ELSE args[i]]]
    ELSE [rv |-> IF query = {} THEN OK ELSE QueryCode(args[CHOOSE i \in query : TRUE], b.have),
          args |-> after]

-------------------------------------------------------------------------------
(* Writing the parts of a message.  A part must be the next one of the       *)
(* message's signature: p11_rpc_message_verify_part is asserted by every     *)
(* read and write, and p11_rpc_message_is_verified when all are done.        *)

Writer(signature) == [rv |-> OK, abort |-> FALSE, left |-> signature, out |-> <<>>]

Stopped(w) == w.abort \/ w.rv # OK

Part(w, token, items) ==
    CASE Stopped(w) -> w
      [] ~Stopped(w) /\ (w.left = <<>> \/ Head(w.left) # token) -> [w EXCEPT !.abort = TRUE]
      [] OTHER -> [w EXCEPT !.left = Tail(w.left), !.out = w.out \o items]

\* The sender gives up with rv when the buffer has failed, or when the condition holds.
OrFail(w, rv) == IF ~Stopped(w) /\ p11_buffer_failed(w.out) THEN [w EXCEPT !.rv = rv] ELSE w
Unless(bad, rv, w) == IF bad /\ ~Stopped(w) THEN [w EXCEPT !.rv = rv] ELSE w

p11_rpc_message_write_byte_array(w, a) ==
    Part(w, "ay", IF ~a.ptr /\ a.len # 0 THEN <<U8(0), U32(a.len)>>
                  ELSE <<U8(1)>> \o p11_rpc_buffer_add_byte_array(a))

p11_rpc_message_write_ulong_array(w, ptr, len, val) ==
    Part(w, "au", <<U8(IF ptr THEN 1 ELSE 0), U32(len)>>
                    \o IF ptr THEN Concat([j \in 1..Len(val) |-> p11_rpc_buffer_add_uint64(val[j])])
                              ELSE <<>>)

p11_rpc_message_write_attribute_array(w, attrs) ==
    Part(w, "aA", <<U32(Len(attrs))>>
                    \o Concat([j \in 1..Len(attrs) |-> p11_rpc_buffer_add_attribute(attrs[j])]))

\* The type of each attribute and the room for its value.
p11_rpc_message_write_attribute_buffer(w, attrs) ==
    Part(w, "fA", <<U32(Len(attrs))>>
                    \o Concat([j \in 1..Len(attrs) |->
                           <<U32(attrs[j].type), U32(IF attrs[j].ptr THEN attrs[j].len ELSE 0)>>]))

p11_rpc_message_write_byte(w, v) == Part(w, "y", <<U8(v)>>)
p11_rpc_message_write_ulong(w, v) == Part(w, "u", p11_rpc_buffer_add_uint64(v))
p11_rpc_message_write_version(w, v) == Part(w, "v", <<U8(v), U8(v)>>)
p11_rpc_message_write_space_string(w, a) == Part(w, "s", p11_rpc_buffer_add_byte_array(a))
p11_rpc_message_write_zero_string(w, a) == Part(w, "z", p11_rpc_buffer_add_byte_array(a))
p11_rpc_message_write_byte_buffer(w, n) == Part(w, "fy", <<U32(n)>>)
p11_rpc_message_write_ulong_buffer(w, n) == Part(w, "fu", <<U32(n)>>)

WriteField(w, f, info) ==
    CASE f.token = "u" -> p11_rpc_message_write_ulong(w, info[f.field])
      [] f.token = "v" -> p11_rpc_message_write_version(w, info[f.field])
      [] f.token = "s" -> p11_rpc_message_write_space_string(w, Block(f.length, info[f.field]))

-------------------------------------------------------------------------------
(* The client writes its request (the IN macros of rpc-client.c).            *)

proto_write_mechanism(w, m) ==
    CASE m.type = "NULL" -> Part(w, "M", <<U32("NULL")>>)
      [] m.type # "NULL" /\ ~p11_rpc_mechanism_is_supported(m.type) ->
            Unless(TRUE, "MECHANISM_INVALID", w)
      [] OTHER -> Part(w, "M", p11_rpc_buffer_add_mechanism(m))

\* A buffer of no length is passed on as no buffer.
IN_BYTE_BUFFERMutant(w, a) ==
    Unless(a.len = NoLength, "ARGUMENTS_BAD",
           p11_rpc_message_write_byte_buffer(w, IF a.ptr THEN a.len ELSE 0))

\* -1 stands for a buffer of no length, 0 for no buffer.
IN_BYTE_BUFFER(w, a) ==
    Unless(a.len = NoLength, "ARGUMENTS_BAD",
           p11_rpc_message_write_byte_buffer(w, IF ~a.ptr THEN 0 ELSE IF a.len > 0 THEN a.len ELSE MINUS1))

IN_BYTE_ARRAY(w, a) ==
    IF a.len # 0 /\ ~a.ptr THEN Unless(TRUE, "ARGUMENTS_BAD", w)
    ELSE p11_rpc_message_write_byte_array(w, a)

IN_ULONG_BUFFER(w, a) ==
    Unless(a.len = NoLength, "ARGUMENTS_BAD",
           p11_rpc_message_write_ulong_buffer(w, IF a.ptr THEN a.len ELSE 0))

IN_MECHANISM_TYPE(w, type) ==
    IF ~p11_rpc_mechanism_is_supported(type) THEN Unless(TRUE, "MECHANISM_INVALID", w)
    ELSE p11_rpc_message_write_ulong(w, type)

Wanted(a) == a.len # NoLength

ClientIn(w, kind, a) ==
    OrFail(CASE kind = "BYTE" -> p11_rpc_message_write_byte(w, a)
             [] kind = "ULONG" -> p11_rpc_message_write_ulong(w, a)
             [] kind = "ZERO_STRING" -> p11_rpc_message_write_zero_string(w, a)
             [] kind = "SPACE_STRING" -> p11_rpc_message_write_space_string(w, a)
             [] kind = "BYTE_BUFFER" -> IN_BYTE_BUFFER(w, a)
             [] kind = "EXPECTED" -> p11_rpc_message_write_byte(w, IF Wanted(a) THEN 1 ELSE 0)
             [] kind = "OPTIONAL_BUFFER" -> IN_BYTE_BUFFER(w, IF Wanted(a) THEN a ELSE Room(FALSE, 0))
             [] kind = "BYTE_ARRAY" -> IN_BYTE_ARRAY(w, a)
             [] kind = "ULONG_BUFFER" -> IN_ULONG_BUFFER(w, a)
             [] kind = "ATTRIBUTE_BUFFER" -> p11_rpc_message_write_attribute_buffer(w, a)
             [] kind = "ATTRIBUTE_ARRAY" -> p11_rpc_message_write_attribute_array(w, a)
             [] kind = "MECHANISM" -> proto_write_mechanism(w, a)
             [] kind = "MECHANISM_TYPE" -> IN_MECHANISM_TYPE(w, a),
           "HOST_MEMORY")

\* The position of a form's argument.
Position(params, form) == CHOOSE i \in 1..Len(params) : params[i] = form.arg

WriteRequest(stub, args) ==
    Accumulate(LAMBDA w, form : ClientIn(w, form.kind, args[Position(stub.params, form)]),
             Writer(Signatures[stub.call].request), stub.in)

-------------------------------------------------------------------------------
(* The server reads the request (the IN macros of rpc-server.c).  Byte       *)
(* arrays are left where they are in the message: the argument remembers the *)
(* offset of its bytes.  A reader's args are those read so far, by name.     *)

Reader(signature, in, offset) ==
    [rv |-> OK, abort |-> FALSE, left |-> signature, in |-> in, offset |-> offset, args |-> <<>>]

Width(item) == CASE item[1] = "u8" -> 1 [] item[1] = "u32" -> 4 [] item[1] = "raw" -> item[2]
Size(items) == Accumulate(LAMBDA n, item : n + Width(item), 0, items)
\* The call number, the length of the signature and its characters.
HeaderSize(signature) == Accumulate(LAMBDA n, token : n + Len(token), 8, signature)

\* The reader after a part of which the value and the rest of the message are got.
Take(r, token, name, got) ==
    CASE Stopped(r) -> r
      [] ~Stopped(r) /\ (r.left = <<>> \/ Head(r.left) # token) -> [r EXCEPT !.abort = TRUE]
      [] ~Stopped(r) /\ ~(r.left = <<>> \/ Head(r.left) # token) /\ ~got.ok -> [r EXCEPT !.rv = "DEVICE_ERROR"]
      [] OTHER -> [r EXCEPT !.left = Tail(r.left), !.in = got.rest,
                            !.offset = r.offset + Size(r.in) - Size(got.rest),
                            !.args = [x \in DOMAIN r.args \cup {name} |->
                                        IF x = name THEN got.val ELSE r.args[x]]]

S_proto_read_byte_buffer(in) ==
    Map(p11_rpc_buffer_get_uint32(in),
        LAMBDA n : IF n = MINUS1 THEN Room(TRUE, 0) ELSE Room(n # 0, n))

\* The bytes stay in the message: five bytes, the flag and the length, precede them.
S_proto_read_byte_array(in, offset) ==
    Then(p11_rpc_buffer_get_byte(in), LAMBDA valid, rest :
         IF valid = 0
         THEN Map(p11_rpc_buffer_get_uint32(rest),
                  LAMBDA n : [ptr |-> FALSE, len |-> n, val |-> <<>>, at |-> offset + 5])
         ELSE Map(p11_rpc_buffer_get_byte_array(rest),
                  LAMBDA b : [ptr |-> b.ptr, len |-> b.len, val |-> b.val, at |-> offset + 5]))

S_proto_read_ulong_buffer(in) == Map(p11_rpc_buffer_get_uint32(in), LAMBDA n : Room(n # 0, n))

RECURSIVE ReadRooms(_, _, _)
ReadRooms(n, in, got) ==
    IF n = 0 THEN Got(got, in)
    ELSE Then(p11_rpc_buffer_get_uint32(in), LAMBDA type, a :
              Then(p11_rpc_buffer_get_uint32(a), LAMBDA len, rest :
                   ReadRooms(n - 1, rest, Append(got, IF len = 0 THEN AttributeSize(type)
                                                      ELSE AttributeRoom(type, len)))))

S_proto_read_attribute_buffer(in) ==
    Then(p11_rpc_buffer_get_uint32(in), LAMBDA n, rest : ReadRooms(n, rest, <<>>))

S_proto_read_attribute_array(in) ==
    Then(p11_rpc_buffer_get_uint32(in), LAMBDA n, rest : ReadMany("attribute", n, rest, <<>>))

proto_read_null_string(in) == p11_rpc_buffer_get_byte_array(in)

proto_read_space_string(in, length) ==
    Then(p11_rpc_buffer_get_byte_array(in), LAMBDA b, rest :
         IF b.len = length THEN Got(b, rest) ELSE Fail)

\* A mechanism without a parameter has none, whatever its message said.
S_proto_read_mechanism(in) ==
    Map(p11_rpc_buffer_get_mechanism(in), LAMBDA m : IF m.len = 0 THEN [m EXCEPT !.fields = <<>>] ELSE m)

p11_rpc_message_read_byte(r, name) == Take(r, "y", name, p11_rpc_buffer_get_byte(r.in))
p11_rpc_message_read_ulong(r, name) == Take(r, "u", name, p11_rpc_buffer_get_uint64(r.in))

ServerIn(r, form) ==
    LET kind == form.kind IN
    CASE kind = "BYTE" -> p11_rpc_message_read_byte(r, form.arg)
      [] kind = "ULONG" -> p11_rpc_message_read_ulong(r, form.arg)
      [] kind = "ZERO_STRING" -> Take(r, "z", form.arg, proto_read_null_string(r.in))
      [] kind = "SPACE_STRING" -> Take(r, "s", form.arg, proto_read_space_string(r.in, 32))
      [] kind = "BYTE_BUFFER" -> Take(r, "fy", form.arg, S_proto_read_byte_buffer(r.in))
      [] kind = "EXPECTED" -> p11_rpc_message_read_byte(r, "expected")
      [] kind = "OPTIONAL_BUFFER" ->
            Take(r, "fy", form.arg, Map(S_proto_read_byte_buffer(r.in),
                 LAMBDA a : IF r.args["expected"] = 1 THEN a ELSE [a EXCEPT !.ptr = FALSE, !.len = NoLength]))
      [] kind = "BYTE_ARRAY" -> Take(r, "ay", form.arg, S_proto_read_byte_array(r.in, r.offset))
      [] kind = "ULONG_BUFFER" -> Take(r, "fu", form.arg, S_proto_read_ulong_buffer(r.in))
      [] kind = "ATTRIBUTE_BUFFER" -> Take(r, "fA", form.arg, S_proto_read_attribute_buffer(r.in))
      [] kind = "ATTRIBUTE_ARRAY" -> Take(r, "aA", form.arg, S_proto_read_attribute_array(r.in))
      [] kind = "MECHANISM" -> Take(r, "M", form.arg, S_proto_read_mechanism(r.in))

ReadRequest(d, body, signature) ==
    Accumulate(ServerIn, Reader(signature, body, HeaderSize(signature)), d.in)

\* call_ready puts the header of the response where the request was, before the module is called:
\* bytes left in the message that the header reaches are lost.
InPlace(a, header) ==
    [ptr |-> a.ptr, len |-> a.len,
     val |-> IF a.ptr /\ a.len > 0 /\ a.at < header THEN <<"overwritten">> ELSE a.val]

\* The arguments the module is called with: those read, room for the results, or NULL.
ServerArgs(d, r, kinds, header) ==
    [i \in 1..Len(d.args) |->
        CASE d.args[i] = C!NULL -> Pointer(FALSE)
          [] d.args[i] \in DOMAIN r.args ->
                IF kinds[i] = "bytes" THEN InPlace(r.args[d.args[i]], header) ELSE r.args[d.args[i]]
          [] OTHER -> Pointer(TRUE)]

-------------------------------------------------------------------------------
(* The server writes its response (the OUT macros of rpc-server.c).  The     *)
(* writer starts with the return value of the module.  A result that was too *)
(* large travels as a length without data, and as a success.                 *)


Sized(w) == IF w.rv = "BUFFER_TOO_SMALL" THEN [w EXCEPT !.rv = OK] ELSE w
HasData(w, a) == w.rv # "BUFFER_TOO_SMALL" /\ a.ptr

S_proto_write_byte_array(w, a) ==
    p11_rpc_message_write_byte_array(Sized(w), [ptr |-> HasData(w, a), len |-> a.len, val |-> a.val])

S_proto_write_ulong_array(w, a) ==
    p11_rpc_message_write_ulong_array(Sized(w), HasData(w, a), a.len, a.val)

\* The return value is left out when all went well.
S_proto_write_attribute_arrayMutant(w, attrs) ==
    IF w.rv \in {"ATTRIBUTE_SENSITIVE", "ATTRIBUTE_TYPE_INVALID", "BUFFER_TOO_SMALL", OK}
    THEN p11_rpc_message_write_attribute_array([w EXCEPT !.rv = OK], attrs)
    ELSE w

\* Some failures of an attribute query still say something about each attribute.
S_proto_write_attribute_array(w, attrs) ==
    IF w.rv \in {"ATTRIBUTE_SENSITIVE", "ATTRIBUTE_TYPE_INVALID", "BUFFER_TOO_SMALL", OK}
    THEN p11_rpc_message_write_ulong(
             p11_rpc_message_write_attribute_array([w EXCEPT !.rv = OK], attrs), w.rv)
    ELSE w

ServerOut(w, kind, a) ==
    CASE kind = "ULONG" -> p11_rpc_message_write_ulong(w, a.val)
      [] kind = "BYTE_ARRAY" -> S_proto_write_byte_array(w, a)
      [] kind = "OPTIONAL_ARRAY" ->
            S_proto_write_byte_array(w, IF Wanted(a) THEN a ELSE [a EXCEPT !.len = 0])
      [] kind = "ULONG_ARRAY" -> S_proto_write_ulong_array(w, a)
      [] kind = "ATTRIBUTE_ARRAY" -> S_proto_write_attribute_array(w, a)
      [] OTHER -> IF w.rv = OK
                  THEN Accumulate(LAMBDA x, f : WriteField(x, f, a.val), w, Writers[kind])
                  ELSE w

WriteResponse(d, signature, answer) ==
    Accumulate(LAMBDA w, form : ServerOut(w, form.kind, answer.args[Position(d.args, form)]),
             [Writer(signature) EXCEPT !.rv = answer.rv], d.out)

-------------------------------------------------------------------------------
(* The client reads the response (the OUT macros of rpc-client.c) into the   *)
(* memory of the caller.                                                     *)

\* The reader has got a value and stores mem as the argument's memory, with the return value rv.
Store(r, token, i, got, mem, rv) ==
    CASE r.left = <<>> \/ Head(r.left) # token -> [r EXCEPT !.abort = TRUE]
      [] ~(r.left = <<>> \/ Head(r.left) # token) /\ ~got.ok -> [r EXCEPT !.rv = "DEVICE_ERROR"]
      [] OTHER -> [r EXCEPT !.left = Tail(r.left), !.in = got.rest, !.args[i] = mem, !.rv = rv]

\* A length alone: the caller's memory was too small, or there was none.
StoreLength(r, token, i, a, n) ==
    Store(r, token, i, n, [a EXCEPT !.len = n.val], IF a.ptr THEN "BUFFER_TOO_SMALL" ELSE OK)

StoreBlock(r, i, a, b) ==
    Store(r, "ay", i, b,
          [a EXCEPT !.len = b.val.len, !.val = IF a.ptr /\ a.len >= b.val.len THEN b.val.val ELSE <<>>],
          IF a.ptr /\ a.len < b.val.len THEN "BUFFER_TOO_SMALL" ELSE OK)

StoreBytes(r, i, a, valid) ==
    IF ~valid.ok THEN Store(r, "ay", i, Fail, a, OK)
    ELSE IF valid.val = 0 THEN StoreLength(r, "ay", i, a, p11_rpc_buffer_get_uint32(valid.rest))
    ELSE StoreBlock(r, i, a, p11_rpc_buffer_get_byte_array(valid.rest))
C_proto_read_byte_array(r, i, a) == StoreBytes(r, i, a, p11_rpc_buffer_get_byte(r.in))

StoreItems(r, i, a, items) ==
    Store(r, "au", i, items,
          [a EXCEPT !.len = Len(items.val), !.val = IF a.ptr THEN items.val ELSE <<>>], OK)

StoreUlongs(r, i, a, valid, num) ==
    IF ~valid.ok \/ ~num.ok THEN Store(r, "au", i, Fail, a, OK)
    ELSE IF valid.val = 0 THEN StoreLength(r, "au", i, a, num)
    ELSE IF a.len < num.val
    THEN Store(r, "au", i, num, [a EXCEPT !.len = num.val], "BUFFER_TOO_SMALL")
    ELSE StoreItems(r, i, a, ReadMany("ulong", num.val, num.rest, <<>>))
UlongsAfter(r, i, a, valid) == StoreUlongs(r, i, a, valid, p11_rpc_buffer_get_uint32(valid.rest))
C_proto_read_ulong_array(r, i, a) == UlongsAfter(r, i, a, p11_rpc_buffer_get_byte(r.in))

\* The mechanisms that the client could not pass on are taken out of the list.
Purged(r, i, kept) == [r EXCEPT !.args[i].val = kept, !.args[i].len = Len(kept)]
mechanism_list_purge(r, i) ==
    IF r.rv = OK /\ ~r.abort /\ r.args[i].ptr
    THEN Purged(r, i, SelectSeq(r.args[i].val, p11_rpc_mechanism_is_supported)) ELSE r

\* What becomes of the caller's attribute a when the answer is b.  Reading an empty value clears
\* the pointer of the attribute.
MergeAttribute(a, b) ==
    CASE b.len = MINUS1 -> [a EXCEPT !.len = MINUS1]
      [] b.len # MINUS1 /\ (~a.ptr \/ a.len < b.len) -> [a EXCEPT !.len = b.len]
      [] OTHER -> [a EXCEPT !.len = b.len, !.val = b.val, !.ptr = b.len # 0]

\* The number and the order of the attributes must be those of the request; the return value of
\* the module follows them.
Malformed(r) == [r EXCEPT !.rv = "DEVICE_ERROR"]

StoreAttributes(r, i, a, items, code) ==
    IF ~code.ok THEN Malformed(r)
    ELSE [r EXCEPT !.left = <<>>, !.in = code.rest, !.rv = code.val,
                   !.args[i] = [j \in 1..Len(a) |-> MergeAttribute(a[j], items[j])]]

AttributesGot(r, i, a, items) ==
    IF ~items.ok THEN Malformed(r)
    ELSE IF \E j \in 1..Len(a) : items.val[j].type # a[j].type THEN Malformed(r)
    ELSE IF r.left # <<"aA", "u">> THEN [r EXCEPT !.abort = TRUE]
    ELSE StoreAttributes(r, i, a, items.val, p11_rpc_buffer_get_uint64(items.rest))

AttributesAfter(r, i, a, num) ==
    IF ~num.ok THEN Malformed(r)
    ELSE IF num.val # Len(a) THEN Malformed(r)
    ELSE AttributesGot(r, i, a, ReadMany("attribute", num.val, num.rest, <<>>))

C_proto_read_attribute_array(r, i, a) ==
    IF Len(a) = 0 THEN [r EXCEPT !.abort = TRUE]
    ELSE AttributesAfter(r, i, a, p11_rpc_buffer_get_uint32(r.in))

p11_rpc_message_read_version(in) ==
    Then(p11_rpc_buffer_get_byte(in), LAMBDA major, rest : p11_rpc_buffer_get_byte(rest))

p11_rpc_message_read_space_string(in, length) ==
    Then(p11_rpc_buffer_get_byte_array(in), LAMBDA b, rest :
         IF b.len = length THEN Got(b.val, rest) ELSE Fail)

StoreField(r, i, f, got) ==
    Store(r, f.token, i, got,
          [ptr |-> TRUE, val |-> [x \in DOMAIN r.args[i].val \cup {f.field} |->
                                    IF x = f.field THEN got.val ELSE r.args[i].val[x]]], OK)
ReadField(r, i, f) ==
    IF Stopped(r) THEN r
    ELSE StoreField(r, i, f,
             CASE f.token = "u" -> p11_rpc_buffer_get_uint64(r.in)
               [] f.token = "v" -> p11_rpc_message_read_version(r.in)
               [] f.token = "s" -> p11_rpc_message_read_space_string(r.in, f.length))

StoreUlong(r, i, got) == Store(r, "u", i, got, [ptr |-> TRUE, val |-> got.val], OK)

ResultOut(r, kind, i, a) ==
    CASE kind = "ULONG" -> StoreUlong(r, i, p11_rpc_buffer_get_uint64(r.in))
      [] kind = "BYTE_ARRAY" -> C_proto_read_byte_array(r, i, a)
      [] kind = "OPTIONAL_ARRAY" ->
            IF Wanted(a) THEN C_proto_read_byte_array(r, i, a)
            ELSE [C_proto_read_byte_array(r, i, Room(FALSE, 0)) EXCEPT !.args = r.args]
      [] kind = "ULONG_ARRAY" -> C_proto_read_ulong_array(r, i, a)
      [] kind = "MECHANISM_TYPE_ARRAY" -> mechanism_list_purge(C_proto_read_ulong_array(r, i, a), i)
      [] kind = "ATTRIBUTE_ARRAY" -> C_proto_read_attribute_array(r, i, a)
      [] OTHER -> Accumulate(LAMBDA x, f : ReadField(x, i, f),
                             [r EXCEPT !.args[i] = [ptr |-> TRUE, val |-> <<>>]], Readers[kind])

Arrays == {"BYTE_ARRAY", "OPTIONAL_ARRAY", "ULONG_ARRAY", "MECHANISM_TYPE_ARRAY", "ATTRIBUTE_ARRAY"}
ClientOut(r, kind, i) ==
    IF r.abort THEN r
    ELSE IF kind \notin Arrays /\ ~r.args[i].ptr THEN [r EXCEPT !.rv = "ARGUMENTS_BAD"]
    ELSE IF r.rv # OK THEN r
    ELSE ResultOut(r, kind, i, r.args[i])

ReadResponse(stub, args, body) ==
    Accumulate(LAMBDA r, form : ClientOut(r, form.kind, Position(stub.params, form)),
             [rv |-> OK, abort |-> FALSE, left |-> Signatures[stub.call].response, in |-> body, args |-> args],
             stub.out)

-------------------------------------------------------------------------------
(* The steps of a call.                                                      *)

NoCall == [fn |-> "none"]
NoMessage == [call |-> "none"]
Nothing == [called |-> FALSE]
Pending == [rv |-> "pending", abort |-> FALSE]

Init ==
    /\ phase = "idle" /\ call = NoCall /\ msg = NoMessage /\ seen = Nothing /\ result = Pending

\* A caller calls fn.  Whether there is a server was settled by C_Initialize.
Invoke(fn, args, b, version, up) ==
    /\ phase' = "invoked"
    /\ call' = [fn |-> fn, args |-> args, has |-> b, version |-> version, up |-> up]
    /\ seen' = Nothing /\ result' = Pending /\ msg' = NoMessage

StubOf(c) == Stubs[c.version][c.fn]
KindsOf(c) == CallKinds[c.fn]

Return(rv, args, abort) ==
    /\ phase' = "returned"
    /\ result' = [rv |-> rv, args |-> args, abort |-> abort]

\* Arguments a stub insists on with return_val_if_fail.
Missing(stub, args) ==
    \E i \in 1..Len(stub.params) :
        /\ stub.params[i] \in stub.needed
        /\ IF "len" \in DOMAIN args[i] THEN args[i].len = NoLength ELSE ~args[i].ptr

\* C_GetSlotList without a server: an empty list; C_GetInfo: a structure of the client's.
WithoutServer(c) ==
    [i \in 1..Len(c.args) |->
        CASE KindsOf(c)[i] = "ulongs" -> [c.args[i] EXCEPT !.len = 0]
          [] KindsOf(c)[i] = "info" -> [ptr |-> TRUE, val |-> [f \in C!CK_INFO |-> "stand-in"]]
          [] OTHER -> c.args[i]]

\* A message of a call; its header says which call and how the message is made.
p11_rpc_message_prep(name, signature, body) == [call |-> name, sig |-> signature, body |-> body]
p11_rpc_message_parse(m, signature) == m.sig = signature
ErrorResponse(rv) == p11_rpc_message_prep("ERROR", <<"u">>, p11_rpc_buffer_add_uint64(rv))
Closed == p11_rpc_message_prep("closed", <<>>, <<>>)

\* Not all parts of the signature have been written or read.
NotVerified(rw) == rw.abort \/ (rw.rv = OK /\ rw.left # <<>>)

\* The checks of a stub before it makes a message.
call_prepare(c) ==
    IF Missing(StubOf(c), c.args) THEN "ARGUMENTS_BAD"
    ELSE IF c.up THEN "go" ELSE StubOf(c).none

\* BEGIN_CALL_OR, the IN macros and call_run up to the transport.
Send(stub, w) ==
    IF NotVerified(w) \/ w.rv # OK
    THEN Return(IF NotVerified(w) THEN "abort" ELSE w.rv, call.args, NotVerified(w)) /\ UNCHANGED msg
    ELSE /\ phase' = "requested"
         /\ msg' = p11_rpc_message_prep(stub.call, Signatures[stub.call].request, w.out)
         /\ UNCHANGED result
Prepared(stub, rv) ==
    IF rv # "go"
    THEN Return(rv, IF rv = OK THEN WithoutServer(call) ELSE call.args, FALSE) /\ UNCHANGED msg
    ELSE Send(stub, WriteRequest(stub, call.args))
ClientCall ==
    /\ phase = "invoked"
    /\ Prepared(StubOf(call), call_prepare(call))
    /\ UNCHANGED <<call, seen>>

Answer(m) == phase' = "answered" /\ msg' = m /\ UNCHANGED result

\* p11_rpc_server_handle: parse, read, call the module, write.
Respond(response, w) ==
    IF NotVerified(w) THEN Return("abort", call.args, TRUE) /\ UNCHANGED msg
    ELSE Answer(IF p11_buffer_failed(w.out) THEN Closed
                ELSE IF w.rv # OK THEN ErrorResponse(w.rv)
                ELSE p11_rpc_message_prep(msg.call, response, w.out))
CallDone(d, response, args, answer) ==
    /\ seen' = [called |-> TRUE, func |-> d.func, args |-> args, answer |-> answer]
    /\ Respond(response, WriteResponse(d, response, answer))
CallModule(d, kinds, response, args) == CallDone(d, response, args, Module(kinds, args, call.has))
CallReady(d, kinds, response, r) ==
    IF NotVerified(r) THEN Return("abort", call.args, TRUE) /\ UNCHANGED <<msg, seen>>
    ELSE IF r.rv # OK THEN Answer(ErrorResponse(r.rv)) /\ UNCHANGED seen
    ELSE CallModule(d, kinds, response, ServerArgs(d, r, kinds, HeaderSize(response)))
Dispatch(d, sig) ==
    IF ~p11_rpc_message_parse(msg, sig.request) THEN Answer(Closed) /\ UNCHANGED seen
    ELSE CallReady(d, CallKinds[d.func], sig.response, ReadRequest(d, msg.body, sig.request))
p11_rpc_server_handle ==
    /\ phase = "requested"
    /\ Dispatch(Dispatchers[msg.call], Signatures[msg.call])
    /\ UNCHANGED call

\* What call_run makes of the response: a return value, or "go" when there are results to read.
call_run(stub, m) ==
    CASE m.call = "closed" -> "DEVICE_ERROR"
      [] m.call = "ERROR" -> p11_rpc_buffer_get_uint64(m.body).val
      [] m.call \notin {"closed", "ERROR"} ->
            IF m.call # stub.call \/ ~p11_rpc_message_parse(m, Signatures[stub.call].response)
            THEN "DEVICE_ERROR" ELSE "go"

\* call_run after the transport, the OUT macros and call_done.
CallDoneWith(r) == Return(r.rv, r.args, NotVerified(r))
CallRun(stub, rv) ==
    IF rv # "go" THEN Return(rv, call.args, FALSE)
    ELSE CallDoneWith(ReadResponse(stub, call.args, msg.body))
ClientReturn ==
    /\ phase = "answered"
    /\ CallRun(StubOf(call), call_run(StubOf(call), msg))
    /\ msg' = NoMessage
    /\ UNCHANGED <<call, seen>>

-------------------------------------------------------------------------------
(* Properties.                                                               *)

\* An argument as the module must see it: pointers for the module's own use are not passed on,
\* there is always memory for results, and no room is the same as room of no length.
AsSeen(kind, a) ==
    CASE kind = "pointer" -> Pointer(FALSE)
      [] kind = "result" \/ IsInfo(kind) -> Pointer(TRUE)
      [] kind \in {"buffer", "random", "optional"} \/ IsListRoom(kind) ->
            IF a.ptr \/ a.len = NoLength THEN a ELSE Room(FALSE, 0)
      [] kind = "attrs" -> [j \in 1..Len(a) |-> [a[j] EXCEPT !.ptr = a[j].len # 0]]
      [] OTHER -> a

(* The module behind the server is called with the arguments that the caller *)
(* of the client passed: none is lost, swapped or changed on the way, and    *)
(* the header of the response, written into the buffer that the request was  *)
(* read from before the module is called (call_ready in rpc-server.c), never *)
(* reaches bytes the module is still given in place.                         *)
ModuleSeesCall ==
    seen.called =>
        /\ seen.func = call.fn
        /\ seen.args = [i \in 1..Len(call.args) |-> AsSeen(KindsOf(call)[i], call.args[i])]

\* The client refuses mechanisms whose parameter it cannot encode.
Unsupported(c) ==
    \E i \in 1..Len(c.args) :
        \/ KindsOf(c)[i] = "mechanism" /\ c.args[i].type = "CKM_VENDOR"
        \/ KindsOf(c)[i] = "mechanism_type" /\ c.args[i] = "CKM_VENDOR"

\* The caller did not say where the result goes.
NoPlaceForResult(c) ==
    \E i \in 1..Len(c.args) : (KindsOf(c)[i] = "result" \/ IsInfo(KindsOf(c)[i])) /\ ~c.args[i].ptr

\* An argument after the call, with what the client does to it on purpose.
AsReturned(kind, a, ok) ==
    LET kept == SelectSeq(a.val, p11_rpc_mechanism_is_supported) IN
    CASE kind = "mechanisms" /\ ok -> IF a.ptr THEN [a EXCEPT !.len = Len(kept), !.val = kept] ELSE a
      [] OTHER -> a


(* No assertion of the message code fails: every part that client and server *)
(* write or read is the next one of the call's signature, a message is       *)
(* complete when it is sent and when it has been read                        *)
(* (p11_rpc_message_verify_part and p11_rpc_message_is_verified), and the    *)
(* preconditions that the proto functions assert hold.                       *)
AssertionsHold == ~result.abort

-------------------------------------------------------------------------------
(*****************************************************************************)
(* The logging layer (p11-kit/log.c) above the RPC client: a call is written *)
(* to the log with its arguments, passed on unchanged, and written again     *)
(* with its results.  What is shown of a result depends on the return value, *)
(* on whether the caller gave a pointer, and on the length that the call     *)
(* left behind; the layer must never show memory that nobody has filled.     *)
(*****************************************************************************)
Logs == C!log_functions
InfoLogs == C!InfoLog

vars == <<phase, call, msg, seen, result, log>>

Line(name, shown) == <<[name |-> name, shown |-> shown]>>
NoLine == <<>>
Garbage == "unwritten"    \* memory the call did not fill
Invalid == "(?)"          \* shown for a NULL pointer to the length

\* n elements are read from an array that holds val.
Elements(val, n) == [j \in 1..n |-> IF j <= Len(val) THEN val[j] ELSE Garbage]
BytesAt(val, n) == IF n = 0 THEN <<>> ELSE IF val = <<>> THEN <<Garbage>> ELSE val

\* A result that was too large is shown by its length alone; other failures show nothing.
Shown(rv) == rv \in {OK, "BUFFER_TOO_SMALL"}

\* The buffer is shown although the result did not fit into it.
log_byte_arrayMutant(name, a, rv) ==
    IF ~Shown(rv) THEN NoLine
    ELSE IF a.len = NoLength THEN Line(name, Invalid)
    ELSE IF ~a.ptr THEN Line(name, <<a.len>>)
    ELSE Line(name, <<a.len, BytesAt(a.val, a.len)>>)

log_byte_array(name, a, rv) ==
    IF ~Shown(rv) THEN NoLine
    ELSE IF a.len = NoLength THEN Line(name, Invalid)
    ELSE IF rv = "BUFFER_TOO_SMALL" \/ ~a.ptr THEN Line(name, <<a.len>>)
    ELSE Line(name, <<a.len, BytesAt(a.val, a.len)>>)

log_ulong_array(name, a, rv) ==
    IF ~Shown(rv) THEN NoLine
    ELSE IF a.len = NoLength THEN Line(name, Invalid)
    ELSE IF rv = "BUFFER_TOO_SMALL" \/ ~a.ptr THEN Line(name, <<a.len>>)
    ELSE Line(name, <<a.len, Elements(a.val, a.len)>>)

log_attribute_types(name, attrs) == Line(name, [j \in 1..Len(attrs) |-> attrs[j].type])

p11_attr_format(a) ==
    IF a.len = MINUS1 THEN <<a.type, "INVALID">>
    ELSE IF ~a.ptr THEN <<a.type, a.len>>
    ELSE <<a.type, a.len, BytesAt(a.val, a.len)>>

log_attribute_array(name, attrs, rv) ==
    IF ~Shown(rv) THEN NoLine
    ELSE IF rv = "BUFFER_TOO_SMALL" THEN Line(name, Len(attrs))
    ELSE Line(name, [j \in 1..Len(attrs) |-> p11_attr_format(attrs[j])])

log_mechanism(name, m) ==
    Line(name, IF m.type = "NULL" THEN <<"NULL">> ELSE <<m.type, m.len, m.fields>>)

log_ulong_pointer(name, a, rv) ==
    IF rv # OK THEN NoLine ELSE Line(name, IF a.ptr THEN a.val ELSE <<"NULL">>)

log_pointer(name, a, rv) == IF rv # OK THEN NoLine ELSE Line(name, a.ptr)

\* The fields of a structure, each under the name it is shown with.
log_structure(name, fields, a, rv) ==
    IF rv # OK THEN NoLine
    ELSE IF ~a.ptr THEN Line(name, "NULL")
    ELSE Line(name, [label \in {f.label : f \in fields} |->
                        LET f == CHOOSE x \in fields : x.label = label IN
                        IF f.field \in DOMAIN a.val THEN a.val[f.field] ELSE Garbage])

IN_(form, a) ==
    CASE form.kind \in {"ULONG", "BYTE", "MECHANISM_TYPE", "SPACE_STRING"} -> Line(form.arg, a)
      [] form.kind = "BYTE_ARRAY" -> log_byte_array(form.arg, a, OK)
      [] form.kind = "COUNT" -> Line(form.arg, a.len)
      [] form.kind = "ATTRIBUTE_ARRAY" -> log_attribute_types(form.arg, a)
      [] form.kind = "MECHANISM" -> log_mechanism(form.arg, a)
      [] form.kind = "POINTER" -> log_pointer(form.arg, a, OK)

OUT_(form, a, rv) ==
    CASE form.kind = "ULONG" -> log_ulong_pointer(form.arg, a, rv)
      [] form.kind = "BYTE_ARRAY" -> log_byte_array(form.arg, a, rv)
      [] form.kind = "ULONG_ARRAY" -> log_ulong_array(form.arg, a, rv)
      [] form.kind = "ATTRIBUTE_ARRAY" -> log_attribute_array(form.arg, a, rv)
      [] form.kind = "POINTER" -> log_pointer(form.arg, a, rv)
      [] OTHER -> log_structure(form.arg, InfoLogs[form.kind], a, rv)

-------------------------------------------------------------------------------

LoggedInit == Init /\ log = <<>>

\* BEGIN_CALL and the IN macros, then PROCESS_CALL.
LoggedInvoke(fn, args, b, version, up) ==
    /\ Invoke(fn, args, b, version, up)
    /\ log' = Concat([j \in 1..Len(Logs[fn].in) |->
                  IN_(Logs[fn].in[j], args[Position(Logs[fn].params, Logs[fn].in[j])])])

\* The OUT macros and DONE_CALL.
LoggedReturn ==
    /\ phase = "returned" /\ ~result.abort
    /\ phase' = "logged"
    /\ LET f == Logs[call.fn] IN
       log' = log \o Concat([j \in 1..Len(f.out) |->
                  OUT_(f.out[j], result.args[Position(f.params, f.out[j])], result.rv)])
                  \o Line("return", result.rv)
    /\ UNCHANGED <<call, msg, seen, result>>

\* The call is not forgotten.
LoggedDoneMutant ==
    /\ phase = "logged" \/ (phase = "returned" /\ result.abort)
    /\ phase' = "idle"
    /\ msg' = NoMessage /\ seen' = Nothing /\ result' = Pending /\ log' = <<>>
    /\ UNCHANGED call

LoggedDone ==
    /\ phase = "logged" \/ (phase = "returned" /\ result.abort)
    /\ phase' = "idle"
    /\ call' = NoCall /\ msg' = NoMessage /\ seen' = Nothing /\ result' = Pending /\ log' = <<>>

LoggedNext ==
    \/ /\ phase = "idle"
       /\ \E fn \in Calls, b \in Behaviours, version \in Versions, up \in BOOLEAN :
          /\ version # 0 \/ fn = "C_InitToken"
          /\ up \/ b = [rv |-> OK, have |-> 0]
          /\ \E args \in ArgLists(CallKinds[fn], 1) : LoggedInvoke(fn, args, b, version, up)
    \/ (ClientCall \/ p11_rpc_server_handle \/ ClientReturn) /\ UNCHANGED log
    \/ LoggedReturn
    \/ LoggedDone

LoggedSpec == LoggedInit /\ [][LoggedNext]_vars

-------------------------------------------------------------------------------

TypeOK ==
    /\ phase \in {"idle", "invoked", "requested", "answered", "returned", "logged"}
    /\ call = NoCall \/ (call.fn \in Calls /\ call.has \in Behaviours /\ call.version \in Versions)
    /\ (phase = "idle") = (call = NoCall)
    /\ result.abort \in BOOLEAN
    /\ phase \in {"returned", "logged"} <=> result # Pending
    /\ phase = "logged" => log # <<>>

\* The lines about an argument, by their number; those after the call begin at AfterCall.
LinesAbout(i) == {j \in 1..Len(log) : log[j].name = Logs[call.fn].params[i]}
AfterCall == Len(Logs[call.fn].in) + 1

\* What the log must show of a result the caller got.
Answered(kind, a) ==
    CASE kind = "result" -> a.val
      [] kind = "query" -> [j \in 1..Len(a) |-> IF a[j].ptr THEN <<a[j].type, a[j].len, a[j].val>>
                                                            ELSE <<a[j].type, a[j].len>>]
      [] IsInfo(kind) -> a.val
      [] OTHER -> IF a.len = NoLength THEN Invalid ELSE IF a.ptr THEN <<a.len, a.val>> ELSE <<a.len>>

(* The log of a successful call shows every result that the caller gets, and *)
(* shows it as the caller gets it, whatever combination of size query, empty *)
(* result and missing pointer the call was; of a result that did not fit it  *)
(* shows the size, of a failed call nothing; so memory that the call has not *)
(* filled is never read (PROCESS_CALL and the OUT macros of log.c).  Token   *)
(* information is left out: log_token_info shows ulMaxSessionCount under the *)
(* names of five other fields.                                               *)
LogShowsAnswer ==
    phase = "logged" =>
        \A i \in 1..Len(call.args) :
            LET kind == KindsOf(call)[i]
                a == result.args[i]
                lines == {log[j].shown : j \in LinesAbout(i) \cap (AfterCall..Len(log))} IN
            (IsOut(kind) /\ kind # "token_info") =>
                CASE result.rv = OK -> lines = {Answered(kind, a)}
                  [] result.rv = "BUFFER_TOO_SMALL" /\ (IsBytesRoom(kind) \/ IsListRoom(kind)) ->
                        lines = {IF a.len = NoLength THEN Invalid ELSE <<a.len>>}
                  [] result.rv \notin {OK, "BUFFER_TOO_SMALL"} -> lines = {}
                  [] OTHER -> TRUE

(* Every argument that goes into a call is in its log before the call is     *)
(* passed on (the IN macros of log.c against the prototypes of pkcs11i.h).   *)
LogShowsArguments ==
    phase = "requested" =>
        \A i \in 1..Len(call.args) :
            KindsOf(call)[i] \in {"ulong", "byte", "bytes", "label", "attrs", "mechanism",
                                  "mechanism_type", "query", "random"}
                => LinesAbout(i) # {}
===============================================================================

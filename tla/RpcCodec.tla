------------------------------- MODULE RpcCodec -------------------------------
(*****************************************************************************)
(* The encoding of remote calls (p11-kit/rpc-message.c).  A message body is  *)
(* a sequence of items: a byte, a 32 bit number (a 64 bit one is two of      *)
(* them), or a run of raw bytes.  Data is known by its length and by a token *)
(* that stands for its contents.  The item FAILED marks a buffer on which an *)
(* add function called p11_buffer_fail.  A get function returns the value it *)
(* read and the items after it, or Fail: past the end, or where the item     *)
(* there has another width, which in the program reads what is not there.    *)
(*****************************************************************************)
EXTENDS Naturals, Integers, Sequences, SequencesExt

\* A fold over a sequence from its left.
Accumulate(op(_, _), base, s) ==
    LET f[i \in 0..Len(s)] == IF i = 0 THEN base ELSE op(f[i - 1], s[i]) IN f[Len(s)]
Concat(seqs) == Accumulate(LAMBDA a, b : a \o b, <<>>, seqs)

MINUS1 == -1              \* 0xffffffff, or (CK_ULONG)-1
TOO_LONG == 2147483647    \* 0x7fffffff

U8(v) == <<"u8", v>>
U32(v) == <<"u32", v>>
RAW(len, val) == <<"raw", len, val>>
FAILED == <<"failed">>

p11_buffer_failed(items) == \E i \in 1..Len(items) : items[i] = FAILED

Got(val, rest) == [ok |-> TRUE, val |-> val, rest |-> rest]
Fail == [ok |-> FALSE]

\* What comes of the value that was got and of the items after it, and of the value alone.
Then(got, Op(_, _)) == IF got.ok THEN Op(got.val, got.rest) ELSE Fail
Map(got, Op(_)) == IF got.ok THEN Got(Op(got.val), got.rest) ELSE Fail

Get(tag, in) ==
    IF in # <<>> /\ Head(in)[1] = tag THEN Got(Head(in)[2], Tail(in)) ELSE Fail

p11_rpc_buffer_get_byte(in) == Get("u8", in)
p11_rpc_buffer_get_uint32(in) == Get("u32", in)

p11_rpc_buffer_add_uint64(v) == <<U32(0), U32(v)>>

p11_rpc_buffer_get_uint64(in) ==
    Then(p11_rpc_buffer_get_uint32(in), LAMBDA high, rest : p11_rpc_buffer_get_uint32(rest))

\* A block of bytes: its pointer is NULL or not, its length, its contents.
Block(len, val) == [ptr |-> TRUE, len |-> len, val |-> val]
NoBlock == [ptr |-> FALSE, len |-> 0, val |-> <<>>]

p11_rpc_buffer_add_byte_array(b) ==
    IF ~b.ptr THEN <<U32(MINUS1)>>
    ELSE IF b.len >= TOO_LONG THEN <<FAILED>>
    ELSE <<U32(b.len)>> \o IF b.len = 0 THEN <<>> ELSE <<RAW(b.len, b.val)>>

GetBlock(n, in) ==
    CASE n = MINUS1 -> Got(NoBlock, in)
      [] n = 0 -> Got(Block(0, <<>>), in)
      [] n \notin {MINUS1, 0} ->
            IF n < TOO_LONG /\ in # <<>> /\ Head(in)[1] = "raw" /\ Head(in)[2] = n
            THEN Got(Block(n, Head(in)[3]), Tail(in))
            ELSE Fail

p11_rpc_buffer_get_byte_array(in) == Then(p11_rpc_buffer_get_uint32(in), GetBlock)

-------------------------------------------------------------------------------
(* Attributes.  The value of an attribute is a sequence: one number, the     *)
(* tokens of its bytes, attributes or mechanism types, by its kind.          *)

SIZEOF_ULONG == 8
SIZEOF_ATTRIBUTE == 24
SIZEOF_DATE == 8

ByteAttributes == {"CKA_TOKEN", "CKA_PRIVATE", "CKA_TRUSTED", "CKA_SENSITIVE", "CKA_ENCRYPT",
    "CKA_DECRYPT", "CKA_WRAP", "CKA_UNWRAP", "CKA_SIGN", "CKA_SIGN_RECOVER", "CKA_VERIFY",
    "CKA_VERIFY_RECOVER", "CKA_DERIVE", "CKA_EXTRACTABLE", "CKA_LOCAL", "CKA_NEVER_EXTRACTABLE",
    "CKA_ALWAYS_SENSITIVE", "CKA_MODIFIABLE", "CKA_COPYABLE", "CKA_SECONDARY_AUTH",
    "CKA_ALWAYS_AUTHENTICATE", "CKA_WRAP_WITH_TRUSTED", "CKA_RESET_ON_INIT", "CKA_HAS_RESET",
    "CKA_COLOR", "CKA_IBM_RESTRICTABLE", "CKA_IBM_NEVER_MODIFIABLE", "CKA_IBM_RETAINKEY",
    "CKA_IBM_ATTRBOUND", "CKA_IBM_USE_AS_DATA", "CKA_IBM_PROTKEY_EXTRACTABLE",
    "CKA_IBM_PROTKEY_NEVER_EXTRACTABLE"}

UlongAttributes == {"CKA_CLASS", "CKA_CERTIFICATE_TYPE", "CKA_CERTIFICATE_CATEGORY",
    "CKA_JAVA_MIDP_SECURITY_DOMAIN", "CKA_KEY_TYPE", "CKA_MODULUS_BITS", "CKA_PRIME_BITS",
    "CKA_SUB_PRIME_BITS", "CKA_VALUE_BITS", "CKA_VALUE_LEN", "CKA_KEY_GEN_MECHANISM",
    "CKA_AUTH_PIN_FLAGS", "CKA_HW_FEATURE_TYPE", "CKA_PIXEL_X", "CKA_PIXEL_Y", "CKA_RESOLUTION",
    "CKA_CHAR_ROWS", "CKA_CHAR_COLUMNS", "CKA_BITS_PER_PIXEL", "CKA_MECHANISM_TYPE",
    "CKA_IBM_DILITHIUM_KEYFORM", "CKA_IBM_STD_COMPLIANCE1", "CKA_IBM_KEYTYPE"}

\* Every attribute that is not listed is an array of bytes.
map_attribute_to_value_type(type) ==
    CASE type \in ByteAttributes -> "byte"
      [] type \in UlongAttributes -> "ulong"
      [] type \in {"CKA_WRAP_TEMPLATE", "CKA_UNWRAP_TEMPLATE", "CKA_DERIVE_TEMPLATE"} -> "attributes"
      [] type = "CKA_ALLOWED_MECHANISMS" -> "mechanisms"
      [] type \in {"CKA_START_DATE", "CKA_END_DATE"} -> "date"
      [] OTHER -> "bytes"

IsAttributeArray(attr) == map_attribute_to_value_type(attr.type) = "attributes"

\* An attribute with a value, one with room for a value, and one that only asks its size.
Attribute(type, len, val) == [type |-> type, ptr |-> TRUE, len |-> len, val |-> val]
AttributeRoom(type, len) == [type |-> type, ptr |-> TRUE, len |-> len, val |-> <<>>]
AttributeSize(type) == [type |-> type, ptr |-> FALSE, len |-> 0, val |-> <<>>]

p11_rpc_buffer_add_byte_value(a) ==
    IF a.len > 1 THEN <<FAILED>> ELSE <<U8(IF a.val = <<>> THEN 0 ELSE Head(a.val))>>

p11_rpc_buffer_add_ulong_value(a) ==
    IF a.len > SIZEOF_ULONG THEN <<FAILED>>
    ELSE p11_rpc_buffer_add_uint64(IF a.val = <<>> THEN 0 ELSE Head(a.val))

p11_rpc_buffer_add_mechanism_type_array_value(a) ==
    <<U32(a.len \div SIZEOF_ULONG)>>
        \o IF a.ptr THEN Concat([i \in 1..Len(a.val) |-> p11_rpc_buffer_add_uint64(a.val[i])])
                    ELSE <<>>

p11_rpc_buffer_add_date_value(a) ==
    IF a.len \notin {0, SIZEOF_DATE} THEN <<FAILED>>
    ELSE p11_rpc_buffer_add_byte_array(IF a.ptr /\ a.len # 0 THEN Block(a.len, a.val) ELSE NoBlock)

p11_rpc_buffer_add_byte_array_value(a) ==
    p11_rpc_buffer_add_byte_array(IF a.ptr THEN Block(a.len, a.val) ELSE NoBlock)

RECURSIVE p11_rpc_buffer_add_attribute(_)

p11_rpc_buffer_add_attribute_array_value(a) ==
    IF ~a.ptr THEN <<U32(0)>>
    ELSE <<U32(a.len \div SIZEOF_ATTRIBUTE)>>
            \o Concat([i \in 1..Len(a.val) |-> p11_rpc_buffer_add_attribute(a.val[i])])

\* The type, whether there is a value, its length, and the value by its kind.
p11_rpc_buffer_add_attribute(a) ==
    LET kind == map_attribute_to_value_type(a.type) IN
    IF a.len = MINUS1 THEN <<U32(a.type), U8(0)>>
    ELSE <<U32(a.type), U8(1), U32(a.len)>>
            \o CASE kind = "byte" -> p11_rpc_buffer_add_byte_value(a)
                 [] kind = "ulong" -> p11_rpc_buffer_add_ulong_value(a)
                 [] kind = "attributes" -> p11_rpc_buffer_add_attribute_array_value(a)
                 [] kind = "mechanisms" -> p11_rpc_buffer_add_mechanism_type_array_value(a)
                 [] kind = "date" -> p11_rpc_buffer_add_date_value(a)
                 [] kind = "bytes" -> p11_rpc_buffer_add_byte_array_value(a)

\* A decoded value: its length as the decoder reports it, and its contents.
Decoded(len, val, rest) == Got([len |-> len, val |-> val], rest)

p11_rpc_buffer_get_byte_value(in) ==
    Then(p11_rpc_buffer_get_byte(in), LAMBDA v, rest : Decoded(1, <<v>>, rest))

p11_rpc_buffer_get_ulong_value(in) ==
    Then(p11_rpc_buffer_get_uint64(in), LAMBDA v, rest : Decoded(SIZEOF_ULONG, <<v>>, rest))

p11_rpc_buffer_get_date_value(in) ==
    Then(p11_rpc_buffer_get_byte_array(in), LAMBDA b, rest :
         IF b.len \in {0, SIZEOF_DATE} THEN Decoded(b.len, b.val, rest) ELSE Fail)

p11_rpc_buffer_get_byte_array_value(in) ==
    Then(p11_rpc_buffer_get_byte_array(in), LAMBDA b, rest : Decoded(b.len, b.val, rest))

RECURSIVE ReadMany(_, _, _, _)
RECURSIVE p11_rpc_message_get_attribute(_)

\* n values read one after the other, appended to got.
ReadMany(kind, n, in, got) ==
    IF n = 0 THEN Got(got, in)
    ELSE Then(IF kind = "attribute" THEN p11_rpc_message_get_attribute(in)
                                    ELSE p11_rpc_buffer_get_uint64(in),
              LAMBDA v, rest : ReadMany(kind, n - 1, rest, Append(got, v)))

p11_rpc_buffer_get_mechanism_type_array_value(in) ==
    Then(p11_rpc_buffer_get_uint32(in), LAMBDA n, a :
         Then(ReadMany("mechanism", n, a, <<>>), LAMBDA v, rest : Decoded(n * SIZEOF_ULONG, v, rest)))

\* Without memory for the values only their number is read.
p11_rpc_message_get_attribute_array_value(in, memory) ==
    Then(p11_rpc_buffer_get_uint32(in), LAMBDA n, a :
         Then(ReadMany("attribute", IF memory THEN n ELSE 0, a, <<>>),
              LAMBDA v, rest : Decoded(n * SIZEOF_ATTRIBUTE, v, rest)))

GetValue(kind, in, memory) ==
    CASE kind = "byte" -> p11_rpc_buffer_get_byte_value(in)
      [] kind = "ulong" -> p11_rpc_buffer_get_ulong_value(in)
      [] kind = "attributes" -> p11_rpc_message_get_attribute_array_value(in, memory)
      [] kind = "mechanisms" -> p11_rpc_buffer_get_mechanism_type_array_value(in)
      [] kind = "date" -> p11_rpc_buffer_get_date_value(in)
      [] kind = "bytes" -> p11_rpc_buffer_get_byte_array_value(in)

\* There is memory for every value that is not empty: allocated here, or the caller's.
GetAttribute(type, in) ==
    Then(p11_rpc_buffer_get_uint32(in), LAMBDA length, a :
         Then(GetValue(map_attribute_to_value_type(type), a, length # 0), LAMBDA v, rest :
              IF length # 0 /\ length < v.len THEN Fail
              ELSE Got([type |-> type, ptr |-> length # 0, len |-> length,
                        val |-> IF length # 0 THEN v.val ELSE <<>>], rest)))

p11_rpc_message_get_attribute(in) ==
    Then(p11_rpc_buffer_get_uint32(in), LAMBDA type, a :
         Then(p11_rpc_buffer_get_byte(a), LAMBDA valid, b :
              IF valid = 0 THEN Got([type |-> type, ptr |-> FALSE, len |-> MINUS1, val |-> <<>>], b)
              ELSE GetAttribute(type, b)))

-------------------------------------------------------------------------------
(* Mechanisms.  The parameter of a mechanism is a structure: its length and  *)
(* its fields.  A serializer is the length it insists on (or ANY, or SOME    *)
(* for any but zero), and its fields in order: numbers and blocks.           *)

ANY == -2
SOME == -3
Num(field) == [kind |-> "num", field |-> field]
Bytes(field) == [kind |-> "bytes", field |-> field]
Serializer(length, fields) == [length |-> length, fields |-> fields]

add_rsa_pkcs_pss == Serializer(24, <<Num("hashAlg"), Num("mgf"), Num("sLen")>>)
get_rsa_pkcs_pss == Serializer(24, <<Num("hashAlg"), Num("mgf"), Num("sLen")>>)

add_rsa_pkcs_oaep == Serializer(40, <<Num("hashAlg"), Num("mgf"), Num("source"), Bytes("sourceData")>>)
get_rsa_pkcs_oaep == Serializer(40, <<Num("hashAlg"), Num("mgf"), Num("source"), Bytes("sourceData")>>)

add_ecdh1_derive == Serializer(40, <<Num("kdf"), Bytes("sharedData"), Bytes("publicData")>>)
get_ecdh1_derive == Serializer(40, <<Num("kdf"), Bytes("sharedData"), Bytes("publicData")>>)

add_ibm_attrbound_wrap == Serializer(8, <<Num("signVerifyKey")>>)
get_ibm_attrbound_wrap == Serializer(8, <<Num("signVerifyKey")>>)

add_aes_iv == Serializer(16, <<Bytes("iv")>>)
get_aes_iv == Serializer(16, <<Bytes("iv")>>)

add_aes_ctr == Serializer(24, <<Num("counterBits"), Bytes("cb")>>)
get_aes_ctr == Serializer(24, <<Num("counterBits"), Bytes("cb")>>)

add_aes_gcm == Serializer(48, <<Bytes("iv"), Num("ivBits"), Bytes("aad"), Num("tagBits")>>)
get_aes_gcm == Serializer(48, <<Bytes("iv"), Num("ivBits"), Bytes("aad"), Num("tagBits")>>)

add_des_iv == Serializer(8, <<Bytes("iv")>>)
get_des_iv == Serializer(8, <<Bytes("iv")>>)

add_mac_general == Serializer(8, <<Num("value")>>)
get_mac_general == Serializer(8, <<Num("value")>>)

add_dh_pkcs_derive == Serializer(SOME, <<Bytes("public")>>)
get_dh_pkcs_derive == Serializer(SOME, <<Bytes("public")>>)

add_byte_array == Serializer(ANY, <<Bytes("value")>>)
get_byte_array == Serializer(ANY, <<Bytes("value")>>)

PssMechanisms == {"CKM_RSA_PKCS_PSS", "CKM_SHA1_RSA_PKCS_PSS", "CKM_SHA224_RSA_PKCS_PSS",
    "CKM_SHA256_RSA_PKCS_PSS", "CKM_SHA384_RSA_PKCS_PSS", "CKM_SHA512_RSA_PKCS_PSS"}
EcdhMechanisms == {"CKM_ECDH1_DERIVE", "CKM_IBM_EC_X25519", "CKM_IBM_EC_X448"}
AesIvMechanisms == {"CKM_AES_CBC", "CKM_AES_CBC_PAD", "CKM_AES_OFB", "CKM_AES_CFB1", "CKM_AES_CFB8",
    "CKM_AES_CFB64", "CKM_AES_CFB128", "CKM_AES_CTS"}
DesIvMechanisms == {"CKM_DES_CBC", "CKM_DES_CBC_PAD", "CKM_DES3_CBC", "CKM_DES3_CBC_PAD",
    "CKM_DES_CFB8", "CKM_DES_CFB64", "CKM_DES_OFB64"}
MacMechanisms == {"CKM_SHA_1_HMAC_GENERAL", "CKM_SHA224_HMAC_GENERAL", "CKM_SHA256_HMAC_GENERAL",
    "CKM_SHA384_HMAC_GENERAL", "CKM_SHA512_HMAC_GENERAL", "CKM_SHA512_224_HMAC_GENERAL",
    "CKM_SHA512_256_HMAC_GENERAL", "CKM_AES_MAC_GENERAL", "CKM_AES_CMAC_GENERAL",
    "CKM_DES3_MAC_GENERAL", "CKM_DES3_CMAC_GENERAL"}

p11_rpc_mechanism_serializers(type) ==
    CASE type \in PssMechanisms -> [add |-> add_rsa_pkcs_pss, get |-> get_rsa_pkcs_pss]
      [] type = "CKM_RSA_PKCS_OAEP" -> [add |-> add_rsa_pkcs_oaep, get |-> get_rsa_pkcs_oaep]
      [] type \in EcdhMechanisms -> [add |-> add_ecdh1_derive, get |-> get_ecdh1_derive]
      [] type = "CKM_IBM_ATTRIBUTEBOUND_WRAP" ->
            [add |-> add_ibm_attrbound_wrap, get |-> get_ibm_attrbound_wrap]
      [] type \in AesIvMechanisms -> [add |-> add_aes_iv, get |-> get_aes_iv]
      [] type = "CKM_AES_CTR" -> [add |-> add_aes_ctr, get |-> get_aes_ctr]
      [] type = "CKM_AES_GCM" -> [add |-> add_aes_gcm, get |-> get_aes_gcm]
      [] type \in DesIvMechanisms -> [add |-> add_des_iv, get |-> get_des_iv]
      [] type \in MacMechanisms -> [add |-> add_mac_general, get |-> get_mac_general]
      [] type = "CKM_DH_PKCS_DERIVE" -> [add |-> add_dh_pkcs_derive, get |-> get_dh_pkcs_derive]
      [] OTHER -> [add |-> add_byte_array, get |-> get_byte_array]

mechanism_has_sane_parameters(type) ==
    type \in PssMechanisms \cup EcdhMechanisms \cup AesIvMechanisms \cup DesIvMechanisms \cup MacMechanisms
        \cup {"CKM_RSA_PKCS_OAEP", "CKM_IBM_ATTRIBUTEBOUND_WRAP", "CKM_AES_CTR", "CKM_AES_GCM",
              "CKM_DH_PKCS_DERIVE"}

mechanism_has_no_parameters(type) ==
    type \in {"CKM_RSA_PKCS_KEY_PAIR_GEN", "CKM_RSA_X9_31_KEY_PAIR_GEN", "CKM_RSA_PKCS", "CKM_RSA_9796",
        "CKM_RSA_X_509", "CKM_RSA_X9_31", "CKM_MD2_RSA_PKCS", "CKM_MD5_RSA_PKCS", "CKM_SHA1_RSA_PKCS",
        "CKM_SHA224_RSA_PKCS", "CKM_SHA256_RSA_PKCS", "CKM_SHA384_RSA_PKCS", "CKM_SHA512_RSA_PKCS",
        "CKM_RIPEMD128_RSA_PKCS", "CKM_RIPEMD160_RSA_PKCS", "CKM_SHA1_RSA_X9_31",
        "CKM_DSA_KEY_PAIR_GEN", "CKM_DSA_PARAMETER_GEN", "CKM_DSA", "CKM_DSA_SHA1",
        "CKM_FORTEZZA_TIMESTAMP", "CKM_EC_KEY_PAIR_GEN", "CKM_ECDSA", "CKM_ECDSA_SHA1",
        "CKM_ECDSA_SHA224", "CKM_ECDSA_SHA256", "CKM_ECDSA_SHA384", "CKM_ECDSA_SHA512",
        "CKM_DH_PKCS_KEY_PAIR_GEN", "CKM_DH_PKCS_PARAMETER_GEN", "CKM_X9_42_DH_KEY_PAIR_GEN",
        "CKM_X9_42_DH_PARAMETER_GEN", "CKM_KEA_KEY_PAIR_GEN", "CKM_GENERIC_SECRET_KEY_GEN",
        "CKM_RC2_KEY_GEN", "CKM_RC4_KEY_GEN", "CKM_RC4", "CKM_RC5_KEY_GEN", "CKM_AES_KEY_GEN",
        "CKM_AES_ECB", "CKM_AES_MAC", "CKM_AES_CMAC", "CKM_DES_KEY_GEN", "CKM_DES2_KEY_GEN",
        "CKM_DES3_KEY_GEN", "CKM_CDMF_KEY_GEN", "CKM_CAST_KEY_GEN", "CKM_CAST3_KEY_GEN",
        "CKM_CAST128_KEY_GEN", "CKM_IDEA_KEY_GEN", "CKM_SSL3_PRE_MASTER_KEY_GEN",
        "CKM_TLS_PRE_MASTER_KEY_GEN", "CKM_SKIPJACK_KEY_GEN", "CKM_BATON_KEY_GEN",
        "CKM_JUNIPER_KEY_GEN", "CKM_RC2_ECB", "CKM_DES_ECB", "CKM_DES3_ECB", "CKM_CDMF_ECB",
        "CKM_CAST_ECB", "CKM_CAST3_ECB", "CKM_CAST128_ECB", "CKM_RC5_ECB", "CKM_IDEA_ECB",
        "CKM_RC2_MAC", "CKM_DES_MAC", "CKM_DES3_MAC", "CKM_DES3_CMAC", "CKM_CDMF_MAC", "CKM_CAST_MAC",
        "CKM_CAST3_MAC", "CKM_RC5_MAC", "CKM_IDEA_MAC", "CKM_SSL3_MD5_MAC", "CKM_SSL3_SHA1_MAC",
        "CKM_SKIPJACK_WRAP", "CKM_BATON_WRAP", "CKM_JUNIPER_WRAP", "CKM_MD2", "CKM_MD2_HMAC", "CKM_MD5",
        "CKM_MD5_HMAC", "CKM_SHA_1", "CKM_SHA_1_HMAC", "CKM_SHA1_KEY_DERIVATION", "CKM_SHA224",
        "CKM_SHA224_HMAC", "CKM_SHA224_KEY_DERIVATION", "CKM_SHA256", "CKM_SHA256_HMAC",
        "CKM_SHA256_KEY_DERIVATION", "CKM_SHA384", "CKM_SHA384_HMAC", "CKM_SHA384_KEY_DERIVATION",
        "CKM_SHA512", "CKM_SHA512_HMAC", "CKM_SHA512_KEY_DERIVATION", "CKM_SHA512_T",
        "CKM_SHA512_T_HMAC", "CKM_SHA512_T_KEY_DERIVATION", "CKM_SHA512_224", "CKM_SHA512_224_HMAC",
        "CKM_SHA512_224_KEY_DERIVATION", "CKM_SHA512_256", "CKM_SHA512_256_HMAC",
        "CKM_SHA512_256_KEY_DERIVATION", "CKM_FASTHASH", "CKM_RIPEMD128", "CKM_RIPEMD128_HMAC",
        "CKM_RIPEMD160", "CKM_RIPEMD160_HMAC", "CKM_KEY_WRAP_LYNKS", "CKM_IBM_SHA3_224",
        "CKM_IBM_SHA3_256", "CKM_IBM_SHA3_384", "CKM_IBM_SHA3_512", "CKM_IBM_CMAC", "CKM_IBM_DILITHIUM",
        "CKM_IBM_SHA3_224_HMAC", "CKM_IBM_SHA3_256_HMAC", "CKM_IBM_SHA3_384_HMAC",
        "CKM_IBM_SHA3_512_HMAC", "CKM_IBM_ED25519_SHA512", "CKM_IBM_ED448_SHA3"}

p11_rpc_mechanism_is_supported(type) ==
    mechanism_has_no_parameters(type) \/ mechanism_has_sane_parameters(type)

\* A mechanism: its type, the length of its parameter (0 for none), the fields of the structure.
NoMechanism == [type |-> "NULL", len |-> 0, fields |-> <<>>]
Mechanism(type, len, fields) == [type |-> type, len |-> len, fields |-> fields]

AddFields(s, m) ==
    Concat([i \in 1..Len(s.fields) |->
        LET f == s.fields[i] IN
        IF f.kind = "num" THEN p11_rpc_buffer_add_uint64(m.fields[f.field])
                          ELSE p11_rpc_buffer_add_byte_array(m.fields[f.field])])

LengthFits(s, len) ==
    CASE s.length = ANY -> TRUE
      [] s.length = SOME -> len # 0
      [] OTHER -> len = s.length

p11_rpc_buffer_add_mechanism(m) ==
    LET s == p11_rpc_mechanism_serializers(m.type).add IN
    <<U32(m.type)>>
        \o IF mechanism_has_no_parameters(m.type) THEN p11_rpc_buffer_add_byte_array(NoBlock)
           ELSE IF LengthFits(s, m.len) THEN AddFields(s, m) ELSE <<FAILED>>

RECURSIVE GetFields(_, _, _)
GetFields(fields, in, got) ==
    IF fields = <<>> THEN Got(got, in)
    ELSE Then(IF Head(fields).kind = "num" THEN p11_rpc_buffer_get_uint64(in)
                                           ELSE p11_rpc_buffer_get_byte_array(in),
              LAMBDA v, rest : GetFields(Tail(fields), rest,
                  [x \in DOMAIN got \cup {Head(fields).field} |->
                      IF x = Head(fields).field THEN v ELSE got[x]]))

\* A parameter that is a block of its own has the length of the block.
ParameterLength(s, v) ==
    IF Len(s.fields) = 1 /\ s.fields[1].kind = "bytes" THEN v[s.fields[1].field].len ELSE s.length

GetParameter(type, s, in) ==
    Then(GetFields(s.fields, in, <<>>), LAMBDA v, rest :
         IF LengthFits(s, ParameterLength(s, v))
         THEN Got(Mechanism(type, ParameterLength(s, v), v), rest) ELSE Fail)

p11_rpc_buffer_get_mechanism(in) ==
    Then(p11_rpc_buffer_get_uint32(in), LAMBDA type, rest :
         IF type = "NULL" THEN Got(NoMechanism, rest)
         ELSE GetParameter(type, p11_rpc_mechanism_serializers(type).get, rest))
===============================================================================

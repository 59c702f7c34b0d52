------------------------------- MODULE CallTables -------------------------------
(*****************************************************************************)
(* What the three layers a PKCS#11 call goes through do with it, one entry   *)
(* per call.                                                                 *)
(*                                                                           *)
(* The signatures of the remote calls (p11-kit/rpc-message.h): what a        *)
(* request and a response of each call are made of, a token per part, and    *)
(* the argument forms that the stubs and the dispatchers are built from.  A  *)
(* form names the argument it is about.  Tokens: u ulong, y byte, v version, *)
(* s space padded string, z string, M mechanism, aX an array of X, fX room   *)
(* for an array of X; A an attribute.                                        *)
(*                                                                           *)
(* The stubs of the RPC client (p11-kit/rpc-client.c): the call a stub       *)
(* makes, its arguments, the ones it refuses as NULL, what it answers when   *)
(* there is no server, the forms its request is written with and the forms   *)
(* the response is read with, in that order.                                 *)
(*                                                                           *)
(* The dispatchers of the RPC server (p11-kit/rpc-server.c): the function of *)
(* the module a dispatcher calls, the forms the request is read with, the    *)
(* arguments the module is given, and the forms its results are written      *)
(* with.  NULL stands for a pointer that the server does not pass on.        *)
(*                                                                           *)
(* The wrappers of the logging layer (p11-kit/log.c): the arguments one      *)
(* shows before it passes the call on, and those it shows afterwards.        *)
(*****************************************************************************)
EXTENDS TLC

Sig(request, response) == [request |-> request, response |-> response]

p11_rpc_calls == [
    C_Initialize |-> Sig(<<"ay", "y", "ay">>, <<>>),
    C_Finalize |-> Sig(<<>>, <<>>),
    C_GetInfo |-> Sig(<<>>, <<"v", "s", "u", "s", "v">>),
    C_GetSlotList |-> Sig(<<"y", "fu">>, <<"au">>),
    C_GetSlotInfo |-> Sig(<<"u">>, <<"s", "s", "u", "v", "v">>),
    C_GetTokenInfo |-> Sig(<<"u">>, 
        <<"s", "s", "s", "s", "u", "u", "u", "u", "u", "u", "u", "u", "u", "u", "u", "v", "v", "s">>),
    C_GetMechanismList |-> Sig(<<"u", "fu">>, <<"au">>),
    C_GetMechanismInfo |-> Sig(<<"u", "u">>, <<"u", "u", "u">>),
    C_InitToken |-> Sig(<<"u", "ay", "z">>, <<>>),
    C_OpenSession |-> Sig(<<"u", "u">>, <<"u">>),
    C_CloseSession |-> Sig(<<"u">>, <<>>),
    C_CloseAllSessions |-> Sig(<<"u">>, <<>>),
    C_GetSessionInfo |-> Sig(<<"u">>, <<"u", "u", "u", "u">>),
    C_InitPIN |-> Sig(<<"u", "ay">>, <<>>),
    C_SetPIN |-> Sig(<<"u", "ay", "ay">>, <<>>),
    C_GetOperationState |-> Sig(<<"u", "fy">>, <<"ay">>),
    C_SetOperationState |-> Sig(<<"u", "ay", "u", "u">>, <<>>),
    C_Login |-> Sig(<<"u", "u", "ay">>, <<>>),
    C_Logout |-> Sig(<<"u">>, <<>>),
    C_CreateObject |-> Sig(<<"u", "aA">>, <<"u">>),
    C_CopyObject |-> Sig(<<"u", "u", "aA">>, <<"u">>),
    C_DestroyObject |-> Sig(<<"u", "u">>, <<>>),
    C_GetObjectSize |-> Sig(<<"u", "u">>, <<"u">>),
    C_GetAttributeValue |-> Sig(<<"u", "u", "fA">>, <<"aA", "u">>),
    C_SetAttributeValue |-> Sig(<<"u", "u", "aA">>, <<>>),
    C_FindObjectsInit |-> Sig(<<"u", "aA">>, <<>>),
    C_FindObjects |-> Sig(<<"u", "fu">>, <<"au">>),
    C_FindObjectsFinal |-> Sig(<<"u">>, <<>>),
    C_EncryptInit |-> Sig(<<"u", "M", "u">>, <<>>),
    C_Encrypt |-> Sig(<<"u", "ay", "fy">>, <<"ay">>),
    C_EncryptUpdate |-> Sig(<<"u", "ay", "fy">>, <<"ay">>),
    C_EncryptFinal |-> Sig(<<"u", "fy">>, <<"ay">>),
    C_DecryptInit |-> Sig(<<"u", "M", "u">>, <<>>),
    C_Decrypt |-> Sig(<<"u", "ay", "fy">>, <<"ay">>),
    C_DecryptUpdate |-> Sig(<<"u", "ay", "fy">>, <<"ay">>),
    C_DecryptFinal |-> Sig(<<"u", "fy">>, <<"ay">>),
    C_DigestInit |-> Sig(<<"u", "M">>, <<>>),
    C_Digest |-> Sig(<<"u", "ay", "fy">>, <<"ay">>),
    C_DigestUpdate |-> Sig(<<"u", "ay">>, <<>>),
    C_DigestKey |-> Sig(<<"u", "u">>, <<>>),
    C_DigestFinal |-> Sig(<<"u", "fy">>, <<"ay">>),
    C_SignInit |-> Sig(<<"u", "M", "u">>, <<>>),
    C_Sign |-> Sig(<<"u", "ay", "fy">>, <<"ay">>),
    C_SignUpdate |-> Sig(<<"u", "ay">>, <<>>),
    C_SignFinal |-> Sig(<<"u", "fy">>, <<"ay">>),
    C_SignRecoverInit |-> Sig(<<"u", "M", "u">>, <<>>),
    C_SignRecover |-> Sig(<<"u", "ay", "fy">>, <<"ay">>),
    C_VerifyInit |-> Sig(<<"u", "M", "u">>, <<>>),
    C_Verify |-> Sig(<<"u", "ay", "ay">>, <<>>),
    C_VerifyUpdate |-> Sig(<<"u", "ay">>, <<>>),
    C_VerifyFinal |-> Sig(<<"u", "ay">>, <<>>),
    C_VerifyRecoverInit |-> Sig(<<"u", "M", "u">>, <<>>),
    C_VerifyRecover |-> Sig(<<"u", "ay", "fy">>, <<"ay">>),
    C_DigestEncryptUpdate |-> Sig(<<"u", "ay", "fy">>, <<"ay">>),
    C_DecryptDigestUpdate |-> Sig(<<"u", "ay", "fy">>, <<"ay">>),
    C_SignEncryptUpdate |-> Sig(<<"u", "ay", "fy">>, <<"ay">>),
    C_DecryptVerifyUpdate |-> Sig(<<"u", "ay", "fy">>, <<"ay">>),
    C_GenerateKey |-> Sig(<<"u", "M", "aA">>, <<"u">>),
    C_GenerateKeyPair |-> Sig(<<"u", "M", "aA", "aA">>, <<"u", "u">>),
    C_WrapKey |-> Sig(<<"u", "M", "u", "u", "fy">>, <<"ay">>),
    C_UnwrapKey |-> Sig(<<"u", "M", "u", "ay", "aA">>, <<"u">>),
    C_DeriveKey |-> Sig(<<"u", "M", "u", "aA">>, <<"u">>),
    C_SeedRandom |-> Sig(<<"u", "ay">>, <<>>),
    C_GenerateRandom |-> Sig(<<"u", "fy">>, <<"ay">>),
    C_WaitForSlotEvent |-> Sig(<<"u">>, <<"u">>),
    C_LoginUser |-> Sig(<<"u", "u", "ay", "ay">>, <<>>),
    C_SessionCancel |-> Sig(<<"u", "u">>, <<>>),
    C_MessageEncryptInit |-> Sig(<<"u", "M", "u">>, <<>>),
    C_EncryptMessage |-> Sig(<<"u", "ay", "ay", "ay", "fy">>, <<"ay">>),
    C_EncryptMessageBegin |-> Sig(<<"u", "ay", "ay">>, <<>>),
    C_EncryptMessageNext |-> Sig(<<"u", "ay", "ay", "fy", "u">>, <<"ay">>),
    C_MessageEncryptFinal |-> Sig(<<"u">>, <<>>),
    C_MessageDecryptInit |-> Sig(<<"u", "M", "u">>, <<>>),
    C_DecryptMessage |-> Sig(<<"u", "ay", "ay", "ay", "fy">>, <<"ay">>),
    C_DecryptMessageBegin |-> Sig(<<"u", "ay", "ay">>, <<>>),
    C_DecryptMessageNext |-> Sig(<<"u", "ay", "ay", "fy", "u">>, <<"ay">>),
    C_MessageDecryptFinal |-> Sig(<<"u">>, <<>>),
    C_MessageSignInit |-> Sig(<<"u", "M", "u">>, <<>>),
    C_SignMessage |-> Sig(<<"u", "ay", "ay", "fy">>, <<"ay">>),
    C_SignMessageBegin |-> Sig(<<"u", "ay">>, <<>>),
    C_SignMessageNext |-> Sig(<<"u", "ay", "ay", "y", "fy">>, <<"ay">>),
    C_MessageSignFinal |-> Sig(<<"u">>, <<>>),
    C_MessageVerifyInit |-> Sig(<<"u", "M", "u">>, <<>>),
    C_VerifyMessage |-> Sig(<<"u", "ay", "ay", "ay">>, <<>>),
    C_VerifyMessageBegin |-> Sig(<<"u", "ay">>, <<>>),
    C_VerifyMessageNext |-> Sig(<<"u", "ay", "ay", "ay">>, <<>>),
    C_MessageVerifyFinal |-> Sig(<<"u">>, <<>>),
    C_InitToken2 |-> Sig(<<"u", "ay", "s">>, <<>>)]

Form(kind, arg) == [kind |-> kind, arg |-> arg]

BYTE(arg) == Form("BYTE", arg)
ULONG(arg) == Form("ULONG", arg)
ZERO_STRING(arg) == Form("ZERO_STRING", arg)
SPACE_STRING(arg) == Form("SPACE_STRING", arg)
BYTE_BUFFER(arg) == Form("BYTE_BUFFER", arg)
BYTE_ARRAY(arg) == Form("BYTE_ARRAY", arg)
OPTIONAL_BUFFER(arg) == Form("OPTIONAL_BUFFER", arg)
OPTIONAL_ARRAY(arg) == Form("OPTIONAL_ARRAY", arg)
EXPECTED(arg) == Form("EXPECTED", arg)
ULONG_BUFFER(arg) == Form("ULONG_BUFFER", arg)
ULONG_ARRAY(arg) == Form("ULONG_ARRAY", arg)
ATTRIBUTE_BUFFER(arg) == Form("ATTRIBUTE_BUFFER", arg)
ATTRIBUTE_ARRAY(arg) == Form("ATTRIBUTE_ARRAY", arg)
MECHANISM(arg) == Form("MECHANISM", arg)
MECHANISM_TYPE(arg) == Form("MECHANISM_TYPE", arg)
MECHANISM_TYPE_ARRAY(arg) == Form("MECHANISM_TYPE_ARRAY", arg)
INFO(arg) == Form("INFO", arg)
SLOT_INFO(arg) == Form("SLOT_INFO", arg)
TOKEN_INFO(arg) == Form("TOKEN_INFO", arg)
SESSION_INFO(arg) == Form("SESSION_INFO", arg)
MECHANISM_INFO(arg) == Form("MECHANISM_INFO", arg)

\* A field of an information structure: a number, a version, or a string of n bytes.
U(field) == [token |-> "u", field |-> field, length |-> 0]
V(field) == [token |-> "v", field |-> field, length |-> 0]
S(field, n) == [token |-> "s", field |-> field, length |-> n]

(*****************************************************************************)
(* The prototypes of the PKCS#11 calls as the library passes them between    *)
(* its layers (common/pkcs11i.h): the kind of each argument after the        *)
(* function list itself.  A pointer and its length count as one argument.    *)
(*                                                                           *)
(*   ulong, byte         a number                                            *)
(*   bytes, label        data the caller passes in                           *)
(*   attrs, mechanism    a template, a mechanism with its parameter          *)
(*   mechanism_type      a mechanism named by its type alone                 *)
(*   buffer, random      room for bytes                                      *)
(*   optional            the same, where the caller may want no result       *)
(*   ulongs, handles, mechanisms   room for a list                           *)
(*   query               a template whose values the module fills in         *)
(*   result, *info       a number, or a structure, that the module returns   *)
(*   pointer             a pointer the module keeps or ignores               *)
(*****************************************************************************)
SlotCalls == [
    C_Finalize |-> <<"pointer">>,
    C_GetInfo |-> <<"info">>,
    C_GetSlotList |-> <<"byte", "ulongs">>,
    C_GetSlotInfo |-> <<"ulong", "slot_info">>,
    C_GetTokenInfo |-> <<"ulong", "token_info">>,
    C_GetMechanismList |-> <<"ulong", "mechanisms">>,
    C_GetMechanismInfo |-> <<"ulong", "mechanism_type", "mechanism_info">>,
    C_InitToken |-> <<"ulong", "bytes", "label">>]

SessionCalls == [
    C_InitPIN |-> <<"ulong", "bytes">>,
    C_SetPIN |-> <<"ulong", "bytes", "bytes">>,
    C_OpenSession |-> <<"ulong", "ulong", "pointer", "pointer", "result">>,
    C_CloseSession |-> <<"ulong">>,
    C_CloseAllSessions |-> <<"ulong">>,
    C_GetSessionInfo |-> <<"ulong", "session_info">>,
    C_GetOperationState |-> <<"ulong", "buffer">>,
    C_SetOperationState |-> <<"ulong", "bytes", "ulong", "ulong">>,
    C_Login |-> <<"ulong", "ulong", "bytes">>,
    C_Logout |-> <<"ulong">>]

ObjectCalls == [
    C_CreateObject |-> <<"ulong", "attrs", "result">>,
    C_CopyObject |-> <<"ulong", "ulong", "attrs", "result">>,
    C_DestroyObject |-> <<"ulong", "ulong">>,
    C_GetObjectSize |-> <<"ulong", "ulong", "result">>,
    C_GetAttributeValue |-> <<"ulong", "ulong", "query">>,
    C_SetAttributeValue |-> <<"ulong", "ulong", "attrs">>,
    C_FindObjectsInit |-> <<"ulong", "attrs">>,
    C_FindObjects |-> <<"ulong", "handles">>,
    C_FindObjectsFinal |-> <<"ulong">>]

CipherCalls == [
    C_EncryptInit |-> <<"ulong", "mechanism", "ulong">>,
    C_Encrypt |-> <<"ulong", "bytes", "buffer">>,
    C_EncryptUpdate |-> <<"ulong", "bytes", "buffer">>,
    C_EncryptFinal |-> <<"ulong", "buffer">>,
    C_DecryptInit |-> <<"ulong", "mechanism", "ulong">>,
    C_Decrypt |-> <<"ulong", "bytes", "buffer">>,
    C_DecryptUpdate |-> <<"ulong", "bytes", "buffer">>,
    C_DecryptFinal |-> <<"ulong", "buffer">>]

DigestCalls == [
    C_DigestInit |-> <<"ulong", "mechanism">>,
    C_Digest |-> <<"ulong", "bytes", "buffer">>,
    C_DigestUpdate |-> <<"ulong", "bytes">>,
    C_DigestKey |-> <<"ulong", "ulong">>,
    C_DigestFinal |-> <<"ulong", "buffer">>]

SignCalls == [
    C_SignInit |-> <<"ulong", "mechanism", "ulong">>,
    C_Sign |-> <<"ulong", "bytes", "buffer">>,
    C_SignUpdate |-> <<"ulong", "bytes">>,
    C_SignFinal |-> <<"ulong", "buffer">>,
    C_SignRecoverInit |-> <<"ulong", "mechanism", "ulong">>,
    C_SignRecover |-> <<"ulong", "bytes", "buffer">>]

VerifyCalls == [
    C_VerifyInit |-> <<"ulong", "mechanism", "ulong">>,
    C_Verify |-> <<"ulong", "bytes", "bytes">>,
    C_VerifyUpdate |-> <<"ulong", "bytes">>,
    C_VerifyFinal |-> <<"ulong", "bytes">>,
    C_VerifyRecoverInit |-> <<"ulong", "mechanism", "ulong">>,
    C_VerifyRecover |-> <<"ulong", "bytes", "buffer">>]

DualCalls == [
    C_DigestEncryptUpdate |-> <<"ulong", "bytes", "buffer">>,
    C_DecryptDigestUpdate |-> <<"ulong", "bytes", "buffer">>,
    C_SignEncryptUpdate |-> <<"ulong", "bytes", "buffer">>,
    C_DecryptVerifyUpdate |-> <<"ulong", "bytes", "buffer">>]

KeyCalls == [
    C_GenerateKey |-> <<"ulong", "mechanism", "attrs", "result">>,
    C_GenerateKeyPair |-> <<"ulong", "mechanism", "attrs", "attrs", "result", "result">>,
    C_WrapKey |-> <<"ulong", "mechanism", "ulong", "ulong", "buffer">>,
    C_UnwrapKey |-> <<"ulong", "mechanism", "ulong", "bytes", "attrs", "result">>,
    C_DeriveKey |-> <<"ulong", "mechanism", "ulong", "attrs", "result">>,
    C_SeedRandom |-> <<"ulong", "bytes">>,
    C_GenerateRandom |-> <<"ulong", "random">>]

EventCalls == [
    C_WaitForSlotEvent |-> <<"ulong", "result", "pointer">>]

LoginCalls == [
    C_LoginUser |-> <<"ulong", "ulong", "bytes", "bytes">>,
    C_SessionCancel |-> <<"ulong", "ulong">>]

MessageEncryptCalls == [
    C_MessageEncryptInit |-> <<"ulong", "mechanism", "ulong">>,
    C_EncryptMessage |-> <<"ulong", "bytes", "bytes", "bytes", "buffer">>,
    C_EncryptMessageBegin |-> <<"ulong", "bytes", "bytes">>,
    C_EncryptMessageNext |-> <<"ulong", "bytes", "bytes", "buffer", "ulong">>,
    C_MessageEncryptFinal |-> <<"ulong">>]

MessageDecryptCalls == [
    C_MessageDecryptInit |-> <<"ulong", "mechanism", "ulong">>,
    C_DecryptMessage |-> <<"ulong", "bytes", "bytes", "bytes", "buffer">>,
    C_DecryptMessageBegin |-> <<"ulong", "bytes", "bytes">>,
    C_DecryptMessageNext |-> <<"ulong", "bytes", "bytes", "buffer", "ulong">>,
    C_MessageDecryptFinal |-> <<"ulong">>]

MessageSignCalls == [
    C_MessageSignInit |-> <<"ulong", "mechanism", "ulong">>,
    C_SignMessage |-> <<"ulong", "bytes", "bytes", "buffer">>,
    C_SignMessageBegin |-> <<"ulong", "bytes">>,
    C_SignMessageNext |-> <<"ulong", "bytes", "bytes", "optional">>,
    C_MessageSignFinal |-> <<"ulong">>]

MessageVerifyCalls == [
    C_MessageVerifyInit |-> <<"ulong", "mechanism", "ulong">>,
    C_VerifyMessage |-> <<"ulong", "bytes", "bytes", "bytes">>,
    C_VerifyMessageBegin |-> <<"ulong", "bytes">>,
    C_VerifyMessageNext |-> <<"ulong", "bytes", "bytes", "bytes">>,
    C_MessageVerifyFinal |-> <<"ulong">>]

CK_X_FUNCTION_LIST ==
    SlotCalls @@ SessionCalls @@ ObjectCalls @@ CipherCalls @@ DigestCalls
        @@ SignCalls @@ VerifyCalls @@ DualCalls @@ KeyCalls @@ EventCalls
        @@ LoginCalls @@ MessageEncryptCalls @@ MessageDecryptCalls
        @@ MessageSignCalls @@ MessageVerifyCalls

\* The information structures, by their fields (common/pkcs11.h).
CK_INFO == {"cryptokiVersion", "manufacturerID", "flags", "libraryDescription", "libraryVersion"}
CK_SLOT_INFO == {"slotDescription", "manufacturerID", "flags", "hardwareVersion", "firmwareVersion"}
CK_TOKEN_INFO == {
    "label", "manufacturerID", "model", "serialNumber", "flags", "ulMaxSessionCount", "ulSessionCount",
    "ulMaxRwSessionCount", "ulRwSessionCount", "ulMaxPinLen", "ulMinPinLen", "ulTotalPublicMemory",
    "ulFreePublicMemory", "ulTotalPrivateMemory", "ulFreePrivateMemory", "hardwareVersion",
    "firmwareVersion", "utcTime"}
CK_SESSION_INFO == {"slotID", "state", "flags", "ulDeviceError"}
CK_MECHANISM_INFO == {"ulMinKeySize", "ulMaxKeySize", "flags"}

InfoFields == [
    info |-> CK_INFO, slot_info |-> CK_SLOT_INFO, token_info |-> CK_TOKEN_INFO,
    session_info |-> CK_SESSION_INFO, mechanism_info |-> CK_MECHANISM_INFO]

Stub(call, params, needed, none, in, out) ==
    [call |-> call, params |-> params, needed |-> needed, none |-> none, in |-> in, out |-> out]

\* How the information structures are read from a response.
proto_read_info ==
    <<V("cryptokiVersion"), S("manufacturerID", 32), U("flags"), S("libraryDescription", 32),
      V("libraryVersion")>>

proto_read_slot_info ==
    <<S("slotDescription", 64), S("manufacturerID", 32), U("flags"), V("hardwareVersion"),
      V("firmwareVersion")>>

proto_read_token_info ==
    <<S("label", 32), S("manufacturerID", 32), S("model", 16), S("serialNumber", 16), U("flags"),
      U("ulMaxSessionCount"), U("ulSessionCount"), U("ulMaxRwSessionCount"), U("ulRwSessionCount"),
      U("ulMaxPinLen"), U("ulMinPinLen"), U("ulTotalPublicMemory"), U("ulFreePublicMemory"),
      U("ulTotalPrivateMemory"), U("ulFreePrivateMemory"), V("hardwareVersion"), V("firmwareVersion"),
      S("utcTime", 16)>>

proto_read_mechanism_info == <<U("ulMinKeySize"), U("ulMaxKeySize"), U("flags")>>

proto_read_sesssion_info == <<U("slotID"), U("state"), U("flags"), U("ulDeviceError")>>

InfoReader == [
    INFO |-> proto_read_info, SLOT_INFO |-> proto_read_slot_info, TOKEN_INFO |-> proto_read_token_info,
    SESSION_INFO |-> proto_read_sesssion_info, MECHANISM_INFO |-> proto_read_mechanism_info]

NoSession == "SESSION_HANDLE_INVALID"
NoSlot == "SLOT_ID_INVALID"
NoDevice == "DEVICE_REMOVED"
\* C_GetInfo answers with a structure of its own, C_GetSlotList with an empty list.
StandIn == "OK"

\* With protocol version 0 the label is sent as a string, later as 32 bytes.
C_InitToken(version) ==
    IF version = 0
    THEN Stub("C_InitToken", <<"slot_id", "pin", "label">>, {}, NoSlot,
              <<ULONG("slot_id"), BYTE_ARRAY("pin"), ZERO_STRING("label")>>, <<>>)
    ELSE Stub("C_InitToken2", <<"slot_id", "pin", "label">>, {}, NoSlot,
              <<ULONG("slot_id"), BYTE_ARRAY("pin"), SPACE_STRING("label")>>, <<>>)

SlotStubs(version) == [
    C_InitToken |-> C_InitToken(version),
    C_GetInfo |-> Stub("C_GetInfo", <<"info">>, {"info"}, StandIn, <<>>, <<INFO("info")>>),
    C_GetSlotList |-> Stub("C_GetSlotList", <<"token_present", "slot_list">>, {"slot_list"}, StandIn,
            <<BYTE("token_present"), ULONG_BUFFER("slot_list")>>, <<ULONG_ARRAY("slot_list")>>),
    C_GetSlotInfo |-> Stub("C_GetSlotInfo", <<"slot_id", "info">>, {"info"}, NoSlot,
            <<ULONG("slot_id")>>, <<SLOT_INFO("info")>>),
    C_GetTokenInfo |-> Stub("C_GetTokenInfo", <<"slot_id", "info">>, {"info"}, NoSlot,
            <<ULONG("slot_id")>>, <<TOKEN_INFO("info")>>),
    C_GetMechanismList |-> Stub("C_GetMechanismList", <<"slot_id", "mechanism_list">>,
            {"mechanism_list"}, NoSlot, <<ULONG("slot_id"), ULONG_BUFFER("mechanism_list")>>,
            <<MECHANISM_TYPE_ARRAY("mechanism_list")>>),
    C_GetMechanismInfo |-> Stub("C_GetMechanismInfo", <<"slot_id", "type", "info">>, {"info"}, NoSlot,
            <<ULONG("slot_id"), MECHANISM_TYPE("type")>>, <<MECHANISM_INFO("info")>>),
    C_WaitForSlotEvent |-> Stub("C_WaitForSlotEvent", <<"flags", "slot", "reserved">>, {"slot"},
            NoDevice, <<ULONG("flags")>>, <<ULONG("slot")>>)]

SessionStubs == [
    C_OpenSession |-> Stub("C_OpenSession", <<"slot_id", "flags", "user_data", "callback", "session">>,
            {"session"}, NoSlot, <<ULONG("slot_id"), ULONG("flags")>>, <<ULONG("session")>>),
    C_CloseSession |-> Stub("C_CloseSession", <<"session">>, {}, NoSession, <<ULONG("session")>>, <<>>),
    C_CloseAllSessions |-> Stub("C_CloseAllSessions", <<"slot_id">>, {}, NoSlot, <<ULONG("slot_id")>>,
            <<>>),
    C_GetSessionInfo |-> Stub("C_GetSessionInfo", <<"session", "info">>, {"info"}, NoSession,
            <<ULONG("session")>>, <<SESSION_INFO("info")>>),
    C_InitPIN |-> Stub("C_InitPIN", <<"session", "pin">>, {}, NoSession,
            <<ULONG("session"), BYTE_ARRAY("pin")>>, <<>>),
    C_SetPIN |-> Stub("C_SetPIN", <<"session", "old_pin", "new_pin">>, {}, NoSession,
            <<ULONG("session"), BYTE_ARRAY("old_pin"), BYTE_ARRAY("new_pin")>>, <<>>),
    C_GetOperationState |-> Stub("C_GetOperationState", <<"session", "operation_state">>,
            {"operation_state"}, NoSession, <<ULONG("session"), BYTE_BUFFER("operation_state")>>,
            <<BYTE_ARRAY("operation_state")>>),
    C_SetOperationState |-> Stub("C_SetOperationState",
            <<"session", "operation_state", "encryption_key", "authentication_key">>, {}, NoSession,
            <<ULONG("session"), BYTE_ARRAY("operation_state"), ULONG("encryption_key"), ULONG("authentication_key")>>,
            <<>>),
    C_Login |-> Stub("C_Login", <<"session", "user_type", "pin">>, {}, NoSession,
            <<ULONG("session"), ULONG("user_type"), BYTE_ARRAY("pin")>>, <<>>),
    C_Logout |-> Stub("C_Logout", <<"session">>, {}, NoSession, <<ULONG("session")>>, <<>>)]

ObjectStubs == [
    C_CreateObject |-> Stub("C_CreateObject", <<"session", "template", "new_object">>, {"new_object"},
            NoSession, <<ULONG("session"), ATTRIBUTE_ARRAY("template")>>, <<ULONG("new_object")>>),
    C_CopyObject |-> Stub("C_CopyObject", <<"session", "object", "template", "new_object">>,
            {"new_object"}, NoSession,
            <<ULONG("session"), ULONG("object"), ATTRIBUTE_ARRAY("template")>>, <<ULONG("new_object")>>),
    C_DestroyObject |-> Stub("C_DestroyObject", <<"session", "object">>, {}, NoSession,
            <<ULONG("session"), ULONG("object")>>, <<>>),
    C_GetObjectSize |-> Stub("C_GetObjectSize", <<"session", "object", "size">>, {"size"}, NoSession,
            <<ULONG("session"), ULONG("object")>>, <<ULONG("size")>>),
    C_GetAttributeValue |-> Stub("C_GetAttributeValue", <<"session", "object", "template">>, {},
            NoSession, <<ULONG("session"), ULONG("object"), ATTRIBUTE_BUFFER("template")>>,
            <<ATTRIBUTE_ARRAY("template")>>),
    C_SetAttributeValue |-> Stub("C_SetAttributeValue", <<"session", "object", "template">>, {},
            NoSession, <<ULONG("session"), ULONG("object"), ATTRIBUTE_ARRAY("template")>>, <<>>),
    C_FindObjectsInit |-> Stub("C_FindObjectsInit", <<"session", "template">>, {}, NoSession,
            <<ULONG("session"), ATTRIBUTE_ARRAY("template")>>, <<>>),
    C_FindObjects |-> Stub("C_FindObjects", <<"session", "objects">>, {"objects"}, NoSession,
            <<ULONG("session"), ULONG_BUFFER("objects")>>, <<ULONG_ARRAY("objects")>>),
    C_FindObjectsFinal |-> Stub("C_FindObjectsFinal", <<"session">>, {}, NoSession,
            <<ULONG("session")>>, <<>>)]

CipherStubs == [
    C_EncryptInit |-> Stub("C_EncryptInit", <<"session", "mechanism", "key">>, {}, NoSession,
            <<ULONG("session"), MECHANISM("mechanism"), ULONG("key")>>, <<>>),
    C_Encrypt |-> Stub("C_Encrypt", <<"session", "data", "encrypted_data">>, {"encrypted_data"},
            NoSession, <<ULONG("session"), BYTE_ARRAY("data"), BYTE_BUFFER("encrypted_data")>>,
            <<BYTE_ARRAY("encrypted_data")>>),
    C_EncryptUpdate |-> Stub("C_EncryptUpdate", <<"session", "part", "encrypted_part">>,
            {"encrypted_part"}, NoSession,
            <<ULONG("session"), BYTE_ARRAY("part"), BYTE_BUFFER("encrypted_part")>>,
            <<BYTE_ARRAY("encrypted_part")>>),
    C_EncryptFinal |-> Stub("C_EncryptFinal", <<"session", "last_part">>, {"last_part"}, NoSession,
            <<ULONG("session"), BYTE_BUFFER("last_part")>>, <<BYTE_ARRAY("last_part")>>),
    C_DecryptInit |-> Stub("C_DecryptInit", <<"session", "mechanism", "key">>, {}, NoSession,
            <<ULONG("session"), MECHANISM("mechanism"), ULONG("key")>>, <<>>),
    C_Decrypt |-> Stub("C_Decrypt", <<"session", "enc_data", "data">>, {"data"}, NoSession,
            <<ULONG("session"), BYTE_ARRAY("enc_data"), BYTE_BUFFER("data")>>, <<BYTE_ARRAY("data")>>),
    C_DecryptUpdate |-> Stub("C_DecryptUpdate", <<"session", "enc_part", "part">>, {"part"}, NoSession,
            <<ULONG("session"), BYTE_ARRAY("enc_part"), BYTE_BUFFER("part")>>, <<BYTE_ARRAY("part")>>),
    C_DecryptFinal |-> Stub("C_DecryptFinal", <<"session", "last_part">>, {"last_part"}, NoSession,
            <<ULONG("session"), BYTE_BUFFER("last_part")>>, <<BYTE_ARRAY("last_part")>>)]

DigestStubs == [
    C_DigestInit |-> Stub("C_DigestInit", <<"session", "mechanism">>, {}, NoSession,
            <<ULONG("session"), MECHANISM("mechanism")>>, <<>>),
    C_Digest |-> Stub("C_Digest", <<"session", "data", "digest">>, {"digest"}, NoSession,
            <<ULONG("session"), BYTE_ARRAY("data"), BYTE_BUFFER("digest")>>, <<BYTE_ARRAY("digest")>>),
    C_DigestUpdate |-> Stub("C_DigestUpdate", <<"session", "part">>, {}, NoSession,
            <<ULONG("session"), BYTE_ARRAY("part")>>, <<>>),
    C_DigestKey |-> Stub("C_DigestKey", <<"session", "key">>, {}, NoSession,
            <<ULONG("session"), ULONG("key")>>, <<>>),
    C_DigestFinal |-> Stub("C_DigestFinal", <<"session", "digest">>, {"digest"}, NoSession,
            <<ULONG("session"), BYTE_BUFFER("digest")>>, <<BYTE_ARRAY("digest")>>)]

SignStubs == [
    C_SignInit |-> Stub("C_SignInit", <<"session", "mechanism", "key">>, {}, NoSession,
            <<ULONG("session"), MECHANISM("mechanism"), ULONG("key")>>, <<>>),
    C_Sign |-> Stub("C_Sign", <<"session", "data", "signature">>, {"signature"}, NoSession,
            <<ULONG("session"), BYTE_ARRAY("data"), BYTE_BUFFER("signature")>>,
            <<BYTE_ARRAY("signature")>>),
    C_SignUpdate |-> Stub("C_SignUpdate", <<"session", "part">>, {}, NoSession,
            <<ULONG("session"), BYTE_ARRAY("part")>>, <<>>),
    C_SignFinal |-> Stub("C_SignFinal", <<"session", "signature">>, {"signature"}, NoSession,
            <<ULONG("session"), BYTE_BUFFER("signature")>>, <<BYTE_ARRAY("signature")>>),
    C_SignRecoverInit |-> Stub("C_SignRecoverInit", <<"session", "mechanism", "key">>, {}, NoSession,
            <<ULONG("session"), MECHANISM("mechanism"), ULONG("key")>>, <<>>),
    C_SignRecover |-> Stub("C_SignRecover", <<"session", "data", "signature">>, {"signature"},
            NoSession, <<ULONG("session"), BYTE_ARRAY("data"), BYTE_BUFFER("signature")>>,
            <<BYTE_ARRAY("signature")>>)]

VerifyStubs == [
    C_VerifyInit |-> Stub("C_VerifyInit", <<"session", "mechanism", "key">>, {}, NoSession,
            <<ULONG("session"), MECHANISM("mechanism"), ULONG("key")>>, <<>>),
    C_Verify |-> Stub("C_Verify", <<"session", "data", "signature">>, {}, NoSession,
            <<ULONG("session"), BYTE_ARRAY("data"), BYTE_ARRAY("signature")>>, <<>>),
    C_VerifyUpdate |-> Stub("C_VerifyUpdate", <<"session", "part">>, {}, NoSession,
            <<ULONG("session"), BYTE_ARRAY("part")>>, <<>>),
    C_VerifyFinal |-> Stub("C_VerifyFinal", <<"session", "signature">>, {}, NoSession,
            <<ULONG("session"), BYTE_ARRAY("signature")>>, <<>>),
    C_VerifyRecoverInit |-> Stub("C_VerifyRecoverInit", <<"session", "mechanism", "key">>, {},
            NoSession, <<ULONG("session"), MECHANISM("mechanism"), ULONG("key")>>, <<>>),
    C_VerifyRecover |-> Stub("C_VerifyRecover", <<"session", "signature", "data">>, {"data"}, NoSession,
            <<ULONG("session"), BYTE_ARRAY("signature"), BYTE_BUFFER("data")>>, <<BYTE_ARRAY("data")>>)]

DualStubs == [
    C_DigestEncryptUpdate |-> Stub("C_DigestEncryptUpdate", <<"session", "part", "enc_part">>,
            {"enc_part"}, NoSession, <<ULONG("session"), BYTE_ARRAY("part"), BYTE_BUFFER("enc_part")>>,
            <<BYTE_ARRAY("enc_part")>>),
    C_DecryptDigestUpdate |-> Stub("C_DecryptDigestUpdate", <<"session", "enc_part", "part">>, {"part"},
            NoSession, <<ULONG("session"), BYTE_ARRAY("enc_part"), BYTE_BUFFER("part")>>,
            <<BYTE_ARRAY("part")>>),
    C_SignEncryptUpdate |-> Stub("C_SignEncryptUpdate", <<"session", "part", "enc_part">>, {"enc_part"},
            NoSession, <<ULONG("session"), BYTE_ARRAY("part"), BYTE_BUFFER("enc_part")>>,
            <<BYTE_ARRAY("enc_part")>>),
    C_DecryptVerifyUpdate |-> Stub("C_DecryptVerifyUpdate", <<"session", "enc_part", "part">>, {"part"},
            NoSession, <<ULONG("session"), BYTE_ARRAY("enc_part"), BYTE_BUFFER("part")>>,
            <<BYTE_ARRAY("part")>>)]

KeyStubs == [
    C_GenerateKey |-> Stub("C_GenerateKey", <<"session", "mechanism", "template", "key">>, {},
            NoSession, <<ULONG("session"), MECHANISM("mechanism"), ATTRIBUTE_ARRAY("template")>>,
            <<ULONG("key")>>),
    C_GenerateKeyPair |-> Stub("C_GenerateKeyPair",
            <<"session", "mechanism", "pub_template", "priv_template", "pub_key", "priv_key">>, {},
            NoSession,
            <<ULONG("session"), MECHANISM("mechanism"), ATTRIBUTE_ARRAY("pub_template"), ATTRIBUTE_ARRAY("priv_template")>>,
            <<ULONG("pub_key"), ULONG("priv_key")>>),
    C_WrapKey |-> Stub("C_WrapKey", <<"session", "mechanism", "wrapping_key", "key", "wrapped_key">>,
            {"wrapped_key"}, NoSession,
            <<ULONG("session"), MECHANISM("mechanism"), ULONG("wrapping_key"), ULONG("key"), BYTE_BUFFER("wrapped_key")>>,
            <<BYTE_ARRAY("wrapped_key")>>),
    C_UnwrapKey |-> Stub("C_UnwrapKey",
            <<"session", "mechanism", "unwrapping_key", "wrapped_key", "template", "key">>, {},
            NoSession,
            <<ULONG("session"), MECHANISM("mechanism"), ULONG("unwrapping_key"), BYTE_ARRAY("wrapped_key"), ATTRIBUTE_ARRAY("template")>>,
            <<ULONG("key")>>),
    C_DeriveKey |-> Stub("C_DeriveKey", <<"session", "mechanism", "base_key", "template", "key">>, {},
            NoSession,
            <<ULONG("session"), MECHANISM("mechanism"), ULONG("base_key"), ATTRIBUTE_ARRAY("template")>>,
            <<ULONG("key")>>),
    C_SeedRandom |-> Stub("C_SeedRandom", <<"session", "seed">>, {}, NoSession,
            <<ULONG("session"), BYTE_ARRAY("seed")>>, <<>>),
    C_GenerateRandom |-> Stub("C_GenerateRandom", <<"session", "random_data">>, {}, NoSession,
            <<ULONG("session"), BYTE_BUFFER("random_data")>>, <<BYTE_ARRAY("random_data")>>)]

LoginStubs == [
    C_LoginUser |-> Stub("C_LoginUser", <<"session", "user_type", "pin", "username">>, {}, NoSession,
            <<ULONG("session"), ULONG("user_type"), BYTE_ARRAY("pin"), BYTE_ARRAY("username")>>, <<>>),
    C_SessionCancel |-> Stub("C_SessionCancel", <<"session", "flags">>, {}, NoSession,
            <<ULONG("session"), ULONG("flags")>>, <<>>)]

MessageEncryptStubs == [
    C_MessageEncryptInit |-> Stub("C_MessageEncryptInit", <<"session", "mechanism", "key">>, {},
            NoSession, <<ULONG("session"), MECHANISM("mechanism"), ULONG("key")>>, <<>>),
    C_EncryptMessage |-> Stub("C_EncryptMessage",
            <<"session", "parameter", "associated_data", "plaintext", "ciphertext">>, {"ciphertext"},
            NoSession,
            <<ULONG("session"), BYTE_ARRAY("parameter"), BYTE_ARRAY("associated_data"), BYTE_ARRAY("plaintext"), BYTE_BUFFER("ciphertext")>>,
            <<BYTE_ARRAY("ciphertext")>>),
    C_EncryptMessageBegin |-> Stub("C_EncryptMessageBegin",
            <<"session", "parameter", "associated_data">>, {}, NoSession,
            <<ULONG("session"), BYTE_ARRAY("parameter"), BYTE_ARRAY("associated_data")>>, <<>>),
    C_EncryptMessageNext |-> Stub("C_EncryptMessageNext",
            <<"session", "parameter", "plaintext_part", "ciphertext_part", "flags">>, {}, NoSession,
            <<ULONG("session"), BYTE_ARRAY("parameter"), BYTE_ARRAY("plaintext_part"), BYTE_BUFFER("ciphertext_part"), ULONG("flags")>>,
            <<BYTE_ARRAY("ciphertext_part")>>),
    C_MessageEncryptFinal |-> Stub("C_MessageEncryptFinal", <<"session">>, {}, NoSession,
            <<ULONG("session")>>, <<>>)]

MessageDecryptStubs == [
    C_MessageDecryptInit |-> Stub("C_MessageDecryptInit", <<"session", "mechanism", "key">>, {},
            NoSession, <<ULONG("session"), MECHANISM("mechanism"), ULONG("key")>>, <<>>),
    C_DecryptMessage |-> Stub("C_DecryptMessage",
            <<"session", "parameter", "associated_data", "ciphertext", "plaintext">>, {"plaintext"},
            NoSession,
            <<ULONG("session"), BYTE_ARRAY("parameter"), BYTE_ARRAY("associated_data"), BYTE_ARRAY("ciphertext"), BYTE_BUFFER("plaintext")>>,
            <<BYTE_ARRAY("plaintext")>>),
    C_DecryptMessageBegin |-> Stub("C_DecryptMessageBegin",
            <<"session", "parameter", "associated_data">>, {}, NoSession,
            <<ULONG("session"), BYTE_ARRAY("parameter"), BYTE_ARRAY("associated_data")>>, <<>>),
    C_DecryptMessageNext |-> Stub("C_DecryptMessageNext",
            <<"session", "parameter", "ciphertext_part", "plaintext_part", "flags">>, {}, NoSession,
            <<ULONG("session"), BYTE_ARRAY("parameter"), BYTE_ARRAY("ciphertext_part"), BYTE_BUFFER("plaintext_part"), ULONG("flags")>>,
            <<BYTE_ARRAY("plaintext_part")>>),
    C_MessageDecryptFinal |-> Stub("C_MessageDecryptFinal", <<"session">>, {}, NoSession,
            <<ULONG("session")>>, <<>>)]

MessageSignStubs == [
    C_MessageSignInit |-> Stub("C_MessageSignInit", <<"session", "mechanism", "key">>, {}, NoSession,
            <<ULONG("session"), MECHANISM("mechanism"), ULONG("key")>>, <<>>),
    C_SignMessage |-> Stub("C_SignMessage", <<"session", "parameter", "data", "signature">>,
            {"signature"}, NoSession,
            <<ULONG("session"), BYTE_ARRAY("parameter"), BYTE_ARRAY("data"), BYTE_BUFFER("signature")>>,
            <<BYTE_ARRAY("signature")>>),
    C_SignMessageBegin |-> Stub("C_SignMessageBegin", <<"session", "parameter">>, {}, NoSession,
            <<ULONG("session"), BYTE_ARRAY("parameter")>>, <<>>),
    C_SignMessageNext |-> Stub("C_SignMessageNext", <<"session", "parameter", "data", "signature">>, {},
            NoSession,
            <<ULONG("session"), BYTE_ARRAY("parameter"), BYTE_ARRAY("data"), EXPECTED("signature"), OPTIONAL_BUFFER("signature")>>,
            <<OPTIONAL_ARRAY("signature")>>),
    C_MessageSignFinal |-> Stub("C_MessageSignFinal", <<"session">>, {}, NoSession,
            <<ULONG("session")>>, <<>>)]

MessageVerifyStubs == [
    C_MessageVerifyInit |-> Stub("C_MessageVerifyInit", <<"session", "mechanism", "key">>, {},
            NoSession, <<ULONG("session"), MECHANISM("mechanism"), ULONG("key")>>, <<>>),
    C_VerifyMessage |-> Stub("C_VerifyMessage", <<"session", "parameter", "data", "signature">>, {},
            NoSession,
            <<ULONG("session"), BYTE_ARRAY("parameter"), BYTE_ARRAY("data"), BYTE_ARRAY("signature")>>,
            <<>>),
    C_VerifyMessageBegin |-> Stub("C_VerifyMessageBegin", <<"session", "parameter">>, {}, NoSession,
            <<ULONG("session"), BYTE_ARRAY("parameter")>>, <<>>),
    C_VerifyMessageNext |-> Stub("C_VerifyMessageNext", <<"session", "parameter", "data", "signature">>,
            {}, NoSession,
            <<ULONG("session"), BYTE_ARRAY("parameter"), BYTE_ARRAY("data"), BYTE_ARRAY("signature")>>,
            <<>>),
    C_MessageVerifyFinal |-> Stub("C_MessageVerifyFinal", <<"session">>, {}, NoSession,
            <<ULONG("session")>>, <<>>)]

rpc_functions(version) ==
    SlotStubs(version) @@ SessionStubs @@ ObjectStubs @@ CipherStubs @@ DigestStubs
        @@ SignStubs @@ VerifyStubs @@ DualStubs @@ KeyStubs @@ LoginStubs
        @@ MessageEncryptStubs @@ MessageDecryptStubs @@ MessageSignStubs
        @@ MessageVerifyStubs
---------------------------------------------------------------------------------
\* How the information structures are written to a response.
proto_write_info ==
    <<V("cryptokiVersion"), S("manufacturerID", 32), U("flags"), S("libraryDescription", 32),
      V("libraryVersion")>>

proto_write_slot_info ==
    <<S("slotDescription", 64), S("manufacturerID", 32), U("flags"), V("hardwareVersion"),
      V("firmwareVersion")>>

proto_write_token_info ==
    <<S("label", 32), S("manufacturerID", 32), S("model", 16), S("serialNumber", 16), U("flags"),
      U("ulMaxSessionCount"), U("ulSessionCount"), U("ulMaxRwSessionCount"), U("ulRwSessionCount"),
      U("ulMaxPinLen"), U("ulMinPinLen"), U("ulTotalPublicMemory"), U("ulFreePublicMemory"),
      U("ulTotalPrivateMemory"), U("ulFreePrivateMemory"), V("hardwareVersion"), V("firmwareVersion"),
      S("utcTime", 16)>>

proto_write_mechanism_info == <<U("ulMinKeySize"), U("ulMaxKeySize"), U("flags")>>

proto_write_session_info == <<U("slotID"), U("state"), U("flags"), U("ulDeviceError")>>

InfoWriter == [
    INFO |-> proto_write_info, SLOT_INFO |-> proto_write_slot_info, TOKEN_INFO |-> proto_write_token_info,
    SESSION_INFO |-> proto_write_session_info, MECHANISM_INFO |-> proto_write_mechanism_info]

NULL == "NULL"

Dispatch(func, in, args, out) == [func |-> func, in |-> in, args |-> args, out |-> out]

SlotDispatchers == [
    C_Finalize |-> Dispatch("C_Finalize", <<>>, <<NULL>>, <<>>),
    C_GetInfo |-> Dispatch("C_GetInfo", <<>>, <<"info">>, <<INFO("info")>>),
    C_GetSlotList |-> Dispatch("C_GetSlotList", <<BYTE("token_present"), ULONG_BUFFER("slot_list")>>,
            <<"token_present", "slot_list">>, <<ULONG_ARRAY("slot_list")>>),
    C_GetSlotInfo |-> Dispatch("C_GetSlotInfo", <<ULONG("slot_id")>>, <<"slot_id", "info">>,
            <<SLOT_INFO("info")>>),
    C_GetTokenInfo |-> Dispatch("C_GetTokenInfo", <<ULONG("slot_id")>>, <<"slot_id", "info">>,
            <<TOKEN_INFO("info")>>),
    C_GetMechanismList |-> Dispatch("C_GetMechanismList",
            <<ULONG("slot_id"), ULONG_BUFFER("mechanism_list")>>, <<"slot_id", "mechanism_list">>,
            <<ULONG_ARRAY("mechanism_list")>>),
    C_GetMechanismInfo |-> Dispatch("C_GetMechanismInfo", <<ULONG("slot_id"), ULONG("type")>>,
            <<"slot_id", "type", "info">>, <<MECHANISM_INFO("info")>>),
    C_InitToken |-> Dispatch("C_InitToken",
            <<ULONG("slot_id"), BYTE_ARRAY("pin"), ZERO_STRING("label")>>,
            <<"slot_id", "pin", "label">>, <<>>),
    C_InitToken2 |-> Dispatch("C_InitToken",
            <<ULONG("slot_id"), BYTE_ARRAY("pin"), SPACE_STRING("label")>>,
            <<"slot_id", "pin", "label">>, <<>>),
    C_WaitForSlotEvent |-> Dispatch("C_WaitForSlotEvent", <<ULONG("flags")>>,
            <<"flags", "slot_id", NULL>>, <<ULONG("slot_id")>>)]

SessionDispatchers == [
    C_OpenSession |-> Dispatch("C_OpenSession", <<ULONG("slot_id"), ULONG("flags")>>,
            <<"slot_id", "flags", NULL, NULL, "session">>, <<ULONG("session")>>),
    C_CloseSession |-> Dispatch("C_CloseSession", <<ULONG("session")>>, <<"session">>, <<>>),
    C_CloseAllSessions |-> Dispatch("C_CloseAllSessions", <<ULONG("slot_id")>>, <<"slot_id">>, <<>>),
    C_GetSessionInfo |-> Dispatch("C_GetSessionInfo", <<ULONG("session")>>, <<"session", "info">>,
            <<SESSION_INFO("info")>>),
    C_InitPIN |-> Dispatch("C_InitPIN", <<ULONG("session"), BYTE_ARRAY("pin")>>, <<"session", "pin">>,
            <<>>),
    C_SetPIN |-> Dispatch("C_SetPIN",
            <<ULONG("session"), BYTE_ARRAY("old_pin"), BYTE_ARRAY("new_pin")>>,
            <<"session", "old_pin", "new_pin">>, <<>>),
    C_GetOperationState |-> Dispatch("C_GetOperationState",
            <<ULONG("session"), BYTE_BUFFER("operation_state")>>, <<"session", "operation_state">>,
            <<BYTE_ARRAY("operation_state")>>),
    C_SetOperationState |-> Dispatch("C_SetOperationState",
            <<ULONG("session"), BYTE_ARRAY("operation_state"), ULONG("encryption_key"), ULONG("authentication_key")>>,
            <<"session", "operation_state", "encryption_key", "authentication_key">>, <<>>),
    C_Login |-> Dispatch("C_Login", <<ULONG("session"), ULONG("user_type"), BYTE_ARRAY("pin")>>,
            <<"session", "user_type", "pin">>, <<>>),
    C_Logout |-> Dispatch("C_Logout", <<ULONG("session")>>, <<"session">>, <<>>)]

ObjectDispatchers == [
    C_CreateObject |-> Dispatch("C_CreateObject", <<ULONG("session"), ATTRIBUTE_ARRAY("template")>>,
            <<"session", "template", "new_object">>, <<ULONG("new_object")>>),
    C_CopyObject |-> Dispatch("C_CopyObject",
            <<ULONG("session"), ULONG("object"), ATTRIBUTE_ARRAY("template")>>,
            <<"session", "object", "template", "new_object">>, <<ULONG("new_object")>>),
    C_DestroyObject |-> Dispatch("C_DestroyObject", <<ULONG("session"), ULONG("object")>>,
            <<"session", "object">>, <<>>),
    C_GetObjectSize |-> Dispatch("C_GetObjectSize", <<ULONG("session"), ULONG("object")>>,
            <<"session", "object", "size">>, <<ULONG("size")>>),
    C_GetAttributeValue |-> Dispatch("C_GetAttributeValue",
            <<ULONG("session"), ULONG("object"), ATTRIBUTE_BUFFER("template")>>,
            <<"session", "object", "template">>, <<ATTRIBUTE_ARRAY("template")>>),
    C_SetAttributeValue |-> Dispatch("C_SetAttributeValue",
            <<ULONG("session"), ULONG("object"), ATTRIBUTE_ARRAY("template")>>,
            <<"session", "object", "template">>, <<>>),
    C_FindObjectsInit |-> Dispatch("C_FindObjectsInit",
            <<ULONG("session"), ATTRIBUTE_ARRAY("template")>>, <<"session", "template">>, <<>>),
    C_FindObjects |-> Dispatch("C_FindObjects", <<ULONG("session"), ULONG_BUFFER("objects")>>,
            <<"session", "objects">>, <<ULONG_ARRAY("objects")>>),
    C_FindObjectsFinal |-> Dispatch("C_FindObjectsFinal", <<ULONG("session")>>, <<"session">>, <<>>)]

CipherDispatchers == [
    C_EncryptInit |-> Dispatch("C_EncryptInit",
            <<ULONG("session"), MECHANISM("mechanism"), ULONG("key")>>,
            <<"session", "mechanism", "key">>, <<>>),
    C_Encrypt |-> Dispatch("C_Encrypt",
            <<ULONG("session"), BYTE_ARRAY("data"), BYTE_BUFFER("encrypted_data")>>,
            <<"session", "data", "encrypted_data">>, <<BYTE_ARRAY("encrypted_data")>>),
    C_EncryptUpdate |-> Dispatch("C_EncryptUpdate",
            <<ULONG("session"), BYTE_ARRAY("part"), BYTE_BUFFER("encrypted_part")>>,
            <<"session", "part", "encrypted_part">>, <<BYTE_ARRAY("encrypted_part")>>),
    C_EncryptFinal |-> Dispatch("C_EncryptFinal",
            <<ULONG("session"), BYTE_BUFFER("last_encrypted_part")>>,
            <<"session", "last_encrypted_part">>, <<BYTE_ARRAY("last_encrypted_part")>>),
    C_DecryptInit |-> Dispatch("C_DecryptInit",
            <<ULONG("session"), MECHANISM("mechanism"), ULONG("key")>>,
            <<"session", "mechanism", "key">>, <<>>),
    C_Decrypt |-> Dispatch("C_Decrypt",
            <<ULONG("session"), BYTE_ARRAY("encrypted_data"), BYTE_BUFFER("data")>>,
            <<"session", "encrypted_data", "data">>, <<BYTE_ARRAY("data")>>),
    C_DecryptUpdate |-> Dispatch("C_DecryptUpdate",
            <<ULONG("session"), BYTE_ARRAY("encrypted_part"), BYTE_BUFFER("part")>>,
            <<"session", "encrypted_part", "part">>, <<BYTE_ARRAY("part")>>),
    C_DecryptFinal |-> Dispatch("C_DecryptFinal", <<ULONG("session"), BYTE_BUFFER("last_part")>>,
            <<"session", "last_part">>, <<BYTE_ARRAY("last_part")>>)]

DigestDispatchers == [
    C_DigestInit |-> Dispatch("C_DigestInit", <<ULONG("session"), MECHANISM("mechanism")>>,
            <<"session", "mechanism">>, <<>>),
    C_Digest |-> Dispatch("C_Digest", <<ULONG("session"), BYTE_ARRAY("data"), BYTE_BUFFER("digest")>>,
            <<"session", "data", "digest">>, <<BYTE_ARRAY("digest")>>),
    C_DigestUpdate |-> Dispatch("C_DigestUpdate", <<ULONG("session"), BYTE_ARRAY("part")>>,
            <<"session", "part">>, <<>>),
    C_DigestKey |-> Dispatch("C_DigestKey", <<ULONG("session"), ULONG("key")>>, <<"session", "key">>,
            <<>>),
    C_DigestFinal |-> Dispatch("C_DigestFinal", <<ULONG("session"), BYTE_BUFFER("digest")>>,
            <<"session", "digest">>, <<BYTE_ARRAY("digest")>>)]

SignDispatchers == [
    C_SignInit |-> Dispatch("C_SignInit", <<ULONG("session"), MECHANISM("mechanism"), ULONG("key")>>,
            <<"session", "mechanism", "key">>, <<>>),
    C_Sign |-> Dispatch("C_Sign", <<ULONG("session"), BYTE_ARRAY("part"), BYTE_BUFFER("signature")>>,
            <<"session", "part", "signature">>, <<BYTE_ARRAY("signature")>>),
    C_SignUpdate |-> Dispatch("C_SignUpdate", <<ULONG("session"), BYTE_ARRAY("part")>>,
            <<"session", "part">>, <<>>),
    C_SignFinal |-> Dispatch("C_SignFinal", <<ULONG("session"), BYTE_BUFFER("signature")>>,
            <<"session", "signature">>, <<BYTE_ARRAY("signature")>>),
    C_SignRecoverInit |-> Dispatch("C_SignRecoverInit",
            <<ULONG("session"), MECHANISM("mechanism"), ULONG("key")>>,
            <<"session", "mechanism", "key">>, <<>>),
    C_SignRecover |-> Dispatch("C_SignRecover",
            <<ULONG("session"), BYTE_ARRAY("data"), BYTE_BUFFER("signature")>>,
            <<"session", "data", "signature">>, <<BYTE_ARRAY("signature")>>)]

VerifyDispatchers == [
    C_VerifyInit |-> Dispatch("C_VerifyInit",
            <<ULONG("session"), MECHANISM("mechanism"), ULONG("key")>>,
            <<"session", "mechanism", "key">>, <<>>),
    C_Verify |-> Dispatch("C_Verify", <<ULONG("session"), BYTE_ARRAY("data"), BYTE_ARRAY("signature")>>,
            <<"session", "data", "signature">>, <<>>),
    C_VerifyUpdate |-> Dispatch("C_VerifyUpdate", <<ULONG("session"), BYTE_ARRAY("part")>>,
            <<"session", "part">>, <<>>),
    C_VerifyFinal |-> Dispatch("C_VerifyFinal", <<ULONG("session"), BYTE_ARRAY("signature")>>,
            <<"session", "signature">>, <<>>),
    C_VerifyRecoverInit |-> Dispatch("C_VerifyRecoverInit",
            <<ULONG("session"), MECHANISM("mechanism"), ULONG("key")>>,
            <<"session", "mechanism", "key">>, <<>>),
    C_VerifyRecover |-> Dispatch("C_VerifyRecover",
            <<ULONG("session"), BYTE_ARRAY("signature"), BYTE_BUFFER("data")>>,
            <<"session", "signature", "data">>, <<BYTE_ARRAY("data")>>)]

DualDispatchers == [
    C_DigestEncryptUpdate |-> Dispatch("C_DigestEncryptUpdate",
            <<ULONG("session"), BYTE_ARRAY("part"), BYTE_BUFFER("encrypted_part")>>,
            <<"session", "part", "encrypted_part">>, <<BYTE_ARRAY("encrypted_part")>>),
    C_DecryptDigestUpdate |-> Dispatch("C_DecryptDigestUpdate",
            <<ULONG("session"), BYTE_ARRAY("encrypted_part"), BYTE_BUFFER("part")>>,
            <<"session", "encrypted_part", "part">>, <<BYTE_ARRAY("part")>>),
    C_SignEncryptUpdate |-> Dispatch("C_SignEncryptUpdate",
            <<ULONG("session"), BYTE_ARRAY("part"), BYTE_BUFFER("encrypted_part")>>,
            <<"session", "part", "encrypted_part">>, <<BYTE_ARRAY("encrypted_part")>>),
    C_DecryptVerifyUpdate |-> Dispatch("C_DecryptVerifyUpdate",
            <<ULONG("session"), BYTE_ARRAY("encrypted_part"), BYTE_BUFFER("part")>>,
            <<"session", "encrypted_part", "part">>, <<BYTE_ARRAY("part")>>)]

KeyDispatchers == [
    C_GenerateKey |-> Dispatch("C_GenerateKey",
            <<ULONG("session"), MECHANISM("mechanism"), ATTRIBUTE_ARRAY("template")>>,
            <<"session", "mechanism", "template", "key">>, <<ULONG("key")>>),
    C_GenerateKeyPair |-> Dispatch("C_GenerateKeyPair",
            <<ULONG("session"), MECHANISM("mechanism"), ATTRIBUTE_ARRAY("public_key_template"), ATTRIBUTE_ARRAY("private_key_template")>>,
            <<"session", "mechanism", "public_key_template", "private_key_template", "public_key", "private_key">>,
            <<ULONG("public_key"), ULONG("private_key")>>),
    C_WrapKey |-> Dispatch("C_WrapKey",
            <<ULONG("session"), MECHANISM("mechanism"), ULONG("wrapping_key"), ULONG("key"), BYTE_BUFFER("wrapped_key")>>,
            <<"session", "mechanism", "wrapping_key", "key", "wrapped_key">>,
            <<BYTE_ARRAY("wrapped_key")>>),
    C_UnwrapKey |-> Dispatch("C_UnwrapKey",
            <<ULONG("session"), MECHANISM("mechanism"), ULONG("unwrapping_key"), BYTE_ARRAY("wrapped_key"), ATTRIBUTE_ARRAY("template")>>,
            <<"session", "mechanism", "unwrapping_key", "wrapped_key", "template", "key">>,
            <<ULONG("key")>>),
    C_DeriveKey |-> Dispatch("C_DeriveKey",
            <<ULONG("session"), MECHANISM("mechanism"), ULONG("base_key"), ATTRIBUTE_ARRAY("template")>>,
            <<"session", "mechanism", "base_key", "template", "key">>, <<ULONG("key")>>),
    C_SeedRandom |-> Dispatch("C_SeedRandom", <<ULONG("session"), BYTE_ARRAY("seed")>>,
            <<"session", "seed">>, <<>>),
    C_GenerateRandom |-> Dispatch("C_GenerateRandom", <<ULONG("session"), BYTE_BUFFER("random_data")>>,
            <<"session", "random_data">>, <<BYTE_ARRAY("random_data")>>)]

LoginDispatchers == [
    C_LoginUser |-> Dispatch("C_LoginUser",
            <<ULONG("session"), ULONG("user_type"), BYTE_ARRAY("pin"), BYTE_ARRAY("username")>>,
            <<"session", "user_type", "pin", "username">>, <<>>),
    C_SessionCancel |-> Dispatch("C_SessionCancel", <<ULONG("session"), ULONG("flags")>>,
            <<"session", "flags">>, <<>>)]

MessageEncryptDispatchers == [
    C_MessageEncryptInit |-> Dispatch("C_MessageEncryptInit",
            <<ULONG("session"), MECHANISM("mechanism"), ULONG("key")>>,
            <<"session", "mechanism", "key">>, <<>>),
    C_EncryptMessage |-> Dispatch("C_EncryptMessage",
            <<ULONG("session"), BYTE_ARRAY("parameter"), BYTE_ARRAY("associated_data"), BYTE_ARRAY("plaintext"), BYTE_BUFFER("ciphertext")>>,
            <<"session", "parameter", "associated_data", "plaintext", "ciphertext">>,
            <<BYTE_ARRAY("ciphertext")>>),
    C_EncryptMessageBegin |-> Dispatch("C_EncryptMessageBegin",
            <<ULONG("session"), BYTE_ARRAY("parameter"), BYTE_ARRAY("associated_data")>>,
            <<"session", "parameter", "associated_data">>, <<>>),
    C_EncryptMessageNext |-> Dispatch("C_EncryptMessageNext",
            <<ULONG("session"), BYTE_ARRAY("parameter"), BYTE_ARRAY("plaintext_part"), BYTE_BUFFER("ciphertext_part"), ULONG("flags")>>,
            <<"session", "parameter", "plaintext_part", "ciphertext_part", "flags">>,
            <<BYTE_ARRAY("ciphertext_part")>>),
    C_MessageEncryptFinal |-> Dispatch("C_MessageEncryptFinal", <<ULONG("session")>>, <<"session">>,
            <<>>)]

MessageDecryptDispatchers == [
    C_MessageDecryptInit |-> Dispatch("C_MessageDecryptInit",
            <<ULONG("session"), MECHANISM("mechanism"), ULONG("key")>>,
            <<"session", "mechanism", "key">>, <<>>),
    C_DecryptMessage |-> Dispatch("C_DecryptMessage",
            <<ULONG("session"), BYTE_ARRAY("parameter"), BYTE_ARRAY("associated_data"), BYTE_ARRAY("ciphertext"), BYTE_BUFFER("plaintext")>>,
            <<"session", "parameter", "associated_data", "ciphertext", "plaintext">>,
            <<BYTE_ARRAY("plaintext")>>),
    C_DecryptMessageBegin |-> Dispatch("C_DecryptMessageBegin",
            <<ULONG("session"), BYTE_ARRAY("parameter"), BYTE_ARRAY("associated_data")>>,
            <<"session", "parameter", "associated_data">>, <<>>),
    C_DecryptMessageNext |-> Dispatch("C_DecryptMessageNext",
            <<ULONG("session"), BYTE_ARRAY("parameter"), BYTE_ARRAY("ciphertext_part"), BYTE_BUFFER("plaintext_part"), ULONG("flags")>>,
            <<"session", "parameter", "ciphertext_part", "plaintext_part", "flags">>,
            <<BYTE_ARRAY("plaintext_part")>>),
    C_MessageDecryptFinal |-> Dispatch("C_MessageDecryptFinal", <<ULONG("session")>>, <<"session">>,
            <<>>)]

MessageSignDispatchers == [
    C_MessageSignInit |-> Dispatch("C_MessageSignInit",
            <<ULONG("session"), MECHANISM("mechanism"), ULONG("key")>>,
            <<"session", "mechanism", "key">>, <<>>),
    C_SignMessage |-> Dispatch("C_SignMessage",
            <<ULONG("session"), BYTE_ARRAY("parameter"), BYTE_ARRAY("data"), BYTE_BUFFER("signature")>>,
            <<"session", "parameter", "data", "signature">>, <<BYTE_ARRAY("signature")>>),
    C_SignMessageBegin |-> Dispatch("C_SignMessageBegin", <<ULONG("session"), BYTE_ARRAY("parameter")>>,
            <<"session", "parameter">>, <<>>),
    C_SignMessageNext |-> Dispatch("C_SignMessageNext",
            <<ULONG("session"), BYTE_ARRAY("parameter"), BYTE_ARRAY("data"), EXPECTED("signature"), OPTIONAL_BUFFER("signature")>>,
            <<"session", "parameter", "data", "signature">>, <<OPTIONAL_ARRAY("signature")>>),
    C_MessageSignFinal |-> Dispatch("C_MessageSignFinal", <<ULONG("session")>>, <<"session">>, <<>>)]

MessageVerifyDispatchers == [
    C_MessageVerifyInit |-> Dispatch("C_MessageVerifyInit",
            <<ULONG("session"), MECHANISM("mechanism"), ULONG("key")>>,
            <<"session", "mechanism", "key">>, <<>>),
    C_VerifyMessage |-> Dispatch("C_VerifyMessage",
            <<ULONG("session"), BYTE_ARRAY("parameter"), BYTE_ARRAY("data"), BYTE_ARRAY("signature")>>,
            <<"session", "parameter", "data", "signature">>, <<>>),
    C_VerifyMessageBegin |-> Dispatch("C_VerifyMessageBegin",
            <<ULONG("session"), BYTE_ARRAY("parameter")>>, <<"session", "parameter">>, <<>>),
    C_VerifyMessageNext |-> Dispatch("C_VerifyMessageNext",
            <<ULONG("session"), BYTE_ARRAY("parameter"), BYTE_ARRAY("data"), BYTE_ARRAY("signature")>>,
            <<"session", "parameter", "data", "signature">>, <<>>),
    C_MessageVerifyFinal |-> Dispatch("C_MessageVerifyFinal", <<ULONG("session")>>, <<"session">>, <<>>)]

dispatch_call ==
    SlotDispatchers @@ SessionDispatchers @@ ObjectDispatchers @@ CipherDispatchers
        @@ DigestDispatchers @@ SignDispatchers @@ VerifyDispatchers
        @@ DualDispatchers @@ KeyDispatchers @@ LoginDispatchers
        @@ MessageEncryptDispatchers @@ MessageDecryptDispatchers
        @@ MessageSignDispatchers @@ MessageVerifyDispatchers
---------------------------------------------------------------------------------
\* The address of an argument, the number at its length, and an argument shown in itself.
POINTER(arg) == Form("POINTER", arg)
COUNT(arg) == Form("COUNT", arg)

Logged(params, in, out) == [params |-> params, in |-> in, out |-> out]

\* A structure is shown field by field: under which name, which field.
As(label, field) == [label |-> label, field |-> field]
Field(field) == As(field, field)

log_info == {Field("cryptokiVersion"), Field("manufacturerID"), Field("flags"),
    Field("libraryDescription"), Field("libraryVersion")}
log_slot_info == {Field("slotDescription"), Field("manufacturerID"), Field("flags"),
    Field("hardwareVersion"), Field("firmwareVersion")}
log_mechanism_info == {Field("ulMinKeySize"), Field("ulMaxKeySize"), Field("flags")}
log_session_info == {Field("slotID"), Field("state"), Field("flags"), Field("ulDeviceError")}
log_token_info == {Field("label"), Field("manufacturerID"), Field("model"), Field("serialNumber"),
    Field("flags"), Field("ulMaxSessionCount"), Field("ulSessionCount"),
    As("ulMaxRwSessionCount", "ulMaxSessionCount"), Field("ulRwSessionCount"),
    Field("ulMaxPinLen"), Field("ulMinPinLen"),
    As("ulTotalPublicMemory", "ulMaxSessionCount"), As("ulFreePublicMemory", "ulMaxSessionCount"),
    As("ulTotalPrivateMemory", "ulMaxSessionCount"), As("ulFreePrivateMemory", "ulMaxSessionCount"),
    Field("hardwareVersion"), Field("firmwareVersion"), Field("utcTime")}

InfoLog == [INFO |-> log_info, SLOT_INFO |-> log_slot_info, TOKEN_INFO |-> log_token_info,
    SESSION_INFO |-> log_session_info, MECHANISM_INFO |-> log_mechanism_info]

SlotLogs == [
    C_Finalize |-> Logged(<<"pReserved">>, <<POINTER("pReserved")>>, <<>>),
    C_GetInfo |-> Logged(<<"pInfo">>, <<>>, <<INFO("pInfo")>>),
    C_GetSlotList |-> Logged(<<"tokenPresent", "pSlotList">>,
            <<BYTE("tokenPresent"), COUNT("pSlotList")>>, <<ULONG_ARRAY("pSlotList")>>),
    C_GetSlotInfo |-> Logged(<<"slotID", "pInfo">>, <<ULONG("slotID")>>, <<SLOT_INFO("pInfo")>>),
    C_GetTokenInfo |-> Logged(<<"slotID", "pInfo">>, <<ULONG("slotID")>>, <<TOKEN_INFO("pInfo")>>),
    C_GetMechanismList |-> Logged(<<"slotID", "pMechanismList">>,
            <<ULONG("slotID"), COUNT("pMechanismList")>>, <<ULONG_ARRAY("pMechanismList")>>),
    C_GetMechanismInfo |-> Logged(<<"slotID", "type", "pInfo">>,
            <<ULONG("slotID"), MECHANISM_TYPE("type")>>, <<MECHANISM_INFO("pInfo")>>),
    C_InitToken |-> Logged(<<"slotID", "pPin", "pLabel">>,
            <<ULONG("slotID"), BYTE_ARRAY("pPin"), SPACE_STRING("pLabel")>>, <<>>),
    C_WaitForSlotEvent |-> Logged(<<"flags", "pSlot", "pReserved">>, <<ULONG("flags")>>,
            <<ULONG("pSlot"), POINTER("pReserved")>>)]

SessionLogs == [
    C_OpenSession |-> Logged(<<"slotID", "flags", "pApplication", "Notify", "phSession">>,
            <<ULONG("slotID"), POINTER("pApplication"), POINTER("Notify"), ULONG("flags")>>,
            <<ULONG("phSession")>>),
    C_CloseSession |-> Logged(<<"hSession">>, <<ULONG("hSession")>>, <<>>),
    C_CloseAllSessions |-> Logged(<<"slotID">>, <<ULONG("slotID")>>, <<>>),
    C_GetSessionInfo |-> Logged(<<"hSession", "pInfo">>, <<ULONG("hSession")>>,
            <<SESSION_INFO("pInfo")>>),
    C_InitPIN |-> Logged(<<"hSession", "pPin">>, <<ULONG("hSession"), BYTE_ARRAY("pPin")>>, <<>>),
    C_SetPIN |-> Logged(<<"hSession", "pOldPin", "pNewPin">>,
            <<ULONG("hSession"), BYTE_ARRAY("pOldPin"), BYTE_ARRAY("pNewPin")>>, <<>>),
    C_GetOperationState |-> Logged(<<"hSession", "pOperationState">>,
            <<ULONG("hSession"), COUNT("pOperationState")>>, <<BYTE_ARRAY("pOperationState")>>),
    C_SetOperationState |-> Logged(
            <<"hSession", "pOperationState", "hEncryptionKey", "hAuthenticationKey">>,
            <<ULONG("hSession"), BYTE_ARRAY("pOperationState"), ULONG("hEncryptionKey"), ULONG("hAuthenticationKey")>>,
            <<>>),
    C_Login |-> Logged(<<"hSession", "userType", "pPin">>,
            <<ULONG("hSession"), ULONG("userType"), BYTE_ARRAY("pPin")>>, <<>>),
    C_Logout |-> Logged(<<"hSession">>, <<ULONG("hSession")>>, <<>>)]

ObjectLogs == [
    C_CreateObject |-> Logged(<<"hSession", "pTemplate", "phObject">>,
            <<ULONG("hSession"), ATTRIBUTE_ARRAY("pTemplate")>>, <<ULONG("phObject")>>),
    C_CopyObject |-> Logged(<<"hSession", "hObject", "pTemplate", "phNewObject">>,
            <<ULONG("hSession"), ULONG("hObject"), ATTRIBUTE_ARRAY("pTemplate")>>,
            <<ULONG("phNewObject")>>),
    C_DestroyObject |-> Logged(<<"hSession", "hObject">>, <<ULONG("hSession"), ULONG("hObject")>>, <<>>),
    C_GetObjectSize |-> Logged(<<"hSession", "hObject", "size">>,
            <<ULONG("hSession"), ULONG("hObject")>>, <<ULONG("size")>>),
    C_GetAttributeValue |-> Logged(<<"hSession", "hObject", "pTemplate">>,
            <<ULONG("hSession"), ULONG("hObject"), ATTRIBUTE_ARRAY("pTemplate")>>,
            <<ATTRIBUTE_ARRAY("pTemplate")>>),
    C_SetAttributeValue |-> Logged(<<"hSession", "hObject", "pTemplate">>,
            <<ULONG("hSession"), ULONG("hObject"), ATTRIBUTE_ARRAY("pTemplate")>>, <<>>),
    C_FindObjectsInit |-> Logged(<<"hSession", "pTemplate">>,
            <<ULONG("hSession"), ATTRIBUTE_ARRAY("pTemplate")>>, <<>>),
    C_FindObjects |-> Logged(<<"hSession", "object">>, <<ULONG("hSession"), COUNT("object")>>,
            <<ULONG_ARRAY("object")>>),
    C_FindObjectsFinal |-> Logged(<<"hSession">>, <<ULONG("hSession")>>, <<>>)]

CipherLogs == [
    C_EncryptInit |-> Logged(<<"hSession", "pMechanism", "hKey">>,
            <<ULONG("hSession"), MECHANISM("pMechanism"), ULONG("hKey")>>, <<>>),
    C_Encrypt |-> Logged(<<"hSession", "pData", "pEncryptedData">>,
            <<ULONG("hSession"), BYTE_ARRAY("pData")>>, <<BYTE_ARRAY("pEncryptedData")>>),
    C_EncryptUpdate |-> Logged(<<"hSession", "pPart", "pEncryptedPart">>,
            <<ULONG("hSession"), BYTE_ARRAY("pPart")>>, <<BYTE_ARRAY("pEncryptedPart")>>),
    C_EncryptFinal |-> Logged(<<"hSession", "pLastEncryptedPart">>, <<ULONG("hSession")>>,
            <<BYTE_ARRAY("pLastEncryptedPart")>>),
    C_DecryptInit |-> Logged(<<"hSession", "pMechanism", "hKey">>,
            <<ULONG("hSession"), MECHANISM("pMechanism"), ULONG("hKey")>>, <<>>),
    C_Decrypt |-> Logged(<<"hSession", "pEncryptedData", "pData">>,
            <<ULONG("hSession"), BYTE_ARRAY("pEncryptedData")>>, <<BYTE_ARRAY("pData")>>),
    C_DecryptUpdate |-> Logged(<<"hSession", "pEncryptedPart", "pPart">>,
            <<ULONG("hSession"), BYTE_ARRAY("pEncryptedPart")>>, <<BYTE_ARRAY("pPart")>>),
    C_DecryptFinal |-> Logged(<<"hSession", "pLastPart">>, <<ULONG("hSession")>>,
            <<BYTE_ARRAY("pLastPart")>>)]

DigestLogs == [
    C_DigestInit |-> Logged(<<"hSession", "pMechanism">>,
            <<ULONG("hSession"), MECHANISM("pMechanism")>>, <<>>),
    C_Digest |-> Logged(<<"hSession", "pData", "pDigest">>, <<ULONG("hSession"), BYTE_ARRAY("pData")>>,
            <<BYTE_ARRAY("pDigest")>>),
    C_DigestUpdate |-> Logged(<<"hSession", "pPart">>, <<ULONG("hSession"), BYTE_ARRAY("pPart")>>, <<>>),
    C_DigestKey |-> Logged(<<"hSession", "hKey">>, <<ULONG("hSession"), ULONG("hKey")>>, <<>>),
    C_DigestFinal |-> Logged(<<"hSession", "pDigest">>, <<ULONG("hSession")>>,
            <<BYTE_ARRAY("pDigest")>>)]

SignLogs == [
    C_SignInit |-> Logged(<<"hSession", "pMechanism", "hKey">>,
            <<ULONG("hSession"), MECHANISM("pMechanism"), ULONG("hKey")>>, <<>>),
    C_Sign |-> Logged(<<"hSession", "pData", "pSignature">>, <<ULONG("hSession"), BYTE_ARRAY("pData")>>,
            <<BYTE_ARRAY("pSignature")>>),
    C_SignUpdate |-> Logged(<<"hSession", "pPart">>, <<ULONG("hSession"), BYTE_ARRAY("pPart")>>, <<>>),
    C_SignFinal |-> Logged(<<"hSession", "pSignature">>, <<ULONG("hSession")>>,
            <<BYTE_ARRAY("pSignature")>>),
    C_SignRecoverInit |-> Logged(<<"hSession", "pMechanism", "hKey">>,
            <<ULONG("hSession"), MECHANISM("pMechanism"), ULONG("hKey")>>, <<>>),
    C_SignRecover |-> Logged(<<"hSession", "pData", "pSignature">>,
            <<ULONG("hSession"), BYTE_ARRAY("pData")>>, <<BYTE_ARRAY("pSignature")>>)]

VerifyLogs == [
    C_VerifyInit |-> Logged(<<"hSession", "pMechanism", "hKey">>,
            <<ULONG("hSession"), MECHANISM("pMechanism"), ULONG("hKey")>>, <<>>),
    C_Verify |-> Logged(<<"hSession", "pData", "pSignature">>,
            <<ULONG("hSession"), BYTE_ARRAY("pData"), BYTE_ARRAY("pSignature")>>, <<>>),
    C_VerifyUpdate |-> Logged(<<"hSession", "pPart">>, <<ULONG("hSession"), BYTE_ARRAY("pPart")>>, <<>>),
    C_VerifyFinal |-> Logged(<<"hSession", "pSignature">>,
            <<ULONG("hSession"), BYTE_ARRAY("pSignature")>>, <<>>),
    C_VerifyRecoverInit |-> Logged(<<"hSession", "pMechanism", "hKey">>,
            <<ULONG("hSession"), MECHANISM("pMechanism"), ULONG("hKey")>>, <<>>),
    C_VerifyRecover |-> Logged(<<"hSession", "pSignature", "pData">>,
            <<ULONG("hSession"), BYTE_ARRAY("pSignature")>>, <<BYTE_ARRAY("pData")>>)]

DualLogs == [
    C_DigestEncryptUpdate |-> Logged(<<"hSession", "pPart", "pEncryptedPart">>,
            <<ULONG("hSession"), BYTE_ARRAY("pPart")>>, <<BYTE_ARRAY("pEncryptedPart")>>),
    C_DecryptDigestUpdate |-> Logged(<<"hSession", "pEncryptedPart", "pPart">>,
            <<ULONG("hSession"), BYTE_ARRAY("pEncryptedPart")>>, <<BYTE_ARRAY("pPart")>>),
    C_SignEncryptUpdate |-> Logged(<<"hSession", "pPart", "pEncryptedPart">>,
            <<ULONG("hSession"), BYTE_ARRAY("pPart")>>, <<BYTE_ARRAY("pEncryptedPart")>>),
    C_DecryptVerifyUpdate |-> Logged(<<"hSession", "pEncryptedPart", "pPart">>,
            <<ULONG("hSession"), BYTE_ARRAY("pEncryptedPart")>>, <<BYTE_ARRAY("pPart")>>)]

KeyLogs == [
    C_GenerateKey |-> Logged(<<"hSession", "pMechanism", "pTemplate", "phKey">>,
            <<ULONG("hSession"), MECHANISM("pMechanism"), ATTRIBUTE_ARRAY("pTemplate")>>,
            <<ULONG("phKey")>>),
    C_GenerateKeyPair |-> Logged(
            <<"hSession", "pMechanism", "pPublicKeyTemplate", "pPrivateKeyTemplate", "phPublicKey", "phPrivateKey">>,
            <<ULONG("hSession"), MECHANISM("pMechanism"), ATTRIBUTE_ARRAY("pPublicKeyTemplate"), ATTRIBUTE_ARRAY("pPrivateKeyTemplate")>>,
            <<ULONG("phPublicKey"), ULONG("phPrivateKey")>>),
    C_WrapKey |-> Logged(<<"hSession", "pMechanism", "hWrappingKey", "hKey", "pWrappedKey">>,
            <<ULONG("hSession"), MECHANISM("pMechanism"), ULONG("hWrappingKey"), ULONG("hKey")>>,
            <<BYTE_ARRAY("pWrappedKey")>>),
    C_UnwrapKey |-> Logged(
            <<"hSession", "pMechanism", "hUnwrappingKey", "pWrappedKey", "pTemplate", "phKey">>,
            <<ULONG("hSession"), MECHANISM("pMechanism"), ULONG("hUnwrappingKey"), BYTE_ARRAY("pWrappedKey"), ATTRIBUTE_ARRAY("pTemplate")>>,
            <<ULONG("phKey")>>),
    C_DeriveKey |-> Logged(<<"hSession", "pMechanism", "hBaseKey", "pTemplate", "phObject">>,
            <<ULONG("hSession"), MECHANISM("pMechanism"), ULONG("hBaseKey"), ATTRIBUTE_ARRAY("pTemplate")>>,
            <<ULONG("phObject")>>),
    C_SeedRandom |-> Logged(<<"hSession", "pSeed">>, <<ULONG("hSession"), BYTE_ARRAY("pSeed")>>, <<>>),
    C_GenerateRandom |-> Logged(<<"hSession", "pRandomData">>,
            <<ULONG("hSession"), COUNT("pRandomData")>>, <<BYTE_ARRAY("pRandomData")>>)]

LoginLogs == [
    C_LoginUser |-> Logged(<<"session", "user_type", "pin", "username">>,
            <<ULONG("session"), ULONG("user_type"), BYTE_ARRAY("pin"), BYTE_ARRAY("username")>>, <<>>),
    C_SessionCancel |-> Logged(<<"session", "flags">>, <<ULONG("session"), ULONG("flags")>>, <<>>)]

MessageEncryptLogs == [
    C_MessageEncryptInit |-> Logged(<<"session", "mechanism", "key">>,
            <<ULONG("session"), MECHANISM("mechanism"), ULONG("key")>>, <<>>),
    C_EncryptMessage |-> Logged(
            <<"session", "parameter", "associated_data", "plaintext", "ciphertext">>,
            <<ULONG("session"), POINTER("parameter"), COUNT("parameter"), BYTE_ARRAY("associated_data"), BYTE_ARRAY("plaintext")>>,
            <<BYTE_ARRAY("ciphertext")>>),
    C_EncryptMessageBegin |-> Logged(<<"session", "parameter", "associated_data">>,
            <<ULONG("session"), POINTER("parameter"), COUNT("parameter"), BYTE_ARRAY("associated_data")>>,
            <<>>),
    C_EncryptMessageNext |-> Logged(
            <<"session", "parameter", "plaintext_part", "ciphertext_part", "flags">>,
            <<ULONG("session"), POINTER("parameter"), COUNT("parameter"), BYTE_ARRAY("plaintext_part"), ULONG("flags")>>,
            <<BYTE_ARRAY("ciphertext_part")>>),
    C_MessageEncryptFinal |-> Logged(<<"session">>, <<ULONG("session")>>, <<>>)]

MessageDecryptLogs == [
    C_MessageDecryptInit |-> Logged(<<"session", "mechanism", "key">>,
            <<ULONG("session"), MECHANISM("mechanism"), ULONG("key")>>, <<>>),
    C_DecryptMessage |-> Logged(
            <<"session", "parameter", "associated_data", "ciphertext", "plaintext">>,
            <<ULONG("session"), POINTER("parameter"), COUNT("parameter"), BYTE_ARRAY("associated_data"), BYTE_ARRAY("ciphertext")>>,
            <<BYTE_ARRAY("plaintext")>>),
    C_DecryptMessageBegin |-> Logged(<<"session", "parameter", "associated_data">>,
            <<ULONG("session"), POINTER("parameter"), COUNT("parameter"), BYTE_ARRAY("associated_data")>>,
            <<>>),
    C_DecryptMessageNext |-> Logged(
            <<"session", "parameter", "ciphertext_part", "plaintext_part", "flags">>,
            <<ULONG("session"), POINTER("parameter"), COUNT("parameter"), BYTE_ARRAY("ciphertext_part"), ULONG("flags")>>,
            <<BYTE_ARRAY("plaintext_part")>>),
    C_MessageDecryptFinal |-> Logged(<<"session">>, <<ULONG("session")>>, <<>>)]

MessageSignLogs == [
    C_MessageSignInit |-> Logged(<<"session", "mechanism", "key">>,
            <<ULONG("session"), MECHANISM("mechanism"), ULONG("key")>>, <<>>),
    C_SignMessage |-> Logged(<<"session", "parameter", "data", "signature">>,
            <<ULONG("session"), POINTER("parameter"), COUNT("parameter"), BYTE_ARRAY("data")>>,
            <<BYTE_ARRAY("signature")>>),
    C_SignMessageBegin |-> Logged(<<"session", "parameter">>,
            <<ULONG("session"), POINTER("parameter"), COUNT("parameter")>>, <<>>),
    C_SignMessageNext |-> Logged(<<"session", "parameter", "data", "signature">>,
            <<ULONG("session"), POINTER("parameter"), COUNT("parameter"), BYTE_ARRAY("data")>>,
            <<BYTE_ARRAY("signature")>>),
    C_MessageSignFinal |-> Logged(<<"session">>, <<ULONG("session")>>, <<>>)]

MessageVerifyLogs == [
    C_MessageVerifyInit |-> Logged(<<"session", "mechanism", "key">>,
            <<ULONG("session"), MECHANISM("mechanism"), ULONG("key")>>, <<>>),
    C_VerifyMessage |-> Logged(<<"session", "parameter", "data", "signature">>,
            <<ULONG("session"), POINTER("parameter"), COUNT("parameter"), BYTE_ARRAY("data"), BYTE_ARRAY("signature")>>,
            <<>>),
    C_VerifyMessageBegin |-> Logged(<<"session", "parameter">>,
            <<ULONG("session"), POINTER("parameter"), COUNT("parameter")>>, <<>>),
    C_VerifyMessageNext |-> Logged(<<"session", "parameter", "data", "signature">>,
            <<ULONG("session"), POINTER("parameter"), COUNT("parameter"), BYTE_ARRAY("data"), BYTE_ARRAY("signature")>>,
            <<>>),
    C_MessageVerifyFinal |-> Logged(<<"session">>, <<ULONG("session")>>, <<>>)]

log_functions ==
    SlotLogs @@ SessionLogs @@ ObjectLogs @@ CipherLogs @@ DigestLogs @@ SignLogs
        @@ VerifyLogs @@ DualLogs @@ KeyLogs @@ LoginLogs @@ MessageEncryptLogs
        @@ MessageDecryptLogs @@ MessageSignLogs @@ MessageVerifyLogs
=================================================================================

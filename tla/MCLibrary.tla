------------------------------ MODULE MCLibrary ------------------------------
(* The parts of the library that do not use one another, side by side: a     *)
(* behaviour is one of the part chosen at the start.  PIN callbacks have     *)
(* their own variables, those of the other parts share v1 to v7; what a part *)
(* does not need stays as it is at first.                                    *)
EXTENDS Pin, Integers, TLC

VARIABLES part, v1, v2, v3, v4, v5, v6, v7

Unused == "unused"
From7 == v7 = Unused
From6 == v6 = Unused /\ From7
From5 == v5 = Unused /\ From6
From3 == v3 = Unused /\ v4 = Unused /\ From5
From2 == v2 = Unused /\ From3
From1 == v1 = Unused /\ From2

Seqs(S, n) == UNION {[1..k -> S] : k \in 0..n}

\* Conversions: text, paths, arguments
LineLength == 4
TextSamples ==
    {[kind |-> "bytes", of |-> b] : b \in Seqs({0, 1, 129, 255}, 4)}
    \cup {[kind |-> "code", of |-> c] : c \in {0, 127, 128, 2047, 2048, 55295, 57344, 65535, 65536,
              1114111, 1114112, 2097151, 2097152, 67108863, 67108864}}
    \cup {[kind |-> "name", of |-> n] : n \in Seqs({"a", "/", "%", " "}, 3)}
    \cup {[kind |-> "utf8", of |-> u] : u \in Seqs({65, 127, 128, 143, 144, 159, 160, 191, 192, 193,
              194, 224, 237, 240, 244, 245}, 2)}
    \cup {[kind |-> "utf8", of |-> u] : u \in [1..3 -> {65, 128, 143, 159, 160, 194, 224, 237}]}
    \cup {[kind |-> "utf8", of |-> <<a, b, c, d>>] : a \in {224, 240, 241, 244, 245, 248},
              b \in {127, 128, 143, 144, 191, 192}, c \in {128, 65}, d \in {191, 192}}
    \cup {[kind |-> "args", of |-> a] : a \in Seqs(Seqs({"a", " ", "\"", "'"}, 2), 2)}
    \cup {[kind |-> "path", of |-> [dir |-> <<"/">> \o d, name |-> n]] :
              d \in Seqs({"/", "a"}, 3), n \in Seqs({"/", "b", "c"}, 3)}

\* Dates, and files of up to three lines
Line(text, tokens, bad) == [text |-> text, tokens |-> tokens, bad |-> bad]
Token(type, name, value) == <<[type |-> type, name |-> name, value |-> value]>>
Block == <<"BEGIN", "a", "\n", "#", "\n", "END", "a">>
Lines == {
    Line(<<>>, <<>>, FALSE),
    Line(<<" ", "#", "a">>, <<>>, FALSE),
    Line(<<" ", "[", "a", "]", " ">>, Token("section", <<"a">>, <<>>), FALSE),
    Line(<<"[", "]">>, Token("section", <<>>, <<>>), FALSE),
    Line(<<"[", "a">>, <<>>, TRUE),
    Line(<<"a", " ">>, <<>>, TRUE),
    Line(<<"a", " ", ":", " ", "b", " ", ":", " ">>, Token("field", <<"a">>, <<"b", " ", ":">>), FALSE),
    Line(<<":">>, Token("field", <<>>, <<>>), FALSE),
    Line(Block, Token("pem", <<>>, Block \o <<"\n">>), FALSE)}
DateSamples ==
    {[kind |-> "utcTime", of |-> [year |-> y, now |-> n]] :
         y \in 0..99, n \in {1999, 2000, 2026, 2039, 2040, 2050, 2099}}
    \cup {[kind |-> "file", of |-> f] : f \in Seqs(Lines, 3)}
Samples == TextSamples \cup DateSamples
T == INSTANCE Text WITH sample <- v1

\* URIs
FieldSize == 2
NoSlotId == 65535
Lowercase == TRUE
Names == <<"object", "vendor-a", "vendor-b">>
Fields == {<<"a", " ">>, <<";", "a">>, <<" ", " ">>}
Values == {<<>>, <<"a", "%">>, <<" ", "=", "&">>, <<"?">>}
Versions == {<<1, 0>>, <<254, 20>>}
SlotIds == {0, 105}
Types == {{"object", "token", "slot", "module", "version"}, {"token"}, {"object", "token"},
          {"module"}, {"module", "version"}, {"slot"}}
Texts == {
    <<"PKCS11", ":", "id", "=", "%", "3", "b", ";", "object", "=", " ", "a">>,
    <<"pkcs11", ":", "token", "=", "a", ";", ";", "object", "=", "a">>,
    <<"pkcs11", ":", "token", "=", "a", "a", "a", "?", "vendor-b", "=", "&">>,
    <<"pkcs11", ":", "library-version", "=", "2", ".", "?", "vendor-b", "=", "&">>,
    <<"pkcs11", ":", "slot-id", "=", "2", ";", "type", "=", "secretkey", ";", "pinfile", "=", "a">>,
    <<"pkcs12", ":">>, <<"pkcs11", ":", "a">>, <<"pkcs11", ":", "id", "=", "%", "3">>}
MaxSteps == 2
U == INSTANCE Uri WITH uri <- v1, steps <- v2

\* Hash tables that grow, with collisions
DictKeys == {"a", "b", "c", "d"}
DictValues == {"v", "w"}
Hash == "a" :> 0 @@ "b" :> 3 @@ "c" :> 3 @@ "d" :> 4
FirstSize == 1
NoValue == ""
H == INSTANCE Dict WITH dict <- v1, iter <- v2, model <- v3, seen <- v4

\* Configuration in three layers, any of them missing, unreadable or malformed
Conffile(status, fields) == [status |-> status, fields |-> fields]
Globals ==
    {Conffile(s, <<>>) : s \in {"ok", "missing", "denied", "malformed"}}
    \cup {Conffile("ok", <<<<"user-config", m>>>>) : m \in {"none", "merge", "only", "x"}}
Modfile(base, suffix, status, fields) ==
    [name |-> [base |-> base, suffix |-> suffix, module |-> suffix = ".module"],
     is_dir |-> FALSE, status |-> status, fields |-> fields]
OfUser == Modfile("a", ".module", "ok", <<<<"module", "u">>>>)
OfSystem == Modfile("a", ".module", "ok", <<<<"module", "s">>, <<"managed", "no">>, <<"module", "t">>>>)
OfPackage == Modfile("a", ".module", "ok", <<<<"managed", "yes">>, <<"critical", "yes">>>>)
Subdirectory == [Modfile("sub", "", "ok", <<>>) EXCEPT !.is_dir = TRUE]
Dirs(f) ==
    {[status |-> s, files |-> <<>>] : s \in {"missing", "denied"}}
    \cup {[status |-> "ok", files |-> fs] : fs \in
            {<<f>>, <<Subdirectory, f>>, <<Modfile("z", "", "malformed", <<>>), f>>,
             <<Modfile("a", "", "ok", <<<<"module", "q">>>>), f>>}}
Setups == [system_conf : Globals, user_conf : Globals, secure : BOOLEAN, root : {FALSE},
           no_user_config : {FALSE}, no_home : {FALSE},
           user_modules : Dirs(OfUser), system_modules : Dirs(OfSystem),
           package_modules : {[status |-> "ok", files |-> <<OfPackage>>]}]
C == INSTANCE Conf WITH setup <- v1, conf <- v2

\* Filtered tokens that move between slots
LowerSlots == {1, 2}
FilterTokens == {"a", "b", "c"}
NoToken == "none"
UriLists == {<<[of |-> {"a"}, wp |-> TRUE], [of |-> {"a", "b"}, wp |-> FALSE]>>,
             <<[of |-> {"b"}, wp |-> FALSE]>>}
MaxFilterSteps == 4
F == INSTANCE Filter WITH lower <- v1, filter <- v2, up <- v3, reached <- v4, seen <- v5, taken <- v6

\* PIN callbacks registered and unregistered while they are called
PinFiles == "small" :> 100 @@ "large" :> 5000
ASSUME PinConstants == ConstantsOK

\* Two threads that initialize and finalize the trust module
Path(name, prefix, writable) == [name |-> name, prefix |-> prefix, writable |-> writable]
SlotThreads == {"t", "u"}
DefaultPaths == <<Path("a", "datadir", TRUE), Path("", "", TRUE), Path("b", "datadir", TRUE)>>
Arguments == {
    [ok |-> TRUE, list |-> <<>>], [ok |-> FALSE, list |-> <<>>],
    [ok |-> TRUE, list |-> <<[name |-> "verbose", value |-> {}],
        [name |-> "paths", value |-> {<<Path("c", "sysconfdir", TRUE), Path("d", "~/", FALSE),
                                        Path("e", "", TRUE)>>}]>>]}
MaxHolds == 1
MaxHandles == 1
S == INSTANCE TrustSlots WITH gl <- v1, handles <- v2, thread <- v3, held <- v4, known <- v5,
                              refused <- v6, answer <- v7

\* Virtual modules, wrapped and unwrapped
Functions2 == {"C_Sign", "C_Init", "C_Find"}
Functions3 == {"C_Msg"}
VirtualStacks == {[layers |-> <<{"C_Sign"}, {"C_Init"}>>, major |-> 2],
                  [layers |-> <<{}, {}>>, major |-> 2], [layers |-> <<{}>>, major |-> 3]}
ExportStack == [layers |-> <<{"C_Sign", "C_Init", "C_Msg"}>>, major |-> 3]
P11_VIRTUAL_MAX_FIXED == 2
MaxWraps == 3
W == INSTANCE Wrappers WITH ffi <- v1, vm <- v2, virtual_interface <- v3, direct <- v4,
                            given <- v5, aborted <- v6

\* Every call of the API through the log, the RPC client and the RPC server; how
\* rpc_C_Finalize ends the connection is in RpcLink.
API == INSTANCE CallTables
R == INSTANCE RpcCall WITH
    Calls <- DOMAIN API!CK_X_FUNCTION_LIST \ {"C_Finalize"}, Versions <- {0, 1}, Odd <- {},
    phase <- v1, call <- v2, msg <- v3, seen <- v4, result <- v5, log <- v6
-----------------------------------------------------------------------------
LibraryInit ==
    /\ Init
    /\ \/ part = "text" /\ T!Init /\ From2
       \/ part = "uri" /\ U!Init /\ From3
       \/ part = "dict" /\ H!Init /\ From5
       \/ part = "conf" /\ C!Init /\ From3
       \/ part = "filter" /\ F!Init /\ From7
       \/ part = "pin" /\ From1
       \/ part = "slots" /\ S!Init
       \/ part = "wrappers" /\ W!Init /\ From7
       \/ part = "calls" /\ R!LoggedInit /\ From7

LibraryNext ==
    \/ part = "uri" /\ U!Next /\ UNCHANGED <<part, vars, v3, v4, v5, v6, v7>>
    \/ part = "dict" /\ H!Next /\ UNCHANGED <<part, vars, v5, v6, v7>>
    \/ part = "conf" /\ C!Next /\ UNCHANGED <<part, vars, v3, v4, v5, v6, v7>>
    \/ part = "filter" /\ F!Next /\ UNCHANGED <<part, vars, v7>>
    \/ part = "pin" /\ Next /\ UNCHANGED <<part, v1, v2, v3, v4, v5, v6, v7>>
    \/ part = "slots" /\ S!Next /\ UNCHANGED <<part, vars>>
    \/ part = "wrappers" /\ W!Next /\ UNCHANGED <<part, vars, v7>>
    \/ part = "calls" /\ R!LoggedNext /\ UNCHANGED <<part, vars, v7>>

LibrarySpec == LibraryInit /\ [][LibraryNext]_<<part, v1, v2, v3, v4, v5, v6, v7, vars>>

(* What is converted or written can be read back, and nothing else is read:  *)
(* see ConversionsInvert, AcceptsExactly, BuildStaysBelow, DatesInWindow and *)
(* LexerReadsWritten in Text, FormatParses and UncoveredNeverMatches in Uri. *)
TextReadsBack ==
    /\ part = "text" => /\ T!ConversionsInvert /\ T!AcceptsExactly /\ T!BuildStaysBelow
                        /\ T!DatesInWindow /\ T!LexerReadsWritten
    /\ part = "uri" => U!FormatParses /\ U!UncoveredNeverMatches

(* A hash table is the map of what was set and not removed, and an iterator  *)
(* over it sees every entry once: see Dict.                                  *)
DictIsMap == part = "dict" => H!DictIsMap /\ H!IterationSeesAll

(* The options of a module come from the first layer that has the module,    *)
(* and a privileged program ignores the user's: see Conf.                    *)
FirstLayerWins == part = "conf" => C!FirstLayerWins /\ C!PrivilegedIgnoresUser


(* The slots of the trust module stay what they were told to be while a      *)
(* caller has it initialized: see TrustSlots.                                *)
SlotsStable == part = "slots" => S!SlotsStable

(* A call through a wrapper reaches the module that was wrapped: see         *)
(* Wrappers.                                                                 *)
WrapperReachesOwn == part = "wrappers" => W!WrapperReachesOwn


(* The log shows the arguments and the results of a call as caller and       *)
(* module see them: LogShowsArguments and LogShowsAnswer of RpcCall.         *)
LogFaithful == part = "calls" => R!LogShowsArguments /\ R!LogShowsAnswer
=============================================================================

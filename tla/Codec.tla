------------------------------- MODULE Codec -------------------------------
(***************************************************************************)
(* The protobuf messages of src/src/proto/api.ts and what its generated    *)
(* encode, decode, fromJSON, toJSON and fromPartial do with them.          *)
(*                                                                         *)
(* The generated file repeats the same five functions for every message    *)
(* type; they differ in the list of fields only.  The list is kept here,   *)
(* one definition per message type, and the functions are written once     *)
(* over it.  A field is [num, name, kind, of]; a message is a function     *)
(* from the field names to values; a string, a byte array or a number is   *)
(* an opaque value; a field that is `undefined' is Unset.  A byte stream   *)
(* is the sequence of its tokens [num, wt, val]: the tag (field number and *)
(* wire type) and the payload, which for a message is again a sequence.    *)
(***************************************************************************)
EXTENDS Integers, Sequences, SequencesExt, FiniteSets

CONSTANTS
    Unset,        \* JavaScript's undefined
    Thrown,       \* the outcome of a decoder that throws
    MaxSafe,      \* Number.MAX_SAFE_INTEGER, scaled down
    MaxUnknown    \* bound: fields of a newer schema a sender adds to a message

VARIABLES
    type,         \* the message type being exchanged
    sent,         \* the message as its sender holds it
    encoded,      \* the tokens on the wire
    unknown,      \* how many fields of a newer schema are on the wire
    got           \* the message as its receiver holds it, Unset before

codecVars == <<type, sent, encoded, unknown, got>>

-----------------------------------------------------------------------------
(* The kinds of field, and the lists of fields *)

Field(num, name, kind, of) ==
    [num |-> num, name |-> name, kind |-> kind, of |-> of]
U32(num, name)      == Field(num, name, "uint32", "")
U64(num, name)      == Field(num, name, "uint64", "")
Str(num, name)      == Field(num, name, "string", "")
Bytes(num, name)    == Field(num, name, "bytes", "")
Strs(num, name)     == Field(num, name, "strings", "")
Enum(num, name, of) == Field(num, name, "enum", of)
Msg(num, name, of)  == Field(num, name, "message", of)
Msgs(num, name, of) == Field(num, name, "messages", of)
Map(num, name, of)  == Field(num, name, "map", of)

(* the recognised values of the enumerations *)
TranscriptMessageSenderType == 0 .. 2
ServiceSignatureType == 0 .. 1
AttestorVersion == 0 .. 4
ErrorCode == 0 .. 11
ZKProofEngine == 0 .. 1

Recognised == [
    TranscriptMessageSenderType |-> TranscriptMessageSenderType,
    ServiceSignatureType |-> ServiceSignatureType,
    AttestorVersion |-> AttestorVersion,
    ErrorCode |-> ErrorCode,
    ZKProofEngine |-> ZKProofEngine]

ClaimContext == <<
    Map(1, "extractedParameters", "ClaimContext_ExtractedParametersEntry"),
    Str(2, "providerHash")>>

ClaimContext_ExtractedParametersEntry == <<Str(1, "key"), Str(2, "value")>>

ProviderClaimData == <<
    Str(1, "provider"), Str(2, "parameters"), Str(3, "owner"),
    U32(4, "timestampS"), Str(6, "context"), Str(8, "identifier"),
    U32(9, "epoch")>>

ProviderClaimInfo == <<Str(1, "provider"), Str(2, "parameters"),
    Str(6, "context")>>

ErrorData == <<Enum(1, "code", "ErrorCode"), Str(2, "message"), Str(3, "data")>>

CreateTunnelRequest == <<U32(1, "id"), Str(2, "host"), U32(3, "port"),
    Str(4, "geoLocation")>>

DisconnectTunnelRequest == <<U32(1, "id")>>

Empty == <<>>

TunnelMessage == <<U32(1, "tunnelId"), Bytes(2, "message")>>

TunnelDisconnectEvent == <<U32(1, "tunnelId"), Msg(2, "error", "ErrorData")>>

MessageReveal == <<
    Msg(1, "directReveal", "MessageReveal_MessageRevealDirect"),
    Msg(2, "zkReveal", "MessageReveal_MessageRevealZk")>>

MessageReveal_MessageRevealDirect == <<Bytes(1, "key"), Bytes(2, "iv"),
    U32(3, "recordNumber")>>

MessageReveal_MessageRevealZk == <<Msgs(1, "proofs", "MessageReveal_ZKProof")>>

MessageReveal_ZKProof == <<
    Str(1, "proofJson"), Bytes(2, "decryptedRedactedCiphertext"),
    Bytes(3, "redactedPlaintext"), U32(4, "startIdx"), Bytes(5, "proofData"),
    Msg(6, "toprf", "TOPRFPayload")>>

TOPRFPayload == <<Msg(1, "dataLocation", "DataSlice"), Bytes(2, "nullifier"),
    Msgs(3, "responses", "TOPRFResponse")>>

DataSlice == <<U32(1, "fromIndex"), U32(2, "length")>>

ClaimRequestData == <<
    Str(1, "provider"), Str(2, "parameters"), Str(3, "owner"),
    U32(4, "timestampS"), Str(5, "context")>>

ClaimTunnelRequest == <<
    Msg(1, "request", "CreateTunnelRequest"),
    Msg(2, "data", "ClaimRequestData"),
    Msgs(3, "transcript", "ClaimTunnelRequest_TranscriptMessage"),
    Msg(4, "signatures", "ClaimTunnelRequest_Signatures"),
    Enum(5, "zkEngine", "ZKProofEngine"), Bytes(6, "fixedServerIV"),
    Bytes(7, "fixedClientIV")>>

ClaimTunnelRequest_Signatures == <<Bytes(1, "requestSignature")>>

ClaimTunnelRequest_TranscriptMessage == <<
    Enum(1, "sender", "TranscriptMessageSenderType"), Bytes(2, "message"),
    Msg(3, "reveal", "MessageReveal")>>

ClaimTunnelResponse == <<Msg(1, "request", "ClaimTunnelRequest"),
    Msg(2, "claim", "ProviderClaimData"), Msg(3, "error", "ErrorData"),
    Msg(4, "signatures", "ClaimTunnelResponse_Signatures")>>

ClaimTunnelResponse_Signatures == <<Str(1, "attestorAddress"),
    Bytes(2, "claimSignature"), Bytes(3, "resultSignature")>>

RequestClaimOnAvsRequest == <<U32(1, "chainId"),
    Str(2, "jsonCreateClaimRequest"), Bytes(3, "requestSignature")>>

RequestClaimOnAvsResponse == <<Str(1, "txHash"), U32(2, "taskIndex"),
    Str(3, "jsonTask")>>

CompleteClaimOnAvsRequest == <<U32(1, "chainId"), U32(2, "taskIndex"),
    Str(3, "completedTaskJson")>>

CompleteClaimOnAvsResponse == <<Str(1, "txHash"),
    Str(2, "taskCompletedObjectJson")>>

CreateTaskOnMechainRequest == <<U32(1, "timestamp")>>

CreateTaskOnMechainResponse == <<U32(1, "taskId"),
    U32(2, "requiredAttestors"), Strs(3, "hosts")>>

AuthenticatedUserData == <<Str(1, "id"), U32(2, "createdAt"),
    U32(3, "expiresAt"), Strs(4, "hostWhitelist")>>

AuthenticationRequest == <<Msg(1, "data", "AuthenticatedUserData"),
    Bytes(2, "signature")>>

InitRequest == <<Enum(2, "clientVersion", "AttestorVersion"),
    Enum(3, "signatureType", "ServiceSignatureType"),
    Msg(4, "auth", "AuthenticationRequest")>>

InitResponse == <<Bytes(1, "toprfPublicKey")>>

TOPRFRequest == <<Bytes(1, "maskedData"), Enum(2, "engine", "ZKProofEngine")>>

TOPRFResponse == <<Bytes(1, "publicKeyShare"), Bytes(2, "evaluated"),
    Bytes(3, "c"), Bytes(4, "r")>>

RPCMessage == <<
    U64(1, "id"), Msg(2, "initRequest", "InitRequest"),
    Msg(3, "initResponse", "InitResponse"),
    Msg(4, "connectionTerminationAlert", "ErrorData"),
    Msg(5, "requestError", "ErrorData"),
    Msg(6, "createTunnelRequest", "CreateTunnelRequest"),
    Msg(7, "createTunnelResponse", "Empty"),
    Msg(8, "disconnectTunnelRequest", "DisconnectTunnelRequest"),
    Msg(9, "disconnectTunnelResponse", "Empty"),
    Msg(10, "tunnelMessage", "TunnelMessage"),
    Msg(11, "tunnelDisconnectEvent", "TunnelDisconnectEvent"),
    Msg(12, "claimTunnelRequest", "ClaimTunnelRequest"),
    Msg(13, "claimTunnelResponse", "ClaimTunnelResponse"),
    Msg(14, "createClaimOnChainRequest", "RequestClaimOnAvsRequest"),
    Msg(15, "createClaimOnChainResponse", "RequestClaimOnAvsResponse"),
    Msg(16, "completeClaimOnChainRequest", "CompleteClaimOnAvsRequest"),
    Msg(17, "completeClaimOnChainResponse", "CompleteClaimOnAvsResponse"),
    Msg(18, "toprfRequest", "TOPRFRequest"),
    Msg(19, "toprfResponse", "TOPRFResponse"),
    Msg(20, "createTaskOnMechainRequest", "CreateTaskOnMechainRequest"),
    Msg(21, "createTaskOnMechainResponse", "CreateTaskOnMechainResponse")>>

RPCMessages == <<Msgs(1, "messages", "RPCMessage")>>

Schema == [
    ClaimContext |-> ClaimContext,
    ClaimContext_ExtractedParametersEntry |-> ClaimContext_ExtractedParametersEntry,
    ProviderClaimData |-> ProviderClaimData,
    ProviderClaimInfo |-> ProviderClaimInfo,
    ErrorData |-> ErrorData,
    CreateTunnelRequest |-> CreateTunnelRequest,
    DisconnectTunnelRequest |-> DisconnectTunnelRequest,
    Empty |-> Empty,
    TunnelMessage |-> TunnelMessage,
    TunnelDisconnectEvent |-> TunnelDisconnectEvent,
    MessageReveal |-> MessageReveal,
    MessageReveal_MessageRevealDirect |-> MessageReveal_MessageRevealDirect,
    MessageReveal_MessageRevealZk |-> MessageReveal_MessageRevealZk,
    MessageReveal_ZKProof |-> MessageReveal_ZKProof,
    TOPRFPayload |-> TOPRFPayload,
    DataSlice |-> DataSlice,
    ClaimRequestData |-> ClaimRequestData,
    ClaimTunnelRequest |-> ClaimTunnelRequest,
    ClaimTunnelRequest_Signatures |-> ClaimTunnelRequest_Signatures,
    ClaimTunnelRequest_TranscriptMessage |-> ClaimTunnelRequest_TranscriptMessage,
    ClaimTunnelResponse |-> ClaimTunnelResponse,
    ClaimTunnelResponse_Signatures |-> ClaimTunnelResponse_Signatures,
    RequestClaimOnAvsRequest |-> RequestClaimOnAvsRequest,
    RequestClaimOnAvsResponse |-> RequestClaimOnAvsResponse,
    CompleteClaimOnAvsRequest |-> CompleteClaimOnAvsRequest,
    CompleteClaimOnAvsResponse |-> CompleteClaimOnAvsResponse,
    CreateTaskOnMechainRequest |-> CreateTaskOnMechainRequest,
    CreateTaskOnMechainResponse |-> CreateTaskOnMechainResponse,
    AuthenticatedUserData |-> AuthenticatedUserData,
    AuthenticationRequest |-> AuthenticationRequest,
    InitRequest |-> InitRequest,
    InitResponse |-> InitResponse,
    TOPRFRequest |-> TOPRFRequest,
    TOPRFResponse |-> TOPRFResponse,
    RPCMessage |-> RPCMessage,
    RPCMessages |-> RPCMessages]

Fields(ty) == ToSet(Schema[ty])
Names(ty) == {f.name : f \in Fields(ty)}

-----------------------------------------------------------------------------
(* createBase..., encode, decode *)

Default(f) ==
    CASE f.kind \in {"uint32", "uint64", "enum"} -> 0
      [] f.kind \in {"string", "bytes"}          -> ""
      [] f.kind \in {"strings", "messages"}      -> <<>>
      [] f.kind = "map"                          -> <<>>
      [] f.kind = "message"                      -> Unset

(* createBase<type>() *)
Base(ty) == [n \in Names(ty) |->
                Default(CHOOSE f \in Fields(ty) : f.name = n)]

WireType(f) == IF f.kind \in {"uint32", "uint64", "enum"} THEN 0 ELSE 2

Token(f, val) == [num |-> f.num, wt |-> WireType(f), val |-> val]

(* what encode leaves out: a field that holds its default value.  A message *)
(* that is set is written even if it is empty.                             *)
(* Wrong on purpose, as every definition named _Bug: an empty message is   *)
(* taken for one that is not set.                                          *)
LeftOut_Bug(f, v) ==
    v = Default(f) \/ (f.kind = "message" /\ v = Base(f.of))
LeftOut(f, v) == v = Default(f)

(* <type>.encode: the fields in the order of the schema *)
RECURSIVE Encode(_, _)
Encode(ty, m) ==
    LET Write(f) ==
            LET v == m[f.name] IN
            CASE f.kind = "messages" ->
                    [i \in 1 .. Len(v) |-> Token(f, Encode(f.of, v[i]))]
              [] f.kind = "strings"  -> [i \in 1 .. Len(v) |-> Token(f, v[i])]
              [] f.kind = "map"      ->
                    LET ks == SetToSeq(DOMAIN v) IN
                    [i \in 1 .. Len(ks) |->
                        Token(f, Encode(f.of, [key   |-> ks[i],
                                               value |-> v[ks[i]]]))]
              [] LeftOut(f, v)       -> <<>>
              [] f.kind = "message"  -> <<Token(f, Encode(f.of, v))>>
              [] OTHER               -> <<Token(f, v)>>
    IN  FlattenSeq([i \in 1 .. Len(Schema[ty]) |-> Write(Schema[ty][i])])

(* the end of a group, and a zero tag, end the decoding of a message *)
EndsMessage(t) == t.wt = 4 \/ (t.num = 0 /\ t.wt = 0)

(* what one known field does to the message that is being decoded *)
Put(m, f, v) ==
    CASE f.kind \in {"strings", "messages"} ->
            [m EXCEPT ![f.name] = Append(@, v)]
      [] f.kind = "map" -> [m EXCEPT ![f.name] =
            [k \in DOMAIN @ \cup {v.key} |-> IF k = v.key THEN v.value ELSE @[k]]]
      [] OTHER -> [m EXCEPT ![f.name] = v]

(* <type>.decode: reads tokens into m until the input or the message ends; *)
(* `left' is what the reader has not consumed, which the decoder of the    *)
(* enclosing message goes on with.  A field that is not in the schema, or  *)
(* has another wire type, is skipped; a message that occurs twice replaces *)
(* the earlier one.                                                        *)
RECURSIVE Read(_, _, _)
Read(ty, m, tokens) ==
    IF tokens = <<>> THEN [m |-> m, left |-> <<>>]
    ELSE LET t     == Head(tokens)
             known == {f \in Fields(ty) : f.num = t.num /\ WireType(f) = t.wt}
             f     == CHOOSE x \in known : TRUE
         IN  IF known = {}
             THEN IF EndsMessage(t) THEN [m |-> m, left |-> Tail(tokens)]
                                    ELSE Read(ty, m, Tail(tokens))
             ELSE IF f.kind \in {"message", "messages", "map"}
             THEN LET sub == Read(f.of, Base(f.of), t.val) IN
                  Read(ty, Put(m, f, sub.m), sub.left \o Tail(tokens))
             ELSE Read(ty, Put(m, f, t.val), Tail(tokens))

Decode(ty, tokens) == Read(ty, Base(ty), tokens).m

(* longToNumber: a decoder throws on an id above the largest integer a     *)
(* JavaScript number holds exactly, at whatever level the id is.           *)
RECURSIVE Readable(_, _)
Readable(ty, tokens) ==
    \A i \in 1 .. Len(tokens) : \A f \in Fields(ty) :
        (f.num = tokens[i].num /\ WireType(f) = tokens[i].wt) =>
            /\ f.kind = "uint64" => tokens[i].val <= MaxSafe
            /\ f.kind \in {"message", "messages", "map"}
                    => Readable(f.of, tokens[i].val)

-----------------------------------------------------------------------------
(* toJSON, fromJSON, fromPartial *)

(* the name of an enumeration's value, here <<value>>, or "UNRECOGNIZED", *)
(* here <<>>, which reads back as -1                                       *)
(* Wrong on purpose: the case of the last value is missing. *)
EnumToJSON_Bug(of, v) == IF {v, v + 1} \subseteq Recognised[of] THEN <<v>> ELSE <<>>
EnumToJSON(of, v) == IF v \in Recognised[of] THEN <<v>> ELSE <<>>
EnumFromJSON(j) == IF j = <<>> THEN -1 ELSE j[1]

base64FromBytes(v) == [base64 |-> v]
bytesFromBase64(j) == j.base64

(* <type>.toJSON: an object with the fields that do not hold their default *)
RECURSIVE ToJSON(_, _)
ToJSON(ty, m) ==
    LET set == {f \in Fields(ty) : m[f.name] # Default(f)}
        Value(f) ==
            LET v == m[f.name] IN
            CASE f.kind = "bytes"    -> base64FromBytes(v)
              [] f.kind = "enum"     -> EnumToJSON(f.of, v)
              [] f.kind = "message"  -> ToJSON(f.of, v)
              [] f.kind = "messages" -> [i \in 1 .. Len(v) |-> ToJSON(f.of, v[i])]
              [] OTHER               -> v
    IN  [n \in {f.name : f \in set} |->
            Value(CHOOSE f \in set : f.name = n)]

(* <type>.fromJSON: every field, with its default where the object has none *)
RECURSIVE FromJSON(_, _)
FromJSON(ty, j) ==
    LET Value(f) ==
            LET v == j[f.name] IN
            CASE f.kind = "bytes"    -> bytesFromBase64(v)
              [] f.kind = "enum"     -> EnumFromJSON(v)
              [] f.kind = "message"  -> FromJSON(f.of, v)
              [] f.kind = "messages" -> [i \in 1 .. Len(v) |-> FromJSON(f.of, v[i])]
              [] OTHER               -> v
    IN  [n \in Names(ty) |->
            LET f == CHOOSE x \in Fields(ty) : x.name = n IN
            IF n \in DOMAIN j THEN Value(f) ELSE Default(f)]

(* <type>.fromPartial, create: a copy with the schema's fields and no other; *)
(* null and undefined become the default.                                    *)
RECURSIVE FromPartial(_, _)
FromPartial(ty, p) ==
    LET Value(f) ==
            LET v == p[f.name] IN
            CASE v = Unset           -> Default(f)
              [] f.kind = "message"  -> FromPartial(f.of, v)
              [] f.kind = "messages" -> [i \in 1 .. Len(v) |-> FromPartial(f.of, v[i])]
              [] OTHER               -> v
    IN  [n \in Names(ty) |->
            LET f == CHOOSE x \in Fields(ty) : x.name = n IN
            IF n \in DOMAIN p THEN Value(f) ELSE Default(f)]

-----------------------------------------------------------------------------
(* RPC messages and the bytes that are signed *)

(* getRpcTypeFromKey: the call a member of RPCMessage belongs to *)
RpcTypes == [
    initRequest |-> <<"init", "request">>,
    initResponse |-> <<"init", "response">>,
    createTunnelRequest |-> <<"createTunnel", "request">>,
    createTunnelResponse |-> <<"createTunnel", "response">>,
    disconnectTunnelRequest |-> <<"disconnectTunnel", "request">>,
    disconnectTunnelResponse |-> <<"disconnectTunnel", "response">>,
    claimTunnelRequest |-> <<"claimTunnel", "request">>,
    claimTunnelResponse |-> <<"claimTunnel", "response">>,
    createClaimOnChainRequest |-> <<"createClaimOnChain", "request">>,
    createClaimOnChainResponse |-> <<"createClaimOnChain", "response">>,
    completeClaimOnChainRequest |-> <<"completeClaimOnChain", "request">>,
    completeClaimOnChainResponse |-> <<"completeClaimOnChain", "response">>,
    toprfRequest |-> <<"toprf", "request">>,
    toprfResponse |-> <<"toprf", "response">>,
    createTaskOnMechainRequest |-> <<"createTaskOnMechain", "request">>,
    createTaskOnMechainResponse |-> <<"createTaskOnMechain", "response">>]

(* getRpcRequest: an error first, then the first member that is set *)
getRpcRequest(m) ==
    LET set == SelectSeq(RPCMessage, LAMBDA f :
                   f.name \in DOMAIN RpcTypes /\ m[f.name] # Unset)
    IN  IF m.requestError # Unset THEN <<"error", "response">>
        ELSE IF set = <<>> THEN Unset ELSE RpcTypes[set[1].name]

(* packRpcMessages, for one message: both levels are copied with create *)
packRpcMessages(partial) ==
    FromPartial("RPCMessages",
        [messages |-> <<FromPartial("RPCMessage", partial)>>])

(* the bytes a claim request's signature is about: made by the client      *)
(* before it sets `signatures', and by the attestor from what it decoded    *)
(* Wrong on purpose: blanks the signature and leaves the message set.      *)
Unsigned_Bug(ty, m) ==
    Encode(ty, [m EXCEPT !.signatures = Base(ty \o "_Signatures")])
Unsigned(ty, m) == Encode(ty, [m EXCEPT !.signatures = Unset])

-----------------------------------------------------------------------------
(* Sample messages: every field one by one and two by two, and all at once *)

RECURSIVE Full(_)
Sample(f) ==
    CASE f.kind \in {"uint32", "uint64", "enum"} -> 1
      [] f.kind \in {"string", "bytes"} -> "x"
      [] f.kind = "strings"  -> <<"x", "", "x">>
      [] f.kind = "messages" -> <<Full(f.of), Base(f.of)>>
      [] f.kind = "map"      -> [k \in {"", "x"} |-> k]
      [] f.kind = "message"  -> Full(f.of)
Full(ty) == [n \in Names(ty) |->
                Sample(CHOOSE f \in Fields(ty) : f.name = n)]

(* values of a field at its edges: the largest id and one above it, also   *)
(* one level down, a value of an enumeration that only a newer peer knows, *)
(* a message set but empty                                                 *)
Values(f) ==
    {Sample(f)} \cup
    CASE f.kind = "uint64"  -> {MaxSafe, MaxSafe + 1}
      [] f.kind = "messages" -> {<<[Base(f.of) EXCEPT ![g.name] = MaxSafe + 1]>> :
                                    g \in {x \in Fields(f.of) : x.kind = "uint64"}}
      [] f.kind = "enum"    -> {99}
      [] f.kind = "message" -> {Base(f.of)}
      [] OTHER              -> {}

Messages(ty) ==
    {Full(ty), Base(ty)} \cup
    UNION {{[Base(ty) EXCEPT ![f.name] = v, ![g.name] = w] :
                v \in Values(f), w \in Values(g)} : f, g \in Fields(ty)}

-----------------------------------------------------------------------------
(* One message from a sender to a receiver *)

CodecInit ==
    /\ type \in DOMAIN Schema
    /\ sent \in Messages(type)
    /\ encoded = <<>>
    /\ unknown = 0
    /\ got = Unset

Send ==
    /\ encoded = <<>> /\ got = Unset
    /\ encoded' = Encode(type, sent)
    /\ encoded' # <<>>
    /\ UNCHANGED <<type, sent, unknown, got>>

(* the sender is of a newer version, whose schema has one more field: a    *)
(* varint or a length-delimited one, in the message or one level down      *)
NewerField(i, wt) ==
    /\ encoded # <<>> /\ got = Unset
    /\ unknown < MaxUnknown
    /\ unknown' = unknown + 1
    /\ LET t == [num |-> 99, wt |-> wt, val |-> <<>>]
           nested == \E f \in Fields(type) : /\ f.num = encoded[i].num
                                             /\ f.kind \in {"message", "messages"}
       IN  \/ encoded' = InsertAt(encoded, i, t)
           \/ /\ nested
              /\ encoded' = [encoded EXCEPT ![i].val = Append(@, t)]
    /\ UNCHANGED <<type, sent, got>>

Receive ==
    /\ got = Unset
    /\ encoded # <<>> \/ Encode(type, sent) = <<>>
    /\ got' = IF Readable(type, encoded) THEN Decode(type, encoded) ELSE Thrown
    /\ UNCHANGED <<type, sent, encoded, unknown>>

CodecNext ==
    \/ Send
    \/ \E i \in DOMAIN encoded, wt \in {0, 2} : NewerField(i, wt)
    \/ Receive

-----------------------------------------------------------------------------
RECURSIVE SafeIds(_, _)
SafeIds(ty, m) == \A f \in Fields(ty) :
    LET v == m[f.name] IN
    CASE f.kind = "uint64"   -> v <= MaxSafe
      [] f.kind = "message"  -> v = Unset \/ SafeIds(f.of, v)
      [] f.kind = "messages" -> \A i \in 1 .. Len(v) : SafeIds(f.of, v[i])
      [] OTHER               -> TRUE

(* What the receiver holds is what the sender held, field by field: a zero, *)
(* an empty message that is set, an unknown value of an enumeration and the *)
(* fields of a newer sender included.  It takes no message with an id that  *)
(* a number cannot hold exactly, and refuses no other.                      *)
DecodedAsSent ==
    got # Unset => got = IF SafeIds(type, sent) THEN sent ELSE Thrown

(* the two properties below are about the message itself, whatever becomes *)
(* of it on the wire                                                      *)
Unsent == encoded = <<>> /\ got = Unset

RECURSIVE KnownEnums(_, _)
KnownEnums(ty, m) == \A f \in Fields(ty) :
    LET v == m[f.name] IN
    CASE f.kind = "enum"     -> v \in Recognised[f.of]
      [] f.kind = "message"  -> v = Unset \/ KnownEnums(f.of, v)
      [] f.kind = "messages" -> \A i \in 1 .. Len(v) : KnownEnums(f.of, v[i])
      [] OTHER               -> TRUE

(* A message whose enumerations hold recognised values survives toJSON and *)
(* fromJSON.                                                               *)
JsonRoundTrip ==
    Unsent /\ KnownEnums(type, sent) => FromJSON(type, ToJSON(type, sent)) = sent

(* A claim request (or response) is signed as the object its sender built,  *)
(* which has members the schema does not know (the mask and the plaintext   *)
(* of an OPRF), then gets its signatures, is packed into an RPC message     *)
(* with other copies made on the way, and is verified as the receiver       *)
(* decoded it: the two sign the same bytes, and the receiver takes the      *)
(* message for the call it is.                                              *)
SignedBytesSurvive ==
    Unsent /\ type \in {"ClaimTunnelRequest", "ClaimTunnelResponse"} =>
    LET member == IF type = "ClaimTunnelRequest" THEN "claimTunnelRequest"
                                                 ELSE "claimTunnelResponse"
        object == [n \in Names(type) \cup {"mask", "plaintext"} |->
                      IF n \in Names(type) THEN sent[n] ELSE "x"]
        made   == FromPartial(type, object)
        signed == [made EXCEPT !.signatures = Full(type \o "_Signatures")]
        packed == packRpcMessages([n \in {"id", member} |->
                      IF n = "id" THEN 1 ELSE signed])
        rpc    == Decode("RPCMessages", Encode("RPCMessages", packed)).messages[1]
    IN  /\ Unsigned(type, rpc[member]) = Encode(type, [made EXCEPT !.signatures = Unset])
        /\ getRpcRequest(rpc) = RpcTypes[member]
=============================================================================

----------------------------- MODULE HttpBindings -----------------------------
(***************************************************************************)
(* The Go side of wasi:http/types: the declarations of types.wit.go and    *)
(* types.wasm.go, and abi.go, which takes a variant that lies in memory    *)
(* apart into core values.                                                 *)
(***************************************************************************)
EXTENDS DriverBindings

HttpMethod == GoVariant(1, String, String,
  plain(<<"get", "head", "post", "put", "delete", "connect", "options", "trace", "patch">>)
  \o << <<"other", String>> >>)
Scheme == GoVariant(1, String, String, plain(<<"HTTP", "HTTPS">>) \o << <<"other", String>> >>)
DNSErrorPayload == Struct(<< <<"rcode", GoOption(String)>>, <<"info-code", GoOption(U16)>> >>)
TLSAlertReceivedPayload == Struct(<< <<"alert-id", GoOption(U8)>>, <<"alert-message", GoOption(String)>> >>)
FieldSizePayload == Struct(<< <<"field-name", GoOption(String)>>, <<"field-size", GoOption(U32)>> >>)

(* The 39 cases of ErrorCode, in the order of their tags. *)
ConnectionErrors ==
  << <<"DNS-timeout", Unit>>, <<"DNS-error", DNSErrorPayload>> >>
  \o plain(<<"destination-not-found", "destination-unavailable", "destination-IP-prohibited",
       "destination-IP-unroutable", "connection-refused", "connection-terminated",
       "connection-timeout", "connection-read-timeout", "connection-write-timeout",
       "connection-limit-reached", "TLS-protocol-error", "TLS-certificate-error">>)
  \o << <<"TLS-alert-received", TLSAlertReceivedPayload>> >>
RequestErrors ==
  plain(<<"HTTP-request-denied", "HTTP-request-length-required">>)
  \o << <<"HTTP-request-body-size", GoOption(U64)>> >>
  \o plain(<<"HTTP-request-method-invalid", "HTTP-request-URI-invalid", "HTTP-request-URI-too-long">>)
  \o << <<"HTTP-request-header-section-size", GoOption(U32)>>,
        <<"HTTP-request-header-size", GoOption(FieldSizePayload)>>,
        <<"HTTP-request-trailer-section-size", GoOption(U32)>>,
        <<"HTTP-request-trailer-size", FieldSizePayload>> >>
ResponseErrors ==
  << <<"HTTP-response-incomplete", Unit>>, <<"HTTP-response-header-section-size", GoOption(U32)>>,
     <<"HTTP-response-header-size", FieldSizePayload>>, <<"HTTP-response-body-size", GoOption(U64)>>,
     <<"HTTP-response-trailer-section-size", GoOption(U32)>>,
     <<"HTTP-response-trailer-size", FieldSizePayload>>,
     <<"HTTP-response-transfer-coding", GoOption(String)>>,
     <<"HTTP-response-content-coding", GoOption(String)>> >>
OtherErrors ==
  plain(<<"HTTP-response-timeout", "HTTP-upgrade-failed", "HTTP-protocol-error", "loop-detected",
          "configuration-error">>)
  \o << <<"internal-error", GoOption(String)>> >>
ErrorCode == GoVariant(1, Shape(GoOption(FieldSizePayload)), GoOption(U64),
  ConnectionErrors \o RequestErrors \o ResponseErrors \o OtherErrors)
HeaderError == GoEnum(<<"invalid-syntax", "forbidden", "immutable">>)

-----------------------------------------------------------------------------
(* abi.go: a value that lies at address a of memory m as core values.  A   *)
(* slot that the case does not use stays zero.                             *)
Zero(core) == Slot(core, <<>>, 0)
Core1(m, a, width, core) == LET r == Read(m, a, width) IN Slot(core, r.of, r.n)
LowerString(m, a) == <<Core1(m, a, 4, "i32"), Core1(m, a + 4, 4, "i32")>>
Tag(m, a) == Core1(m, a, 1, "i32")
Some(m, a) == Read(m, a, 1).n = 1
Second(T, a) == a + Layout(T).parts[2].at
As(core, s) == [s EXCEPT !.core = core]

lower_OptionString(m, a) ==
  IF Some(m, a) THEN <<Slot("i32", <<>>, 1)>> \o LowerString(m, Second(GoOption(String), a))
  ELSE <<Zero("i32"), Zero("i32"), Zero("i32")>>
lower_Method(m, a) ==
  <<Tag(m, a)>> \o IF Tag(m, a).n = 9 THEN LowerString(m, Second(HttpMethod, a))
                   ELSE <<Zero("i32"), Zero("i32")>>
lower_Scheme(m, a) ==
  <<Tag(m, a)>> \o IF Tag(m, a).n = 2 THEN LowerString(m, Second(Scheme, a))
                   ELSE <<Zero("i32"), Zero("i32")>>
lower_OptionScheme(m, a) ==
  IF Some(m, a) THEN <<Slot("i32", <<>>, 1)>> \o lower_Scheme(m, Second(GoOption(Scheme), a))
  ELSE [i \in 1 .. 4 |-> Zero("i32")]
(* Options of one number: duration, u8, u16, u32, u64 and trailers. *)
lower_OptionNumber(m, a, T) ==
  IF Some(m, a) THEN <<Slot("i32", <<>>, 1), Core1(m, Second(GoOption(T), a), T.size, T.core)>>
  ELSE <<Zero("i32"), Zero(T.core)>>
lower_DNSErrorPayload(m, a) ==
  lower_OptionString(m, a) \o lower_OptionNumber(m, Second(DNSErrorPayload, a), U16)
lower_TLSAlertReceivedPayload(m, a) ==
  lower_OptionNumber(m, a, U8) \o lower_OptionString(m, Second(TLSAlertReceivedPayload, a))
lower_FieldSizePayload(m, a) ==
  lower_OptionString(m, a) \o lower_OptionNumber(m, Second(FieldSizePayload, a), U32)
lower_OptionFieldSizePayload(m, a) ==
  IF Some(m, a) THEN <<Slot("i32", <<>>, 1)>> \o lower_FieldSizePayload(m, Second(GoOption(FieldSizePayload), a))
  ELSE [i \in 1 .. 6 |-> Zero("i32")]

(* f1 .. f6 of lower_ErrorCode: f2 is 64 bits wide, whatever it holds. *)
Payload(s) ==
  [i \in 1 .. 6 |-> LET core == IF i = 2 THEN "i64" ELSE "i32"
                    IN  IF i <= Len(s) THEN As(core, s[i]) ELSE Zero(core)]

(* Mutant of lower_ErrorCase: case 22 is taken for a plain payload. *)
lower_ErrorCaseBare(m, tag, p) ==
  CASE tag \in {17, 28} -> lower_OptionNumber(m, p, U64)
    [] tag \in {22, 24, 27, 30} -> lower_FieldSizePayload(m, p)
    [] OTHER -> <<>>

lower_ErrorCase(m, tag, p) ==
  CASE tag = 1  -> lower_DNSErrorPayload(m, p)
    [] tag = 14 -> lower_TLSAlertReceivedPayload(m, p)
    [] tag \in {17, 28} -> lower_OptionNumber(m, p, U64)
    [] tag \in {21, 23, 26, 29} -> lower_OptionNumber(m, p, U32)
    [] tag = 22 -> lower_OptionFieldSizePayload(m, p)
    [] tag \in {24, 27, 30} -> lower_FieldSizePayload(m, p)
    [] tag \in {31, 32, 38} -> lower_OptionString(m, p)
    [] OTHER -> <<>>
lower_ErrorCode(m, a) ==
  <<Tag(m, a)>> \o Payload(lower_ErrorCase(m, Tag(m, a).n, Second(ErrorCode, a)))

Response == GoResult(Shape(ErrorCode), Handle, ErrorCode)
lower_ResultOutgoingResponseErrorCode(m, a) ==
  IF Read(m, a, 1).n = 0
  THEN <<Zero("i32"), Core1(m, Second(Response, a), 4, "i32")>>
       \o [i \in 1 .. 6 |-> Zero(IF i = 2 THEN "i64" ELSE "i32")]
  ELSE <<Slot("i32", <<>>, 1)>> \o lower_ErrorCode(m, Second(Response, a))

(* What an imported method passes for a parameter of type T at a. *)
Lower(T, m, a) ==
  CASE T.kind = "scalar" -> <<Core1(m, a, T.size, T.core)>>
    [] T.kind = "list"   -> LowerString(m, a)
    [] T = Layout(LogLevel)      -> <<Tag(m, a)>>
    [] T = Layout(HttpMethod)    -> lower_Method(m, a)
    [] T = Layout(GoOption(Scheme)) -> lower_OptionScheme(m, a)
    [] T = Layout(GoOption(String)) -> lower_OptionString(m, a)
    [] T = Layout(GoOption(U64))    -> lower_OptionNumber(m, a, U64)
    [] T = Layout(GoOption(Handle)) -> lower_OptionNumber(m, a, Handle)
    [] T = Layout(Response)         -> lower_ResultOutgoingResponseErrorCode(m, a)

-----------------------------------------------------------------------------
(* The imported functions, by resource. *)
Name == <<"name", String>>
FieldValue == List(U8)
Changed == GoResult(HeaderError, Unit, HeaderError)
Entries == List(Struct(<< <<"0", String>>, <<"1", FieldValue>> >>))
FieldsMade ==
  "new" :> Core(<<>>, Handle)
  @@ "from-list" :> Stored(<< <<"entries", Entries>> >>, GoResult(Handle, Handle, HeaderError))
  @@ "append" :> Stored(<<Self, Name, <<"value", FieldValue>> >>, Changed)
  @@ "clone" :> Core(<<Self>>, Handle)
FieldsUsed ==
  "delete" :> Stored(<<Self, Name>>, Changed)
  @@ "entries" :> Stored(<<Self>>, Entries)
  @@ "get" :> Stored(<<Self, Name>>, List(FieldValue))
  @@ "has" :> Core(<<Self, Name>>, Bool)
  @@ "set" :> Stored(<<Self, Name, <<"value", List(FieldValue)>> >>, Changed)
Taken == GoResult(Handle, Handle, Unit)
IncomingRequest ==
  "authority" :> Stored(<<Self>>, GoOption(String)) @@ "consume" :> Stored(<<Self>>, Taken)
  @@ "headers" :> Core(<<Self>>, Handle) @@ "method" :> Stored(<<Self>>, HttpMethod)
  @@ "path-with-query" :> Stored(<<Self>>, GoOption(String)) @@ "scheme" :> Stored(<<Self>>, GoOption(Scheme))
OutgoingRequestReads ==
  "new" :> Core(<< <<"headers", Handle>> >>, Handle)
  @@ "authority" :> Stored(<<Self>>, GoOption(String)) @@ "body" :> Stored(<<Self>>, Taken)
  @@ "headers" :> Core(<<Self>>, Handle) @@ "method" :> Stored(<<Self>>, HttpMethod)
  @@ "path-with-query" :> Stored(<<Self>>, GoOption(String)) @@ "scheme" :> Stored(<<Self>>, GoOption(Scheme))
OutgoingRequestWrites ==
  "set-authority" :> Core(<<Self, <<"authority", GoOption(String)>> >>, BoolResult)
  @@ "set-method" :> Core(<<Self, <<"method", HttpMethod>> >>, BoolResult)
  @@ "set-path-with-query" :> Core(<<Self, <<"path-with-query", GoOption(String)>> >>, BoolResult)
  @@ "set-scheme" :> Core(<<Self, <<"scheme", GoOption(Scheme)>> >>, BoolResult)
RequestOptions ==
  LET get == Stored(<<Self>>, GoOption(Duration))
      set == Core(<<Self, <<"duration", GoOption(Duration)>> >>, BoolResult)
  IN  "new" :> Core(<<>>, Handle)
      @@ "between-bytes-timeout" :> get @@ "connect-timeout" :> get @@ "first-byte-timeout" :> get
      @@ "set-between-bytes-timeout" :> set @@ "set-connect-timeout" :> set @@ "set-first-byte-timeout" :> set
ResponseOutparam ==
  "set" :> None(<< <<"param", Handle>>, <<"response", Response>> >>)
  @@ "send-informational" :> Stored(<<Self, <<"status", U16>>, <<"headers", Handle>> >>,
                                    GoResult(ErrorCode, Unit, ErrorCode))
IncomingResponse ==
  "consume" :> Stored(<<Self>>, Taken) @@ "headers" :> Core(<<Self>>, Handle) @@ "status" :> Core(<<Self>>, U16)
IncomingBody == "finish" :> Core(<< <<"this", Handle>> >>, Handle) @@ "stream" :> Stored(<<Self>>, Taken)
Trailers == GoResult(Shape(ErrorCode), GoOption(Handle), ErrorCode)
FutureTrailers ==
  "get" :> Stored(<<Self>>, GoOption(GoResult(Trailers, Trailers, Unit))) @@ "subscribe" :> Core(<<Self>>, Handle)
OutgoingResponse ==
  "new" :> Core(<< <<"headers", Handle>> >>, Handle) @@ "body" :> Stored(<<Self>>, Taken)
  @@ "headers" :> Core(<<Self>>, Handle) @@ "status-code" :> Core(<<Self>>, U16)
  @@ "set-status-code" :> Core(<<Self, <<"status-code", U16>> >>, BoolResult)
OutgoingBody ==
  "finish" :> Stored(<< <<"this", Handle>>, <<"trailers", GoOption(Handle)>> >>, GoResult(ErrorCode, Unit, ErrorCode))
  @@ "write" :> Stored(<<Self>>, Taken)
FutureIncomingResponse ==
  "get" :> Stored(<<Self>>, GoOption(GoResult(Response, Response, Unit))) @@ "subscribe" :> Core(<<Self>>, Handle)
HTTPErrorCode == "http-error-code" :> Stored(<< <<"err", Handle>> >>, GoOption(ErrorCode))
==============================================================================

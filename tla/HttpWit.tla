------------------------------- MODULE HttpWit -------------------------------
(* wit/deps/http/types.wit, as the host reads it. *)
EXTENDS DriverWit

method == Variant(<<
  <<"get", Unit>>, <<"head", Unit>>, <<"post", Unit>>, <<"put", Unit>>, <<"delete", Unit>>,
  <<"connect", Unit>>, <<"options", Unit>>, <<"trace", Unit>>, <<"patch", Unit>>,
  <<"other", String>> >>)
scheme == Variant(<< <<"HTTP", Unit>>, <<"HTTPS", Unit>>, <<"other", String>> >>)
DNS_error_payload == Struct(<< <<"rcode", Option(String)>>, <<"info-code", Option(U16)>> >>)
TLS_alert_received_payload ==
  Struct(<< <<"alert-id", Option(U8)>>, <<"alert-message", Option(String)>> >>)
field_size_payload == Struct(<< <<"field-name", Option(String)>>, <<"field-size", Option(U32)>> >>)
error_code ==
  Variant(
    << <<"DNS-timeout", Unit>>, <<"DNS-error", DNS_error_payload>> >> \o
    plain(<<"destination-not-found", "destination-unavailable", "destination-IP-prohibited",
      "destination-IP-unroutable", "connection-refused", "connection-terminated",
      "connection-timeout", "connection-read-timeout", "connection-write-timeout",
      "connection-limit-reached", "TLS-protocol-error", "TLS-certificate-error">>) \o
    << <<"TLS-alert-received", TLS_alert_received_payload>> >> \o
    plain(<<"HTTP-request-denied", "HTTP-request-length-required">>) \o
    << <<"HTTP-request-body-size", Option(U64)>> >> \o
    plain(<<"HTTP-request-method-invalid", "HTTP-request-URI-invalid", "HTTP-request-URI-too-long">>) \o
    << <<"HTTP-request-header-section-size", Option(U32)>>,
       <<"HTTP-request-header-size", Option(field_size_payload)>>,
       <<"HTTP-request-trailer-section-size", Option(U32)>>,
       <<"HTTP-request-trailer-size", field_size_payload>>,
       <<"HTTP-response-incomplete", Unit>>,
       <<"HTTP-response-header-section-size", Option(U32)>>,
       <<"HTTP-response-header-size", field_size_payload>>,
       <<"HTTP-response-body-size", Option(U64)>>,
       <<"HTTP-response-trailer-section-size", Option(U32)>>,
       <<"HTTP-response-trailer-size", field_size_payload>>,
       <<"HTTP-response-transfer-coding", Option(String)>>,
       <<"HTTP-response-content-coding", Option(String)>> >> \o
    plain(<<"HTTP-response-timeout", "HTTP-upgrade-failed", "HTTP-protocol-error",
      "loop-detected", "configuration-error">>) \o
    << <<"internal-error", Option(String)>> >>)
header_error == Enum(<<"invalid-syntax", "forbidden", "immutable">>)

Name == <<"name", String>>
FieldValue == List(U8)
Changed == Result(Unit, header_error)
fields ==
  [new    |-> Fn(<<>>, Handle),
   get    |-> Method(<<Name>>, List(FieldValue)),
   has    |-> Method(<<Name>>, Bool),
   set    |-> Method(<<Name, <<"value", List(FieldValue)>> >>, Changed),
   delete |-> Method(<<Name>>, Changed),
   append |-> Method(<<Name, <<"value", FieldValue>> >>, Changed),
   entries |-> Method(<<>>, List(Tuple(String, FieldValue))),
   clone  |-> Method(<<>>, Handle)]
  @@ ("from-list" :> Fn(<< <<"entries", List(Tuple(String, FieldValue))>> >>,
                        Result(Handle, header_error)))

Taken == Result(Handle, Unit)
Accepted == Result(Unit, Unit)
incoming_request ==
  [method |-> Method(<<>>, method), scheme |-> Method(<<>>, Option(scheme)),
   authority |-> Method(<<>>, Option(String)), headers |-> Method(<<>>, Handle),
   consume |-> Method(<<>>, Taken)]
  @@ ("path-with-query" :> Method(<<>>, Option(String)))
outgoing_request ==
  [new |-> Fn(<< <<"headers", Handle>> >>, Handle), body |-> Method(<<>>, Taken),
   method |-> Method(<<>>, method), scheme |-> Method(<<>>, Option(scheme)),
   authority |-> Method(<<>>, Option(String)), headers |-> Method(<<>>, Handle)]
  @@ ("path-with-query" :> Method(<<>>, Option(String)))
  @@ ("set-method"    :> Method(<< <<"method", method>> >>, Accepted))
  @@ ("set-scheme"    :> Method(<< <<"scheme", Option(scheme)>> >>, Accepted))
  @@ ("set-authority" :> Method(<< <<"authority", Option(String)>> >>, Accepted))
  @@ ("set-path-with-query" :> Method(<< <<"path-with-query", Option(String)>> >>, Accepted))
request_options ==
  LET get == Method(<<>>, Option(duration))
      set == Method(<< <<"duration", Option(duration)>> >>, Accepted)
  IN  "new" :> Fn(<<>>, Handle)
      @@ "connect-timeout" :> get @@ "first-byte-timeout" :> get @@ "between-bytes-timeout" :> get
      @@ "set-connect-timeout" :> set @@ "set-first-byte-timeout" :> set @@ "set-between-bytes-timeout" :> set
response_outparam ==
  "set" :> Fn(<< <<"param", Handle>>, <<"response", Result(Handle, error_code)>> >>, Unit)
  @@ "send-informational" :> Method(<< <<"status", U16>>, <<"headers", Handle>> >>, Result(Unit, error_code))
incoming_response ==
  [status |-> Method(<<>>, U16), headers |-> Method(<<>>, Handle), consume |-> Method(<<>>, Taken)]
incoming_body == [stream |-> Method(<<>>, Taken), finish |-> Fn(<< <<"this", Handle>> >>, Handle)]
outgoing_response ==
  [new |-> Fn(<< <<"headers", Handle>> >>, Handle), headers |-> Method(<<>>, Handle), body |-> Method(<<>>, Taken)]
  @@ ("status-code" :> Method(<<>>, U16))
  @@ ("set-status-code" :> Method(<< <<"status-code", U16>> >>, Accepted))
outgoing_body ==
  [write |-> Method(<<>>, Taken),
   finish |-> Fn(<< <<"this", Handle>>, <<"trailers", Option(Handle)>> >>, Result(Unit, error_code))]
Future(T) ==
  [get |-> Method(<<>>, Option(Result(Result(T, error_code), Unit))), subscribe |-> Method(<<>>, Handle)]
future_trailers == Future(Option(Handle))
future_incoming_response == Future(Handle)
http_error_code == "http-error-code" :> Fn(<< <<"err", Handle>> >>, Option(error_code))
==============================================================================

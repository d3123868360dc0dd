------------------------------- MODULE MCCalls -------------------------------
(* Instances of Calls for TLC. *)
EXTENDS Calls, Crossings

(* Drivers with none, all but one and all of the optional interfaces. *)
MCDrivers == {i \in SUBSET Optional : Cardinality(i) \in {0, 7, 8}}

(* Detected, and two sets a driver may declare itself.  *)
MCDeclarations == {{}, {"list-file", "link-file"}, Capabilities}

(* The declarations of both sides. *)
Wit == INSTANCE HttpWit
Laid(f) == [f EXCEPT !.params = Layout(@), !.result = Layout(@)]
Functions(wit, go) == {[call |-> f, wit |-> Laid(wit[f]), go |-> Laid(go[f])] : f \in DOMAIN go}

MCImports ==
  UNION {Functions(Wit!readable, Go!Readable),
         Functions(Wit!host, Go!HostCalls),
         Functions(Wit!input_stream, Go!InputStream),
         Functions(Wit!output_stream, Go!BlockingOutput @@ Go!OutputStream),
         Functions(Wit!poll, Go!Pollable),
         Functions(Wit!io_error, Go!IOError),
         Functions(Wit!monotonic_clock, Go!MonotonicClock),
         Functions(Wit!fields, Go!FieldsMade @@ Go!FieldsUsed),
         Functions(Wit!incoming_request, Go!IncomingRequest),
         Functions(Wit!outgoing_request, Go!OutgoingRequestReads @@ Go!OutgoingRequestWrites),
         Functions(Wit!request_options, Go!RequestOptions),
         Functions(Wit!response_outparam, Go!ResponseOutparam),
         Functions(Wit!incoming_response, Go!IncomingResponse),
         Functions(Wit!incoming_body, Go!IncomingBody),
         Functions(Wit!future_trailers, Go!FutureTrailers),
         Functions(Wit!outgoing_response, Go!OutgoingResponse),
         Functions(Wit!outgoing_body, Go!OutgoingBody),
         Functions(Wit!future_incoming_response, Go!FutureIncomingResponse),
         Functions(Wit!http_error_code, Go!HTTPErrorCode)}
Exported(wit, go) == [f \in DOMAIN go |-> [call |-> f, wit |-> Laid(wit[f]), go |-> Laid(go[f])]]
MCExports == Exported(Wit!exports, Go!PluginExports)
==============================================================================

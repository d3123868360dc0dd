------------------------------ MODULE DriverWit ------------------------------
(***************************************************************************)
(* The interface files, as the host reads them: wit/driver.wit,            *)
(* wit/world.wit and the wasi packages under wit/deps that the bindings    *)
(* were generated from.  Types and functions have their WIT names.         *)
(***************************************************************************)
EXTENDS CanonicalABI, TLC

Fn(params, result) == [params |-> Struct(params), result |-> result]
Method(params, result) == Fn(<< <<"self", Handle>> >> \o params, result)

-----------------------------------------------------------------------------
(* interface types *)
duration == U64
driver_errors == Variant(<<
  <<"invalid-handle", Unit>>, <<"not-implemented", Unit>>, <<"not-support", Unit>>,
  <<"not-found", Unit>>, <<"not-folder", Unit>>, <<"not-file", Unit>>,
  <<"generic", String>>, <<"unauthorized", String>> >>)
hash_alg  == Enum(<<"md5", "sha1", "sha256", "gcid">>)
hash_info == Struct(<< <<"alg", hash_alg>>, <<"val", String>> >>)
object == Struct(<<
  <<"path", String>>, <<"id", String>>, <<"name", String>>, <<"size", S64>>,
  <<"is-folder", Bool>>, <<"created", duration>>, <<"modified", duration>>,
  <<"thumb", Option(String)>>, <<"hashes", List(hash_info)>>,
  <<"extra", List(Tuple(String, String))>> >>)
upload_request == Struct(<<
  <<"object", object>>, <<"content", Handle>>, <<"target", Option(object)>> >>)
field_kind == Variant(<<
  <<"string-kind", String>>, <<"password-kind", String>>, <<"number-kind", F64>>,
  <<"boolean-kind", Bool>>, <<"text-kind", String>>, <<"select-kind", List(String)>> >>)
form_field == Struct(<<
  <<"name", String>>, <<"label", String>>, <<"kind", field_kind>>,
  <<"required", Bool>>, <<"help", String>> >>)
capability == Flags(2, <<
  "get-file", "list-file", "link-file", "mkdir-file", "rename-file", "move-file",
  "remove-file", "copy-file", "upload-file">>)
driver_props == Struct(<<
  <<"name", String>>, <<"only-proxy", Bool>>, <<"no-cache", Bool>>, <<"alert", String>>,
  <<"no-overwrite-upload", Bool>>, <<"proxy-range", Bool>>, <<"capabilitys", capability>> >>)
range_spec == Struct(<< <<"offset", U64>>, <<"size", U64>>, <<"stream", Handle>> >>)
link_args  == Struct(<< <<"ip", String>>, <<"headers", Handle>> >>)
link_info  == Struct(<<
  <<"url", String>>, <<"headers", Handle>>, <<"expiration", Option(duration)>> >>)
link_resource == Variant(<< <<"direct", link_info>>, <<"range-reader", Unit>> >>)
link_result == Struct(<< <<"file", Option(object)>>, <<"resource", link_resource>> >>)

readable ==
  [streams |-> Method(<<>>, Result(Handle, String)),
   peek    |-> Method(<< <<"offset", U64>>, <<"len", U64>> >>, Result(Handle, String)),
   chunks  |-> Method(<< <<"len", U32>> >>, Result(U32, String))]
  @@ ("next-chunk"  :> Method(<<>>, Result(Handle, String)))
  @@ ("chunk-reset" :> Method(<< <<"chunk", Handle>> >>, Result(Unit, String)))
  @@ ("get-hasher"  :> Method(<< <<"hashs", List(hash_alg)>> >>, Result(List(hash_info), String)))
  @@ ("update-progress" :> Method(<< <<"progress", F64>> >>, Unit))

(* interface exports *)
Ctx == <<"ctx", Handle>>
Done == Result(Unit, driver_errors)
NewObject == Result(Option(object), driver_errors)
exports ==
     ("set-handle"     :> Fn(<< <<"handle", U32>> >>, Unit))
  @@ ("get-properties" :> Fn(<<>>, driver_props))
  @@ ("get-form-meta"  :> Fn(<<>>, List(form_field)))
  @@ ("init"           :> Fn(<<Ctx>>, Done))
  @@ ("drop"           :> Fn(<<Ctx>>, Done))
  @@ ("get-file"    :> Fn(<<Ctx, <<"path", String>> >>, Result(object, driver_errors)))
  @@ ("get-root"    :> Fn(<<Ctx>>, Result(object, driver_errors)))
  @@ ("list-files"  :> Fn(<<Ctx, <<"dir", object>> >>, Result(List(object), driver_errors)))
  @@ ("link-file"   :> Fn(<<Ctx, <<"file", object>>, <<"args", link_args>> >>,
                         Result(link_result, driver_errors)))
  @@ ("link-range"  :> Fn(<<Ctx, <<"file", object>>, <<"args", link_args>>, <<"range", range_spec>> >>, Done))
  @@ ("make-dir"    :> Fn(<<Ctx, <<"dir", object>>, <<"name", String>> >>, NewObject))
  @@ ("rename-file" :> Fn(<<Ctx, <<"file", object>>, <<"new-name", String>> >>, NewObject))
  @@ ("move-file"   :> Fn(<<Ctx, <<"file", object>>, <<"to-dir", object>> >>, NewObject))
  @@ ("remove-file" :> Fn(<<Ctx, <<"file", object>> >>, Done))
  @@ ("copy-file"   :> Fn(<<Ctx, <<"file", object>>, <<"to-dir", object>> >>, NewObject))
  @@ ("upload-file" :> Fn(<<Ctx, <<"dir", object>>, <<"req", upload_request>> >>, NewObject))

(* interface host *)
log_level == Enum(<<"debug", "info", "warn", "error">>)
host ==
  [log |-> Fn(<< <<"level", log_level>>, <<"message", String>> >>, Unit)]
  @@ ("load-config" :> Fn(<< <<"handle", U32>> >>, Result(List(U8), String)))
  @@ ("save-config" :> Fn(<< <<"handle", U32>>, <<"config", List(U8)>> >>, Result(Unit, String)))

-----------------------------------------------------------------------------
(* wasi:io and wasi:clocks *)
stream_error == Variant(<< <<"last-operation-failed", Handle>>, <<"closed", Unit>> >>)
Len64 == <<"len", U64>>
Contents == <<"contents", List(U8)>>
input_stream ==
  [read |-> Method(<<Len64>>, Result(List(U8), stream_error)),
   skip |-> Method(<<Len64>>, Result(U64, stream_error)),
   subscribe |-> Method(<<>>, Handle)]
  @@ ("blocking-read" :> Method(<<Len64>>, Result(List(U8), stream_error)))
  @@ ("blocking-skip" :> Method(<<Len64>>, Result(U64, stream_error)))
output_stream ==
  LET written == Result(Unit, stream_error)
  IN  [flush  |-> Method(<<>>, written),
       splice |-> Method(<< <<"src", Handle>>, Len64 >>, Result(U64, stream_error)),
       subscribe |-> Method(<<>>, Handle),
       write  |-> Method(<<Contents>>, written)]
      @@ ("check-write"     :> Method(<<>>, Result(U64, stream_error)))
      @@ ("blocking-flush"  :> Method(<<>>, written))
      @@ ("blocking-splice" :> Method(<< <<"src", Handle>>, Len64 >>, Result(U64, stream_error)))
      @@ ("blocking-write-and-flush" :> Method(<<Contents>>, written))
      @@ ("blocking-write-zeroes-and-flush" :> Method(<<Len64>>, written))
      @@ ("write-zeroes" :> Method(<<Len64>>, written))
poll ==
  [ready |-> Method(<<>>, Bool), block |-> Method(<<>>, Unit),
   poll |-> Fn(<< <<"in", List(Handle)>> >>, List(U32))]
io_error == "to-debug-string" :> Method(<<>>, String)
monotonic_clock ==
  [now |-> Fn(<<>>, U64), resolution |-> Fn(<<>>, duration)]
  @@ ("subscribe-instant"  :> Fn(<< <<"when", U64>> >>, Handle))
  @@ ("subscribe-duration" :> Fn(<< <<"when", duration>> >>, Handle))
==============================================================================

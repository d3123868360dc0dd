---------------------------- MODULE DriverBindings ----------------------------
(***************************************************************************)
(* The Go side of the driver interface: the declarations wit-bindgen-go    *)
(* wrote under binding/, with the names of the fields and cases as their   *)
(* json tags and string tables give them.  An import takes its parameters  *)
(* in core values; it returns nothing, a core value, or stores through     *)
(* &result.  An export takes core values or a pointer to a params struct.  *)
(***************************************************************************)
EXTENDS CanonicalABI, TLC

Import(params, ret, result) == [params |-> Struct(params), ret |-> ret, result |-> result]
None(params) == Import(params, "none", Unit)
Core(params, result) == Import(params, "core", result)
Stored(params, result) == Import(params, "memory", result)
Self == <<"self", Handle>>

-----------------------------------------------------------------------------
(* types.wit.go *)
Duration == U64

DriverErrors == GoVariant(1, String, String,
  plain(<<"invalid-handle", "not-implemented", "not-support", "not-found", "not-folder", "not-file">>)
  \o << <<"generic", String>>, <<"unauthorized", String>> >>)
HashAlg  == GoEnum(<<"md5", "sha1", "sha256", "gcid">>)
HashInfo == Struct(<< <<"alg", HashAlg>>, <<"val", String>> >>)

Object == Struct(<<
  <<"path", String>>, <<"id", String>>, <<"name", String>>, <<"size", S64>>, <<"is-folder", Bool>>,
  <<"created", Duration>>, <<"modified", Duration>>, <<"thumb", GoOption(String)>>,
  <<"hashes", List(HashInfo)>>, <<"extra", List(Struct(<< <<"0", String>>, <<"1", String>> >>))>> >>)
UploadRequest == Struct(<< <<"object", Object>>, <<"content", Handle>>, <<"target", GoOption(Object)>> >>)
FieldKind == GoVariant(1, String, F64, <<
  <<"string-kind", String>>, <<"password-kind", String>>, <<"number-kind", F64>>,
  <<"boolean-kind", Bool>>, <<"text-kind", String>>, <<"select-kind", List(String)>> >>)
FormField == Struct(<<
  <<"name", String>>, <<"label", String>>, <<"kind", FieldKind>>, <<"required", Bool>>, <<"help", String>> >>)
Capability == Flags(2, <<"get-file", "list-file", "link-file", "mkdir-file", "rename-file",
  "move-file", "remove-file", "copy-file", "upload-file">>)
DriverProps == Struct(<<
  <<"name", String>>, <<"only-proxy", Bool>>, <<"no-cache", Bool>>, <<"alert", String>>,
  <<"no-overwrite-upload", Bool>>, <<"proxy-range", Bool>>, <<"capabilitys", Capability>> >>)
RangeSpec == Struct(<< <<"offset", U64>>, <<"size", U64>>, <<"stream", Handle>> >>)
LinkArgs  == Struct(<< <<"ip", String>>, <<"headers", Handle>> >>)
LinkInfo  == Struct(<< <<"url", String>>, <<"headers", Handle>>, <<"expiration", GoOption(Duration)>> >>)
LinkResource == GoVariant(1, LinkInfo, LinkInfo, << <<"direct", LinkInfo>>, <<"range-reader", Unit>> >>)
LinkResult == Struct(<< <<"file", GoOption(Object)>>, <<"resource", LinkResource>> >>)

NewStream == GoResult(String, Handle, String)
Readable ==
  "chunk-reset" :> Stored(<<Self, <<"chunk", Handle>> >>, GoResult(String, Unit, String))
  @@ "chunks" :> Stored(<<Self, <<"len", U32>> >>, GoResult(String, U32, String))
  @@ "get-hasher" :> Stored(<<Self, <<"hashs", List(HashAlg)>> >>,
                            GoResult(List(HashInfo), List(HashInfo), String))
  @@ "next-chunk" :> Stored(<<Self>>, NewStream)
  @@ "peek" :> Stored(<<Self, <<"offset", U64>>, <<"len", U64>> >>, NewStream)
  @@ "streams" :> Stored(<<Self>>, NewStream)
  @@ "update-progress" :> None(<<Self, <<"progress", F64>> >>)

-----------------------------------------------------------------------------
(* exports.wasm.go, exports.wit.go, exports/abi.go *)
Export(in, params, result) == [in |-> in, params |-> Struct(params), result |-> result]
Ctx == <<"ctx", Handle>>
ResultDone   == GoResult(DriverErrors, Unit, DriverErrors)
ResultObject == GoResult(Shape(Object), Object, DriverErrors)
ResultObjects == GoResult(Shape(DriverErrors), List(Object), DriverErrors)
ResultLink   == GoResult(Shape(LinkResult), LinkResult, DriverErrors)
ResultOptionObject == GoResult(Shape(GoOption(Object)), GoOption(Object), DriverErrors)

MetaExports ==
  "set-handle" :> Export("core", << <<"handle", U32>> >>, Unit)
  @@ "get-properties" :> Export("core", <<>>, DriverProps)
  @@ "get-form-meta" :> Export("core", <<>>, List(FormField))
  @@ "init" :> Export("core", <<Ctx>>, ResultDone)
  @@ "drop" :> Export("core", <<Ctx>>, ResultDone)
  @@ "get-file" :> Export("core", <<Ctx, <<"path", String>> >>, ResultObject)
  @@ "get-root" :> Export("core", <<Ctx>>, ResultObject)
FileParams ==
  LET Dir == <<"dir", Object>>  File == <<"file", Object>>  ToDir == <<"to-dir", Object>>
      Args == <<"args", LinkArgs>>
  IN  "list-files" :> <<Ctx, Dir>>
      @@ "link-file" :> <<Ctx, File, Args>>
      @@ "link-range" :> <<Ctx, File, Args, <<"range", RangeSpec>> >>
      @@ "make-dir" :> <<Ctx, Dir, <<"name", String>> >>
      @@ "rename-file" :> <<Ctx, File, <<"new-name", String>> >>
      @@ "move-file" :> <<Ctx, File, ToDir>>
      @@ "remove-file" :> <<Ctx, File>>
      @@ "copy-file" :> <<Ctx, File, ToDir>>
      @@ "upload-file" :> <<Ctx, Dir, <<"req", UploadRequest>> >>
FileResults ==
  "list-files" :> ResultObjects @@ "link-file" :> ResultLink @@ "link-range" :> ResultDone
  @@ "make-dir" :> ResultOptionObject @@ "rename-file" :> ResultOptionObject
  @@ "move-file" :> ResultOptionObject @@ "remove-file" :> ResultDone
  @@ "copy-file" :> ResultOptionObject @@ "upload-file" :> ResultOptionObject
FileExports == [f \in DOMAIN FileParams |-> Export("memory", FileParams[f], FileResults[f])]
PluginExports == MetaExports @@ FileExports

-----------------------------------------------------------------------------
(* host.wit.go, streams.wit.go, poll.wit.go, error.wit.go, monotonic-clock.wit.go *)
LogLevel == GoEnum(<<"debug", "info", "warn", "error">>)
HostCalls ==
  "log" :> None(<< <<"level", LogLevel>>, <<"message", String>> >>)
  @@ "load-config" :> Stored(<< <<"handle", U32>> >>, GoResult(List(U8), List(U8), String))
  @@ "save-config" :> Stored(<< <<"handle", U32>>, <<"config", List(U8)>> >>, GoResult(String, Unit, String))

StreamError == GoVariant(1, Handle, Handle, << <<"last-operation-failed", Handle>>, <<"closed", Unit>> >>)
Len64 == <<"len", U64>>
Moved == GoResult(U64, U64, StreamError)
ReadBytes == GoResult(List(U8), List(U8), StreamError)
WriteDone == GoResult(StreamError, Unit, StreamError)
InputStream ==
  "read" :> Stored(<<Self, Len64>>, ReadBytes) @@ "blocking-read" :> Stored(<<Self, Len64>>, ReadBytes)
  @@ "skip" :> Stored(<<Self, Len64>>, Moved) @@ "blocking-skip" :> Stored(<<Self, Len64>>, Moved)
  @@ "subscribe" :> Core(<<Self>>, Handle)
BlockingOutput ==
  "blocking-flush" :> Stored(<<Self>>, WriteDone)
  @@ "blocking-splice" :> Stored(<<Self, <<"src", Handle>>, Len64>>, Moved)
  @@ "blocking-write-and-flush" :> Stored(<<Self, <<"contents", List(U8)>> >>, WriteDone)
  @@ "blocking-write-zeroes-and-flush" :> Stored(<<Self, Len64>>, WriteDone)
OutputStream ==
  "check-write" :> Stored(<<Self>>, Moved)
  @@ "flush" :> Stored(<<Self>>, WriteDone)
  @@ "splice" :> Stored(<<Self, <<"src", Handle>>, Len64>>, Moved)
  @@ "subscribe" :> Core(<<Self>>, Handle)
  @@ "write" :> Stored(<<Self, <<"contents", List(U8)>> >>, WriteDone)
  @@ "write-zeroes" :> Stored(<<Self, Len64>>, WriteDone)
Pollable ==
  "ready" :> Core(<<Self>>, Bool) @@ "block" :> None(<<Self>>)
  @@ "poll" :> Stored(<< <<"in", List(Handle)>> >>, List(U32))
IOError == "to-debug-string" :> Stored(<<Self>>, String)
MonotonicClock ==
  "now" :> Core(<<>>, U64) @@ "resolution" :> Core(<<>>, Duration)
  @@ "subscribe-instant" :> Core(<< <<"when", U64>> >>, Handle)
  @@ "subscribe-duration" :> Core(<< <<"when", Duration>> >>, Handle)
==============================================================================

----------------------------- MODULE HerdrClient -----------------------------
(***************************************************************************)
(* herdr_client.rs: the requests Tabby writes, and what it can decode of    *)
(* the replies.  A number is told by its size, a text by what is compared   *)
(* with it.                                                                 *)
(***************************************************************************)
EXTENDS ApiSchema

(* JSON values.  Sizes of numbers: those of u32, of u64 above, and others.  *)
Null        == [kind |-> "null"]
Text(text)  == [kind |-> "string", text |-> text]
Number(n)   == [kind |-> "number", size |-> n]
Bool        == [kind |-> "boolean"]
Array(seq)  == [kind |-> "array", elements |-> seq]
Object(fs)  == [kind |-> "object", fields |-> fs]

(* call: the request of each method, with the fields that are sent.         *)
Id      == Text("tabby-1")
Methods == {"session.snapshot", "pane.process_info", "tab.rename"}
Params(method) ==
    CASE method = "session.snapshot"  -> Object(<<>>)
      [] method = "pane.process_info" -> Object([pane_id |-> Text("pane")])
      [] method = "tab.rename"        -> Object([tab_id |-> Text("tab"), label |-> Text("nvim")])
Request(method) == Object([id |-> Id, method |-> Text(method), params |-> Params(method)])

(* What serde makes of a field of its structs.                              *)
IsText(v) == v.kind = "string"
IsBool(v) == v.kind = "boolean"
IsU32(v)  == v.kind = "number" /\ v.size = "u32"
IsU64(v)  == v.kind = "number" /\ v.size \in {"u32", "u64"}

Present(v, f)   == v.kind = "object" /\ f \in DOMAIN v.fields
Has(v, f, Is(_)) == Present(v, f) /\ Is(v.fields[f])
Defaults(v, f, Is(_)) == v.kind = "object" /\ (Present(v, f) => Is(v.fields[f]))
Optional(v, f, Is(_)) == Defaults(v, f, LAMBDA x : x = Null \/ Is(x))
ListOf(v, Is(_)) == v.kind = "array" /\ \A x \in Range(v.elements) : Is(x)

(* The structs, with the fields the contract names.                         *)
DecodesTabInfo(v) ==
    /\ Has(v, "tab_id", IsText) /\ Has(v, "workspace_id", IsText) /\ Has(v, "label", IsText)
    /\ Optional(v, "number", IsU64)
    /\ Defaults(v, "focused", IsBool)
    /\ Optional(v, "agent_status", IsText)

DecodesPaneInfo(v) ==
    /\ Has(v, "pane_id", IsText) /\ Has(v, "workspace_id", IsText) /\ Has(v, "tab_id", IsText)
    /\ Defaults(v, "focused", IsBool)
    /\ Optional(v, "cwd", IsText) /\ Optional(v, "foreground_cwd", IsText)
    /\ Optional(v, "revision", IsU64)

DecodesSnapshot(v) ==
    /\ Defaults(v, "version", IsText) /\ Defaults(v, "protocol", IsU32)
    /\ Optional(v, "focused_tab_id", IsText) /\ Optional(v, "focused_pane_id", IsText)
    /\ Defaults(v, "tabs",  LAMBDA x : ListOf(x, DecodesTabInfo))
    /\ Defaults(v, "panes", LAMBDA x : ListOf(x, DecodesPaneInfo))

DecodesProcess(v) ==
    /\ Has(v, "pid", IsU32) /\ Has(v, "name", IsText)
    /\ Optional(v, "argv", LAMBDA x : ListOf(x, IsText))
    /\ Optional(v, "argv0", IsText) /\ Optional(v, "cmdline", IsText)

DecodesProcessInfo(v) ==
    /\ Has(v, "pane_id", IsText)
    /\ Defaults(v, "foreground_processes", LAMBDA x : ListOf(x, DecodesProcess))

(* decode_response, with the test of the response type that follows it.     *)
IsA(result, type) == Present(result, "type") /\ result.fields["type"] = Text(type)
DecodesResult(method, result) ==
    CASE method = "session.snapshot" ->
           IsA(result, "session_snapshot") /\ Has(result, "snapshot", DecodesSnapshot)
      [] method = "pane.process_info" ->
           IsA(result, "pane_process_info") /\ Has(result, "process_info", DecodesProcessInfo)
      [] method = "tab.rename" ->
           \/ IsA(result, "ok")
           \/ IsA(result, "tab_info") /\ Has(result, "tab", DecodesTabInfo)
Decodes(method, reply) ==
    /\ Present(reply, "id") /\ reply.fields["id"] = Id
    /\ Has(reply, "result", LAMBDA result : DecodesResult(method, result))
==============================================================================

---------------------------- MODULE SchemaPromises ----------------------------
(***************************************************************************)
(* What a Herdr whose document was accepted may ask of a request, and       *)
(* answer: the verdict of ApiSchema held against JsonSchema, which says     *)
(* what the document means, and HerdrClient, which says what Tabby sends    *)
(* and decodes.                                                             *)
(***************************************************************************)
EXTENDS HerdrContract, JsonSchema

(* The replies Tabby waits for, and those that deviate in one field.  That  *)
(* payloads and list items are objects is left to the live probes.          *)
Tab     == Object([tab_id |-> Text("tab"), workspace_id |-> Text("workspace"),
                   label |-> Text("1"), focused |-> Bool, number |-> Number("u32")])
Pane    == Object([pane_id |-> Text("pane"), workspace_id |-> Text("workspace"),
                   tab_id |-> Text("tab"), focused |-> Bool, cwd |-> Text("/"),
                   foreground_cwd |-> Text("/"), revision |-> Number("u32")])
Process == Object([pid |-> Number("u32"), name |-> Text("nvim"), argv |-> Array(<<Text("nvim")>>),
                   argv0 |-> Text("nvim"), cmdline |-> Text("nvim")])
Result(type) ==
    CASE type = "session_snapshot" ->
           Object([type |-> Text(type), snapshot |->
             Object([version |-> Text("0.8.0"), protocol |-> Number("u32"),
                     focused_tab_id |-> Text("tab"), focused_pane_id |-> Text("pane"),
                     tabs |-> Array(<<Tab>>), panes |-> Array(<<Pane>>)])])
      [] type = "pane_process_info" ->
           Object([type |-> Text(type), process_info |->
             Object([pane_id |-> Text("pane"), foreground_processes |-> Array(<<Process>>)])])
      [] type = "tab_info" -> Object([type |-> Text(type), tab |-> Tab])
      [] type = "ok"       -> Object([type |-> Text(type)])

Odd == {Null, Bool, Text("odd"), Array(<<>>), Number("negative"), Number("u64"),
        Number("larger"), Number("fraction")}

RECURSIVE Deviations(_)
Deviations(v) ==
    CASE v.kind = "object" ->
           {Object([v.fields EXCEPT ![f] = x]) : <<f, x>> \in
              UNION {{f} \X Deviations(v.fields[f]) : f \in DOMAIN v.fields \ {"type"}}}
             \cup {Object(Without(v.fields, f)) : f \in DOMAIN v.fields \ {"type"}}
      [] v.kind = "array" -> Odd \cup {Array(<<x>>) : x \in Deviations(v.elements[1])}
      [] OTHER -> Odd

Reply(result) == Object([id |-> Id, result |-> result])

(* Of those, the ones that Tabby cannot decode.                             *)
ResultTypes ==
    [session_snapshot |-> "session.snapshot", pane_process_info |-> "pane.process_info",
     tab_info |-> "tab.rename", ok |-> "tab.rename"]
Undecodable ==
    [t \in DOMAIN ResultTypes |->
       {r \in {Reply(x) : x \in Deviations(Result(t))} : ~Decodes(ResultTypes[t], r)}]

(* What validate_schema does not look at: keywords of the envelope and of   *)
(* the variant that may refuse what is declared beside them, and a variant  *)
(* that a reply of any other type passes.                                   *)
OpenEnvelope(d, method) ==
    \A n \in {Resolve(d, "request"), FindDiscriminator(d, "request", "method", method)} :
      ~d[n].closed /\ ~d[n].other
TellsTypesApart(d) ==
    ~Validates(d, "success_response", Reply(Object([type |-> Text("any other")])), TRUE)

AcceptedDocuments ==
    {n \in DOMAIN Documents : \E p \in DOMAIN Accepts[n] : Accepts[n][p]}
RequestPasses(d, method) == Validates(d, "request", Request(method), FALSE)
RepliesDecode(d, type) ==
    \A reply \in Undecodable[type] : ~Validates(d, "success_response", reply, TRUE)

(* An accepted document admits every request Tabby sends (ADR 0014,         *)
(* "compatible request and response shapes").                               *)
RequestsPass ==
    [n \in AcceptedDocuments |->
       LET d == Documents[n].nodes
       IN  \A m \in Methods : OpenEnvelope(d, m) => RequestPasses(d, m)]
AcceptedRequestsPass == schema # None => RequestsPass[schema]

(* Under an accepted document whatever field a reply lacks, or has null, of *)
(* another type or out of range, Tabby decodes the reply if the document    *)
(* allows it; of the two results of tab.rename, at least one is like that.  *)
RepliesAllDecode ==
    [n \in AcceptedDocuments |->
       LET d == Documents[n].nodes
       IN  TellsTypesApart(d) =>
             /\ RepliesDecode(d, "session_snapshot")
             /\ RepliesDecode(d, "pane_process_info")
             /\ RepliesDecode(d, "tab_info") \/ RepliesDecode(d, "ok")]
AcceptedRepliesDecode == schema # None => RepliesAllDecode[schema]
==============================================================================

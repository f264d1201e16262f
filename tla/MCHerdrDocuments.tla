--------------------------- MODULE MCHerdrDocuments ---------------------------
(* Herdr's documents: one that has what Tabby needs, as herdr_contract.rs    *)
(* tests with, and every document that drifted from it in one place.         *)
EXTENDS ApiSchema, TLC

Typed(types) == [AnySchema EXCEPT !.type = types]
Formatted(format) == [Typed({"integer"}) EXCEPT !.format = format]
Const(text) == [AnySchema EXCEPT !.const = text]
ObjectOf(props, required) ==
    [Typed({"object"}) EXCEPT !.props = props, !.required = required]
ListOfItems(n) == [Typed({"array"}) EXCEPT !.items = n]
Variant(props) == [AnySchema EXCEPT !.props = props, !.required = DOMAIN props]

(* Leaves are nodes of their own wherever they occur, so that each can drift. *)
Leaf(kind) ==
    CASE kind = "string"   -> Typed({"string"})
      [] kind = "boolean"  -> Typed({"boolean"})
      [] kind = "nullable" -> Typed({"string", "null"})
      [] kind = "u32"      -> Formatted("uint32")
      [] kind = "u64"      -> Formatted("uint64")

Leaves ==
    [r_id |-> "string", p_pane_id |-> "nullable", p_tab_id |-> "string", p_label |-> "string",
     version |-> "string", protocol |-> "u32", focused_tab_id |-> "nullable",
     focused_pane_id |-> "nullable",
     t_tab_id |-> "string", t_workspace_id |-> "string", t_label |-> "string",
     t_focused |-> "boolean", t_number |-> "u64",
     n_pane_id |-> "string", n_workspace_id |-> "string", n_tab_id |-> "string",
     n_focused |-> "boolean", n_cwd |-> "nullable", n_foreground_cwd |-> "nullable",
     n_revision |-> "u64",
     i_pane_id |-> "string", pid |-> "u32", name |-> "string", argument |-> "string",
     argv0 |-> "nullable", cmdline |-> "nullable"]

Consts ==
    [m_snapshot |-> "session.snapshot", m_rename |-> "tab.rename", m_process |-> "pane.process_info",
     k_snapshot |-> "session_snapshot", k_tab |-> "tab_info", k_process |-> "pane_process_info",
     k_ok |-> "ok"]

Requests ==
    "request" :> [ObjectOf([id |-> "r_id"], {"id"})
                    EXCEPT !.oneOf = <<"v_snapshot", "v_rename", "v_process">>]
      @@ "v_snapshot" :> Variant([method |-> "m_snapshot", params |-> "EmptyParams"])
      @@ "v_rename"   :> Variant([method |-> "m_rename", params |-> "TabRenameParams"])
      @@ "v_process"  :> Variant([method |-> "m_process", params |-> "PaneProcessInfoParams"])
      @@ "EmptyParams" :> Typed({"object"})
      @@ "TabRenameParams" :>
           ObjectOf([tab_id |-> "p_tab_id", label |-> "p_label"], {"tab_id", "label"})
      @@ "PaneProcessInfoParams" :> ObjectOf([pane_id |-> "p_pane_id"], {})

Responses ==
    "success_response" :> ObjectOf([result |-> "ResponseResult"], {"result"})
      @@ "ResponseResult" :>
           [AnySchema EXCEPT !.oneOf = <<"x_snapshot", "x_tab", "x_process", "x_ok">>]
      @@ "x_snapshot" :> Variant([type |-> "k_snapshot", snapshot |-> "SessionSnapshot"])
      @@ "x_tab"      :> Variant([type |-> "k_tab", tab |-> "TabInfo"])
      @@ "x_process"  :> Variant([type |-> "k_process", process_info |-> "PaneProcessInfo"])
      @@ "x_ok"       :> Variant([type |-> "k_ok"])
      @@ "SessionSnapshot" :>
           ObjectOf([version |-> "version", protocol |-> "protocol",
                     focused_tab_id |-> "focused_tab_id", focused_pane_id |-> "focused_pane_id",
                     tabs |-> "tabs", panes |-> "panes"], {"version", "protocol", "tabs", "panes"})
      @@ "tabs"  :> ListOfItems("TabInfo")
      @@ "panes" :> ListOfItems("PaneInfo")
      @@ "TabInfo" :>
           ObjectOf([tab_id |-> "t_tab_id", workspace_id |-> "t_workspace_id", label |-> "t_label",
                     focused |-> "t_focused", number |-> "t_number"],
                    {"tab_id", "workspace_id", "label", "focused", "number"})
      @@ "PaneInfo" :>
           ObjectOf([pane_id |-> "n_pane_id", workspace_id |-> "n_workspace_id",
                     tab_id |-> "n_tab_id", focused |-> "n_focused", cwd |-> "n_cwd",
                     foreground_cwd |-> "n_foreground_cwd", revision |-> "n_revision"],
                    {"pane_id", "workspace_id", "tab_id", "focused", "revision"})
      @@ "PaneProcessInfo" :>
           ObjectOf([pane_id |-> "i_pane_id", foreground_processes |-> "processes"], {"pane_id"})
      @@ "processes" :> ListOfItems("Process")
      @@ "Process" :>
           ObjectOf([pid |-> "pid", name |-> "name", argv |-> "argv", argv0 |-> "argv0",
                     cmdline |-> "cmdline"], {"pid", "name"})
      @@ "argv" :> [Typed({"array", "null"}) EXCEPT !.items = "argument"]

Base == Requests @@ Responses @@ [n \in DOMAIN Leaves |-> Leaf(Leaves[n])]
          @@ [n \in DOMAIN Consts |-> Const(Consts[n])]
          @@ "null" :> Typed({"null"}) @@ "numeric" :> Typed({"number"}) @@ "any" :> AnySchema
          @@ "added" :> Variant([method |-> "novel", type |-> "novel"]) @@ "novel" :> Const("novel")
Nodes == DOMAIN Base \ {"null", "numeric", "any", "added", "novel"}

(* What becomes of a node; "moved" is what it was.  Some of it may happen to  *)
(* any node, some to typed ones, integers, objects with fields, the two       *)
(* unions or constants only.                                                 *)
Drifted(node, k, n, f) ==
    CASE k = "or null"     -> [AnySchema EXCEPT !.anyOf = <<"moved", "null">>]
      [] k = "else null"   -> [AnySchema EXCEPT !.oneOf = <<"moved", "null">>]
      [] k = "or number"   -> [AnySchema EXCEPT !.anyOf = <<"moved", "numeric">>]
      [] k = "part"        -> [AnySchema EXCEPT !.allOf = <<"moved", "any">>]
      [] k = "referenced"  -> RefTo("moved")
      [] k = "sibling"     -> [RefTo("moved") EXCEPT !.type = {"string"}]
      [] k = "dangling"    -> RefTo("nowhere")
      [] k = "cyclic"      -> RefTo(n)
      [] k = "constrained" -> [node EXCEPT !.other = TRUE]
      [] k = "nullable"    -> [node EXCEPT !.type = @ \cup {"null"}]
      [] k = "retyped"     -> [node EXCEPT !.type = {"boolean", "string"} \ @]
      [] k = "untyped"     -> [node EXCEPT !.type = None]
      [] k = "signed"      -> [node EXCEPT !.format = "int64"]
      [] k = "wide"        -> [node EXCEPT !.format = "uint64"]
      [] k = "unformatted" -> [node EXCEPT !.format = None]
      [] k = "grown"       -> [node EXCEPT !.props = @ @@ "extra" :> "any"]
      [] k = "demanding"   -> [node EXCEPT !.props = @ @@ "extra" :> "any",
                                           !.required = @ \cup {"extra"}]
      [] k = "closed"      -> [node EXCEPT !.closed = TRUE]
      [] k = "dropped"     -> [node EXCEPT !.props = Without(@, f), !.required = @ \ {f}]
      [] k = "optional"    -> [node EXCEPT !.required = @ \ {f}]
      [] k = "required"    -> [node EXCEPT !.required = @ \cup {f}]
      [] k = "first variant" -> [node EXCEPT !.oneOf = <<"added">> \o @]
      [] k = "last variant"  -> [node EXCEPT !.oneOf = Append(@, "added")]
      [] k = "no second"     -> [node EXCEPT !.oneOf = RemoveAt(@, 2)]
      [] k = "no third"      -> [node EXCEPT !.oneOf = RemoveAt(@, 3)]
      [] k = "renamed"       -> Const("novel")
      [] k = "enumerated"    -> [AnySchema EXCEPT !.enum = {node.const}]
      [] k = "typed"         -> [node EXCEPT !.type = {"string"}]

DriftOf(k, n, f) == [drift |-> k, node |-> n, field |-> f]
Names(kinds, nodes) == {DriftOf(k, n, None) : k \in kinds, n \in nodes}
AnyDrifts    == Names({"or null", "else null", "or number", "part", "referenced", "sibling",
                       "dangling", "cyclic", "constrained"}, Nodes)
TypeDrifts   == Names({"nullable", "retyped", "untyped"}, {n \in Nodes : Base[n].type # None})
FormatDrifts == Names({"signed", "wide", "unformatted"}, {n \in Nodes : Base[n].format # None})
ObjectDrifts == Names({"grown", "demanding", "closed"}, {n \in Nodes : DOMAIN Base[n].props # {}})
UnionDrifts  == Names({"first variant", "last variant", "no second", "no third"},
                      {"request", "ResponseResult"})
ConstDrifts  == Names({"renamed", "enumerated", "typed"}, DOMAIN Consts)
FieldDrifts  == {DriftOf(k, nf[1], nf[2]) : k \in {"dropped", "optional", "required"},
                   nf \in UNION {{n} \X DOMAIN Base[n].props : n \in Nodes}}

Same  == DriftOf("same", None, None)
Newer == DriftOf("newer", None, None)
Drifts == AnyDrifts \cup TypeDrifts \cup FormatDrifts \cup ObjectDrifts \cup UnionDrifts
            \cup ConstDrifts \cup FieldDrifts
With(nodes, name) ==
    IF name \in {Same, Newer} THEN nodes
    ELSE [nodes EXCEPT ![name.node] = Drifted(@, name.drift, name.node, name.field)]
           @@ "moved" :> nodes[name.node]

MCDocuments ==
    [name \in Drifts \cup {Same, Newer} |->
       [protocol |-> IF name = Newer THEN 20 ELSE 19, nodes |-> With(Base, name)]]

(* Only adds: fields, variants, requirements on what is there anyway, and a  *)
(* schema that has moved behind a reference.                                 *)
ResponseNodes == DOMAIN Responses
MCAdditive ==
    {Same, Newer}
      \cup {n \in Drifts : n.drift \in {"grown", "required", "referenced", "typed",
                                       "first variant", "last variant"}}
      \cup Names({"demanding"}, {n \in ResponseNodes : DOMAIN Base[n].props # {}})
==============================================================================

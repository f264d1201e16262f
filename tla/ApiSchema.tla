------------------------------ MODULE ApiSchema ------------------------------
(***************************************************************************)
(* herdr_contract.rs, validate_schema: is the JSON Schema that a Herdr      *)
(* binary prints for its socket API one that Tabby can talk to?             *)
(*                                                                          *)
(* A document is its schema nodes by name.  Annotations are left out, and   *)
(* so is JSON that is no schema (a "required" that is no array).  Results   *)
(* are TRUE, FALSE, None where the code answers Ok(None), and Error where   *)
(* it gives up; where nothing tells the last two apart there is only None.  *)
(***************************************************************************)
EXTENDS Absent, Integers, FiniteSets, SequencesExt

CONSTANTS
    Error,
    Depth   \* the longest chain followed, of references or of combinators

(* A node without keywords, and a node that is a reference.                 *)
AnySchema ==
    [ref |-> None, boolean |-> None, type |-> None, format |-> None, const |-> None,
     enum |-> None, props |-> <<>>, required |-> {}, items |-> None, closed |-> FALSE,
     anyOf |-> <<>>, oneOf |-> <<>>, allOf |-> <<>>,
     other |-> FALSE]  \* it has an assertion keyword Tabby does not know
RefTo(n) == [AnySchema EXCEPT !.ref = n]

(* The first element of a sequence that is in a set.                        *)
FirstIn(seq, S, otherwise) ==
    LET hits == SelectSeq(seq, LAMBDA x : x \in S)
    IN  IF hits = <<>> THEN otherwise ELSE hits[1]

(* A function without one of its arguments.                                *)
Without(fields, f) == [g \in DOMAIN fields \ {f} |-> fields[g]]

RECURSIVE Follow(_, _, _)
Follow(d, n, hops) ==
    IF hops = 0 THEN Error
    ELSE IF d[n].ref = None THEN n
    ELSE IF d[n] # RefTo(d[n].ref) \/ d[n].ref \notin DOMAIN d THEN Error
    ELSE Follow(d, d[n].ref, hops - 1)
Resolve(d, n) == Follow(d, n, Depth)

HasOnlySupportedTypeKeywords(s) ==
    s.boolean = None /\ s.const = None /\ s.enum = None /\ ~s.other

(* The schemas of a field: its own property and those of the allOf parts.   *)
RECURSIVE PropertiesForField(_, _, _, _)
PropertiesForField(d, n, field, depth) ==
    LET r     == Resolve(d, n)
        own   == IF field \in DOMAIN d[r].props THEN <<d[r].props[field]>> ELSE <<>>
        parts == [i \in DOMAIN d[r].allOf |->
                    PropertiesForField(d, d[r].allOf[i], field, depth + 1)]
    IN  IF depth > Depth \/ r = Error THEN Error
        ELSE IF Error \in Range(parts) THEN Error
        ELSE own \o FlattenSeq(parts)

RECURSIVE FieldIsRequired(_, _, _, _)
FieldIsRequired(d, n, field, depth) ==
    LET r     == Resolve(d, n)
        parts == [i \in DOMAIN d[r].allOf |-> FieldIsRequired(d, d[r].allOf[i], field, depth + 1)]
    IN  IF depth > Depth \/ r = Error THEN Error
        ELSE IF field \in d[r].required THEN TRUE
        ELSE FirstIn(parts, {TRUE, Error}, FALSE)

(* Does a value of this type pass, in a request?                            *)
RECURSIVE RequestAcceptsType(_, _, _)
RequestAcceptsType(d, n, type) ==
    LET r  == Resolve(d, n)
        s  == d[r]
        Of(variants) == [i \in DOMAIN variants |-> RequestAcceptsType(d, variants[i], type)]
        Unless(answers, verdict) == IF None \in Range(answers) THEN None ELSE verdict
        Passing(answers) == {i \in DOMAIN answers : answers[i] = TRUE}
    IN  IF r = Error THEN Error
        ELSE IF ~HasOnlySupportedTypeKeywords(s) THEN None
        ELSE IF s.type # None THEN type \in s.type
        ELSE IF s.anyOf # <<>> THEN FirstIn(Of(s.anyOf), {TRUE, Error}, Unless(Of(s.anyOf), FALSE))
        ELSE IF s.oneOf # <<>>
             THEN FirstIn(Of(s.oneOf), {Error, None}, Cardinality(Passing(Of(s.oneOf))) = 1)
        ELSE IF s.allOf # <<>> THEN FirstIn(Of(s.allOf), {FALSE, Error}, Unless(Of(s.allOf), TRUE))
        ELSE TRUE

(* The types a response may have here, None when they cannot be told.       *)
RECURSIVE ResponseTypeSet(_, _, _)
ResponseTypeSet(d, n, depth) ==
    LET r == Resolve(d, n)
        s == d[r]
        Of(variants) == [i \in DOMAIN variants |-> ResponseTypeSet(d, variants[i], depth + 1)]
        Known(sets) == sets # <<>> /\ None \notin Range(sets)
        Apart(sets) == \A i, j \in DOMAIN sets : i # j => sets[i] \cap sets[j] = {}
        Common(sets) == {t \in sets[1] : \A i \in DOMAIN sets : t \in sets[i]}
    IN  IF depth > Depth \/ r = Error THEN None
        ELSE IF ~HasOnlySupportedTypeKeywords(s) THEN None
        ELSE IF s.type # None THEN s.type
        ELSE IF s.anyOf # <<>> THEN IF Known(Of(s.anyOf)) THEN UNION Range(Of(s.anyOf)) ELSE None
        ELSE IF s.oneOf # <<>>
             THEN IF Known(Of(s.oneOf)) /\ Apart(Of(s.oneOf)) THEN UNION Range(Of(s.oneOf)) ELSE None
        ELSE IF Known(Of(s.allOf)) THEN Common(Of(s.allOf)) ELSE None

(* All the schemas of a field together leave only the expected type.        *)
LeavesOnly(sets, type, nullable) ==
    LET left == {t \in UNION sets : \A S \in sets : t \in S}
    IN  /\ None \notin sets
        /\ type \in left /\ left \subseteq {type} \cup (IF nullable THEN {"null"} ELSE {})
ResponsePropertiesAreCompatible(d, values, type, nullable) ==
    LeavesOnly({ResponseTypeSet(d, v, 0) : v \in Range(values)}, type, nullable)

RECURSIVE IntegerSchemaUsesFormats(_, _, _)
IntegerSchemaUsesFormats(d, n, formats) ==
    LET r == Resolve(d, n)
        variants == FirstIn(<<d[r].anyOf, d[r].oneOf, d[r].allOf>>,
                            {d[r].anyOf, d[r].oneOf, d[r].allOf} \ {<<>>}, <<>>)
    IN  IF r = Error THEN FALSE
        ELSE IF d[r].type # None THEN "integer" \in d[r].type => d[r].format \in formats
        ELSE /\ variants # <<>>
             /\ \A i \in DOMAIN variants : IntegerSchemaUsesFormats(d, variants[i], formats)

(* require_field_type and require_nullable_field_type.                      *)
FieldFits(d, values, type, nullable) ==
    /\ values \notin {Error, <<>>}
    /\ ResponsePropertiesAreCompatible(d, values, type, nullable)
    /\ Resolve(d, values[1]) # Error
RequireFieldType(d, object, field, type, required, nullable) ==
    /\ FieldFits(d, PropertiesForField(d, object, field, 0), type, nullable)
    /\ required => FieldIsRequired(d, object, field, 0) = TRUE

(* A mistake to be caught (README, Mutants). *)
RequireIntegerField(d, object, field, formats) ==
    RequireFieldType(d, object, field, "integer", TRUE, FALSE)

RequireUnsignedIntegerField(d, object, field, formats) ==
    /\ RequireFieldType(d, object, field, "integer", TRUE, FALSE)
    /\ \A p \in Range(PropertiesForField(d, object, field, 0)) :
         IntegerSchemaUsesFormats(d, p, formats)

RequireRequestFieldType(d, object, field, type, required) ==
    LET values == PropertiesForField(d, object, field, 0)
    IN  /\ values \notin {Error, <<>>}
        /\ required => FieldIsRequired(d, object, field, 0) = TRUE
        /\ \A p \in Range(values) : RequestAcceptsType(d, p, type) = TRUE

(* property and array_item, with the resolve that follows them.             *)
Property(d, object, field) ==
    LET values == PropertiesForField(d, object, field, 0)
    IN  IF values \in {Error, <<>>} THEN Error ELSE Resolve(d, values[1])
ArrayItem(d, array) == IF d[array].items = None THEN Error ELSE Resolve(d, d[array].items)

(* Nothing but these fields may be required of a request.                   *)
RECURSIVE RejectUnsupportedRequiredFields(_, _, _, _, _)
RejectUnsupportedRequiredFields(d, n, supported, depth, alternatives) ==
    LET r == Resolve(d, n)
        variants == d[r].allOf \o (IF alternatives THEN d[r].anyOf \o d[r].oneOf ELSE <<>>)
    IN  /\ depth <= Depth /\ r # Error
        /\ d[r].required \subseteq supported
        /\ \A v \in Range(variants) :
             RejectUnsupportedRequiredFields(d, v, supported, depth + 1, alternatives)

(* and_acceptance and all_acceptance, any_acceptance, one_acceptance.       *)
AllAcceptance(answers) ==
    IF FALSE \in answers THEN FALSE ELSE IF None \in answers THEN None ELSE TRUE
AnyAcceptance(answers) ==
    IF TRUE \in answers THEN TRUE ELSE IF None \in answers THEN None ELSE FALSE
OneAcceptance(answers) ==
    LET matches == Cardinality({i \in DOMAIN answers : answers[i] = TRUE})
    IN  IF matches > 1 THEN FALSE
        ELSE IF None \in Range(answers) THEN None ELSE matches = 1

(* Does this very string pass?                                              *)
RECURSIVE SchemaAcceptsStringInstance(_, _, _, _)
SchemaAcceptsStringInstance(d, n, expected, depth) ==
    LET r == Resolve(d, n)
        s == d[r]
        Of(variants) ==
            [i \in DOMAIN variants |->
               SchemaAcceptsStringInstance(d, variants[i], expected, depth + 1)]
        known == [s EXCEPT !.type = None, !.const = None, !.enum = None,
                           !.anyOf = <<>>, !.oneOf = <<>>, !.allOf = <<>>] = AnySchema
    IN  IF depth > Depth \/ r = Error THEN Error
        ELSE IF s.boolean # None THEN s.boolean
        ELSE IF ~known THEN None
        ELSE IF Error \in Range(Of(s.allOf \o s.anyOf \o s.oneOf)) THEN Error
        ELSE AllAcceptance(
               {s.type = None \/ "string" \in s.type,
                s.const \in {None, expected},
                s.enum = None \/ expected \in s.enum,
                AllAcceptance(Range(Of(s.allOf))),
                s.anyOf = <<>> \/ AnyAcceptance(Range(Of(s.anyOf))),
                IF s.oneOf = <<>> THEN TRUE ELSE OneAcceptance(Of(s.oneOf))})

(* The node whose property says it is the expected variant.                 *)
Targets(d, found) == IF found = Error THEN {Error} ELSE {Resolve(d, f) : f \in Range(found)}
VariantAt(d, r, targets, answers, expected, depth) ==
    LET consts  == {d[t].const : t \in targets} \ {None}
        accepts == {SchemaAcceptsStringInstance(d, t, expected, depth + 1) : t \in targets}
    IN  IF Error \in targets THEN Error
        ELSE IF Error \in accepts THEN Error
        ELSE IF expected \notin consts THEN FirstIn(answers, Range(answers) \ {None}, None)
        ELSE IF consts = {expected} /\ accepts = {TRUE} THEN r ELSE Error

RECURSIVE FindDiscriminatorWithDepth(_, _, _, _, _)
FindDiscriminatorWithDepth(d, n, property, expected, depth) ==
    LET r == Resolve(d, n)
        Of(variants) ==
            [i \in DOMAIN variants |->
               FindDiscriminatorWithDepth(d, variants[i], property, expected, depth + 1)]
    IN  IF depth > Depth \/ r = Error THEN Error
        ELSE VariantAt(d, r, Targets(d, PropertiesForField(d, r, property, depth)),
                       Of(d[r].oneOf \o d[r].anyOf \o d[r].allOf), expected, depth)
FindDiscriminator(d, n, property, expected) ==
    FindDiscriminatorWithDepth(d, n, property, expected, 0)

ValidateTabInfo(d, tab) ==
    /\ \A f \in {"tab_id", "workspace_id", "label"} :
         RequireFieldType(d, tab, f, "string", TRUE, FALSE)
    /\ RequireFieldType(d, tab, "focused", "boolean", TRUE, FALSE)
    /\ RequireUnsignedIntegerField(d, tab, "number", {"uint", "uint32", "uint64"})

ValidatePaneInfo(d, pane) ==
    /\ \A f \in {"pane_id", "workspace_id", "tab_id"} :
         RequireFieldType(d, pane, f, "string", TRUE, FALSE)
    /\ RequireFieldType(d, pane, "focused", "boolean", TRUE, FALSE)
    /\ \A f \in {"cwd", "foreground_cwd"} : RequireFieldType(d, pane, f, "string", FALSE, TRUE)
    /\ RequireUnsignedIntegerField(d, pane, "revision", {"uint", "uint32", "uint64"})

(* fields is what Tabby sends: whether each of its fields must be required. *)
ParamsFit(d, params, fields) ==
    /\ params # Error
    /\ RequestAcceptsType(d, params, "object") = TRUE
    /\ RejectUnsupportedRequiredFields(d, params, DOMAIN fields, 0, TRUE)
    /\ \A f \in DOMAIN fields : RequireRequestFieldType(d, params, f, "string", fields[f])
RequestFits(d, variant, fields) ==
    /\ variant \notin {None, Error}
    /\ RejectUnsupportedRequiredFields(d, variant, {"method", "params"}, 0, TRUE)
    /\ \A f \in {"method", "params"} : FieldIsRequired(d, variant, f, 0) = TRUE
    /\ ParamsFit(d, Property(d, variant, "params"), fields)

(* A mistake to be caught (README, Mutants). *)
RequireRequestMethod(d, request, method, fields) ==
    FindDiscriminator(d, request, "method", method) \notin {None, Error}

(* fields is what Tabby sends: whether each of its fields must be required. *)
ValidateRequestMethod(d, request, method, fields) ==
    RequestFits(d, FindDiscriminator(d, request, "method", method), fields)

(* The payload of a response of this variant.                               *)
Payload(d, variant, field) ==
    IF /\ variant \notin {None, Error}
       /\ \A f \in {"type", field} : FieldIsRequired(d, variant, f, 0) = TRUE
    THEN Property(d, variant, field) ELSE Error
ResponsePayload(d, response, type, field) ==
    Payload(d, FindDiscriminator(d, response, "type", type), field)

(* A result that is not there may be missing, if the other one fits.        *)
TabInfoFits(d, tab) == tab # Error /\ ValidateTabInfo(d, tab)
OkFits(d, ok) == ok \notin {None, Error} /\ FieldIsRequired(d, ok, "type", 0) = TRUE
RenameFits(d, response, tabInfo) ==
    /\ tabInfo # Error
    /\ \/ tabInfo # None /\ TabInfoFits(d, Payload(d, tabInfo, "tab"))
       \/ OkFits(d, FindDiscriminator(d, response, "type", "ok"))
ValidateRenameResponse(d, response) ==
    RenameFits(d, response, FindDiscriminator(d, response, "type", "tab_info"))

ValidateRequests(d, request) ==
    /\ RequestAcceptsType(d, request, "object") = TRUE
    /\ RejectUnsupportedRequiredFields(d, request, {"id"}, 0, FALSE)
    /\ RequireRequestFieldType(d, request, "id", "string", TRUE)
    /\ ValidateRequestMethod(d, request, "session.snapshot", <<>>)
    /\ ValidateRequestMethod(d, request, "pane.process_info", [pane_id |-> FALSE])
    /\ ValidateRequestMethod(d, request, "tab.rename", [tab_id |-> TRUE, label |-> TRUE])

ValidateSnapshot(d, snapshot) ==
    /\ snapshot # Error
    /\ RequireFieldType(d, snapshot, "version", "string", TRUE, FALSE)
    /\ RequireUnsignedIntegerField(d, snapshot, "protocol", {"uint32"})
    /\ \A f \in {"focused_tab_id", "focused_pane_id"} :
         RequireFieldType(d, snapshot, f, "string", FALSE, TRUE)
    /\ \A f \in {"tabs", "panes"} :
         /\ RequireFieldType(d, snapshot, f, "array", TRUE, FALSE)
         /\ ArrayItem(d, Property(d, snapshot, f)) # Error
    /\ ValidateTabInfo(d, ArrayItem(d, Property(d, snapshot, "tabs")))
    /\ ValidatePaneInfo(d, ArrayItem(d, Property(d, snapshot, "panes")))

ValidateProcess(d, process) ==
    /\ process # Error
    /\ RequireUnsignedIntegerField(d, process, "pid", {"uint32"})
    /\ RequireFieldType(d, process, "name", "string", TRUE, FALSE)
    /\ RequireFieldType(d, process, "argv", "array", FALSE, TRUE)
    /\ LET argument == ArrayItem(d, Property(d, process, "argv"))
       IN  argument # Error /\ ResponsePropertiesAreCompatible(d, <<argument>>, "string", FALSE)
    /\ \A f \in {"argv0", "cmdline"} : RequireFieldType(d, process, f, "string", FALSE, TRUE)

ValidateProcessInfo(d, info) ==
    /\ info # Error
    /\ RequireFieldType(d, info, "pane_id", "string", TRUE, FALSE)
    /\ RequireFieldType(d, info, "foreground_processes", "array", FALSE, FALSE)
    /\ ValidateProcess(d, ArrayItem(d, Property(d, info, "foreground_processes")))

ValidateResponses(d, response) ==
    LET result == Property(d, response, "result")
    IN  /\ FieldIsRequired(d, response, "result", 0) = TRUE
        /\ result # Error
        /\ ValidateSnapshot(d, ResponsePayload(d, result, "session_snapshot", "snapshot"))
        /\ ValidateProcessInfo(d, ResponsePayload(d, result, "pane_process_info", "process_info"))
        /\ ValidateRenameResponse(d, result)

(* What the binary printed, for the protocol its server runs.               *)
ValidateSchema(document, protocol) ==
    /\ document.protocol = protocol
    /\ {"request", "success_response"} \subseteq DOMAIN document.nodes
    /\ ValidateRequests(document.nodes, "request")
    /\ ValidateResponses(document.nodes, "success_response")
==============================================================================

------------------------------ MODULE Filters ------------------------------
(***************************************************************************)
(* The list endpoints for systems and workflows: the OData $filter         *)
(* parameter is parsed (utils/odata), mapped to a repository query by the  *)
(* schema of the endpoint (system_controller.go, workflow_controller.go,   *)
(* manager/workflow.go), and the query is turned into SQL conditions       *)
(* (repo/query.go, repo/sql/repo.go).                                      *)
(*                                                                         *)
(* A filter is a sequence of tokens rather than of characters: words,      *)
(* operations surrounded by blanks, quoted values and a quote that is      *)
(* never closed.  What stands between quotes is the text of one token, as  *)
(* splitBooleanOperations ignores operations where the number of quotes    *)
(* seen is odd.  Texts are a small set that holds one text of every kind   *)
(* the code tells apart.                                                   *)
(***************************************************************************)
EXTENDS Naturals, Sequences, FiniteSets

Word(t)   == [kind |-> "word", text |-> t]
Op(t)     == [kind |-> "op", text |-> t]
Quoted(t) == [kind |-> "quoted", text |-> t]
Open(t)   == [kind |-> "open", text |-> t]

NULL    == "<NULL>"     \* the SQL value
NilUUID == "u0"         \* uuid.Nil, a well-formed UUID
UUIDs   == {NilUUID, "u1", "u2", "u3"}
Long    == "long"       \* a text longer than the limit of its field

ToUpper(t) == CASE t = "eu" -> "EU" [] t = "key" -> "KEY" [] t = "initial" -> "INITIAL"
                [] t = "null" -> "NULL" [] OTHER -> t

(* convertString: quotes come in pairs and each pair stands for one. *)
Escaped(t)       == t # "a'b"
MutantConvert(t) == t
convertString(t) == IF t = "a''b" THEN "a'b" ELSE t

-----------------------------------------------------------------------------
(* parser.go *)

IsOp(tokens, i, t) == tokens[i] = Op(t)

(* checkFilterForOperation: an operation other than eq and and is not      *)
(* supported, and two eq must be separated by an and.                      *)
Unsupported(tokens, i) == tokens[i].kind = "op" /\ tokens[i].text \notin {"eq", "and"}

SecondDyad(tokens, i) ==
    /\ IsOp(tokens, i, "eq")
    /\ \E j \in 1 .. i - 1 : IsOp(tokens, j, "eq") /\ \A k \in j .. i : ~ IsOp(tokens, k, "and")

(* splitBooleanOperations refuses the filter at an operation it does not   *)
(* accept or at the end when a quote is left open; otherwise the operands  *)
(* are what stands between the and operations.                             *)
BooleanOperationsRefused(tokens) ==
    \E i \in DOMAIN tokens :
        Unsupported(tokens, i) \/ SecondDyad(tokens, i) \/ tokens[i].kind = "open"

Ands(tokens) == {i \in DOMAIN tokens : IsOp(tokens, i, "and")}

(* splitBooleanOperandsFromIndices *)
Cut(tokens, k) ==
    IF k > Cardinality(Ands(tokens)) THEN Len(tokens) + 1
    ELSE IF k = 0 THEN 0
    ELSE CHOOSE p \in Ands(tokens) : Cardinality({q \in Ands(tokens) : q <= p}) = k

Operands(tokens) ==
    [k \in 1 .. Cardinality(Ands(tokens)) + 1 |->
        SubSeq(tokens, Cut(tokens, k - 1) + 1, Cut(tokens, k) - 1)]

(* splitComparisonOperation: an eq, and no quote before it. *)
ComparisonRefused(operand) ==
    \/ \A i \in DOMAIN operand : ~ IsOp(operand, i, "eq")
    \/ \E i, j \in DOMAIN operand :
          i < j /\ IsOp(operand, j, "eq") /\ operand[i].kind \in {"quoted", "open"}

(* The text of a sequence of tokens other than a single one is no field    *)
(* name, and no quoted value.                                              *)
NoText == Word("<none>")
Only(tokens) == IF Len(tokens) = 1 THEN tokens[1] ELSE NoText

Comparison(operand) ==
    LET e == CHOOSE i \in DOMAIN operand : IsOp(operand, i, "eq")
    IN  [field |-> Only(SubSeq(operand, 1, e - 1)).text,
         value |-> Only(SubSeq(operand, e + 1, Len(operand)))]

FilterRefused(tokens) ==
    /\ tokens # << >>
    /\ \/ BooleanOperationsRefused(tokens)
       \/ \E k \in DOMAIN Operands(tokens) : ComparisonRefused(Operands(tokens)[k])

parseFilter(tokens) ==
    IF tokens = << >> THEN << >>
    ELSE [k \in DOMAIN Operands(tokens) |-> Comparison(Operands(tokens)[k])]

-----------------------------------------------------------------------------
(* schema.go and the schemas of the two endpoints.  "valid" is the texts   *)
(* the ValueValidator accepts among the processed ones; "column" is the    *)
(* column the DBQuery or the DBName of the entry compares.                 *)

Entries(name, type, column, upper, invalid) ==
    [FilterName |-> name, FilterType |-> type, DBName |-> column, ToUpper |-> upper, Invalid |-> invalid]

Types         == {"KEY", "SYSTEM"}
States        == {"INITIAL"}
ActionTypes   == {"DELETE", "LINK"}
Texts         == {"eu", "EU", "key", "KEY", "SYSTEM", "initial", "INITIAL", "DELETE", "null", "NULL",
                  "not_null", "", "a''b", "a'b", Long, "n"} \cup UUIDs

getSystemsSchema == {
    Entries("keyConfigurationID", "UUID", "key_configuration_id", FALSE, {}),
    Entries("keyConfigurationName", "STRING", "key_configurations.name", FALSE, {Long}),
    Entries("targetKeyConfigurationID", "UUID", "target_key_configuration_id", FALSE, {}),
    Entries("region", "STRING", "region", FALSE, {Long}),
    Entries("type", "STRING", "type", TRUE, {Long}),
    Entries("status", "STRING", "status", TRUE, {Long}) }

GetWorkflowsSchema == {
    Entries("artifactId", "UUID", "artifact_id", FALSE, {}),
    Entries("artifactType", "STRING", "artifact_type", TRUE, Texts \ Types),
    Entries("artifactName", "STRING", "artifact_name", FALSE, {Long}),
    Entries("parametersResourceName", "STRING", "parameters_resource_name", FALSE, {Long}),
    Entries("actionType", "STRING", "action_type", TRUE, Texts \ ActionTypes),
    Entries("state", "STRING", "state", TRUE, Texts \ States) }

HasEntry(schema, name) == \E e \in schema : e.FilterName = name
EntryOf(schema, name)  == CHOOSE e \in schema : e.FilterName = name

(* modify and convert of one entry: the value must be quoted, is modified  *)
(* before it is converted, and is validated as it was before conversion.   *)
Modified(entry, text) == IF entry.ToUpper THEN ToUpper(text) ELSE text

ValueRefused(entry, value) ==
    \/ value.kind # "quoted"
    \/ ~ Escaped(Modified(entry, value.text))
    \/ entry.FilterType = "UUID" /\ value.text \notin UUIDs
    \/ Modified(entry, value.text) \in entry.Invalid

Converted(entry, value) ==
    [field |-> entry.DBName, plain |-> entry.FilterType = "STRING",
     value |-> convertString(Modified(entry, value.text))]

(* ParseFilter of receive.go *)
ParseRefused(schema, tokens) ==
    \/ FilterRefused(tokens)
    \/ \E k \in DOMAIN parseFilter(tokens) :
          LET c == parseFilter(tokens)[k] IN
          ~ HasEntry(schema, c.field) \/ ValueRefused(EntryOf(schema, c.field), c.value)

ParseFilter(schema, tokens) ==
    [k \in DOMAIN parseFilter(tokens) |->
        LET c == parseFilter(tokens)[k] IN Converted(EntryOf(schema, c.field), c.value)]

(* parseFilterMap: the last value given for a field. *)
Given(parsed, field) == {k \in DOMAIN parsed : parsed[k].field = field}
Last(parsed, field)  == parsed[CHOOSE k \in Given(parsed, field) : \A j \in Given(parsed, field) : j <= k].value

GetString(parsed, field) == IF Given(parsed, field) = {} THEN "" ELSE Last(parsed, field)
GetUUID(parsed, field)   == IF Given(parsed, field) = {} THEN NilUUID ELSE Last(parsed, field)

=============================================================================

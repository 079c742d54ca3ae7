----------------------------- MODULE AgentRecord -----------------------------
(***************************************************************************)
(* The agent record of the database module                                 *)
(* (src/modules/srv-mod-database/src/models/agent.rs) composed with the    *)
(* AgentFields enum of DbEnums.  A checkin is mapped into a CreateAgent by *)
(* From<Checkin> and inserted under a fresh CUID2 id; a filter stores an   *)
(* AgentFields value in its field column through to_sql; evaluating the    *)
(* filter on an agent reads the column back through from_sql and asks the *)
(* agent for that field with get_field_value.  The two match tables        *)
(* (AgentFields <-> label, AgentFields -> struct field) are written        *)
(* separately in the code, so nothing but the model ties a label to the    *)
(* column of the same name.                                                *)
(***************************************************************************)
EXTENDS Integers, Sequences, TLAPS

CONSTANTS
    Checkins,   \* the checkins the agents send (validated records)
    Ids         \* the ids CUID2.create_id() can return

\* A checkin record has the fields From<Checkin> reads.
CheckinType ==
    [operative_system : STRING, hostname : STRING, domain : STRING,
     username : STRING, ip : STRING, process_id : Int,
     parent_process_id : Int, process_name : STRING, elevated : BOOLEAN]

ASSUME CheckinsAssumption == Checkins \subseteq CheckinType

\* The enum tables of schema_extension.rs; only the constant operators are
\* used, so DbEnums' own variables are bound to a constant.
Db == INSTANCE DbEnums WITH written <- {}, stored <- {}, read <- {}

\* i64::to_string: the decimal digits, with a leading '-' if negative.
Digit == <<"0", "1", "2", "3", "4", "5", "6", "7", "8", "9">>

NatToString[n \in Nat] ==
    IF n < 10 THEN Digit[n + 1]
    ELSE NatToString[n \div 10] \o Digit[(n % 10) + 1]

I64ToString(n) == IF n < 0 THEN "-" \o NatToString[-n] ELSE NatToString[n]

\* bool::to_string.
BoolToString(b) == IF b THEN "true" ELSE "false"

\* From<Checkin> for CreateAgent: the id is a fresh CUID2, the checkin's
\* fields are moved over one for one, and the secrets and the signature
\* start empty.
FromCheckin(c, id) ==
    [id |-> id,
     operative_system |-> c.operative_system, hostname |-> c.hostname,
     domain |-> c.domain, username |-> c.username, ip |-> c.ip,
     process_id |-> c.process_id,
     parent_process_id |-> c.parent_process_id,
     process_name |-> c.process_name, elevated |-> c.elevated,
     server_secret_key |-> "", secret_key |-> "", signature |-> ""]

\* Mutant: two arms of get_field_value answer each other's field.
GetFieldValueSwapped(a, f) ==
    CASE f = "OperativeSystem" -> a.operative_system
      [] f = "Hostname" -> a.domain
      [] f = "Domain" -> a.hostname
      [] f = "Username" -> a.username
      [] f = "Ip" -> a.ip
      [] f = "ProcessId" -> I64ToString(a.process_id)
      [] f = "ParentProcessId" -> I64ToString(a.parent_process_id)
      [] f = "ProcessName" -> a.process_name
      [] f = "Elevated" -> BoolToString(a.elevated)
      [] f = "ServerSecretKey" -> a.server_secret_key
      [] f = "SecretKey" -> a.secret_key
      [] f = "Signature" -> a.signature

\* Agent::get_field_value: the field the variant names, rendered as text
\* (every arm returns Some).
GetFieldValue(a, f) ==
    CASE f = "OperativeSystem" -> a.operative_system
      [] f = "Hostname" -> a.hostname
      [] f = "Domain" -> a.domain
      [] f = "Username" -> a.username
      [] f = "Ip" -> a.ip
      [] f = "ProcessId" -> I64ToString(a.process_id)
      [] f = "ParentProcessId" -> I64ToString(a.parent_process_id)
      [] f = "ProcessName" -> a.process_name
      [] f = "Elevated" -> BoolToString(a.elevated)
      [] f = "ServerSecretKey" -> a.server_secret_key
      [] f = "SecretKey" -> a.secret_key
      [] f = "Signature" -> a.signature

\* No filter stored, no answer given.
NoFilter == "none"
NoAnswer == [agent |-> "none", label |-> "none", value |-> "none"]
Unrecognized == Db!Unrecognized

VARIABLES
    agents,     \* the agents table: id -> row
    origin,     \* the checkin each agent was created from (history)
    filter,     \* the bytes the filter's field column holds
    answer      \* the last evaluation: agent id, label read, value or error

vars == <<agents, origin, filter, answer>>

Init ==
    /\ agents = [id \in {} |-> NoFilter]
    /\ origin = [id \in {} |-> NoFilter]
    /\ filter = NoFilter
    /\ answer = NoAnswer

\* An agent checks in: From<Checkin> builds the CreateAgent with a new id,
\* which is inserted; an id already taken makes the insert fail.
Persist(c, id) ==
    /\ id \notin DOMAIN agents
    /\ agents' = [x \in DOMAIN agents \cup {id} |->
                    IF x = id THEN FromCheckin(c, id) ELSE agents[x]]
    /\ origin' = [x \in DOMAIN origin \cup {id} |->
                    IF x = id THEN c ELSE origin[x]]
    /\ UNCHANGED <<filter, answer>>

\* Mutant: the column is bound with the variant's Debug name instead of
\* its to_sql label.
StoreFilterDebug(f) ==
    /\ filter' = f
    /\ UNCHANGED <<agents, origin, answer>>

\* A filter on field f is saved: AgentFields::to_sql writes its label.
StoreFilter(f) ==
    /\ filter' = Db!AgentFieldsToSql[f]
    /\ UNCHANGED <<agents, origin, answer>>

\* The filter is evaluated on agent id: from_sql reads the label back and,
\* when it is a variant, get_field_value gives the agent's value.
Evaluate(id) ==
    /\ filter # NoFilter
    /\ id \in DOMAIN agents
    /\ LET f == Db!FromSql(Db!AgentFieldsFromSqlTable, filter)
       IN  answer' = [agent |-> id, label |-> filter,
                      value |-> IF f = Unrecognized THEN Unrecognized
                                ELSE GetFieldValue(agents[id], f)]
    /\ UNCHANGED <<agents, origin, filter>>

Next ==
    \/ \E c \in Checkins, id \in Ids : Persist(c, id)
    \/ \E f \in Db!AgentFields : StoreFilter(f)
    \/ \E id \in Ids : Evaluate(id)

Spec == Init /\ [][Next]_vars

-----------------------------------------------------------------------------
(* Properties.                                                             *)

\* The value of the checkin column named by an SQL label, rendered as
\* text: the spec's field-for-field mapping (secrets and signature empty).
CheckinColumn(c, label) ==
    [operative_system |-> c.operative_system, hostname |-> c.hostname,
     domain |-> c.domain, username |-> c.username, ip |-> c.ip,
     process_id |-> I64ToString(c.process_id),
     parent_process_id |-> I64ToString(c.parent_process_id),
     process_name |-> c.process_name,
     elevated |-> BoolToString(c.elevated),
     server_secret_key |-> "", secret_key |-> "", signature |-> ""][label]

\* Every row comes from a checkin and every evaluation is about an agent.
TypeOK ==
    /\ DOMAIN agents \subseteq Ids
    /\ DOMAIN origin = DOMAIN agents
    /\ origin \in [DOMAIN origin -> Checkins]
    /\ filter \in {NoFilter} \cup DOMAIN Db!AgentFieldsFromSqlTable
    /\ answer = NoAnswer \/ answer.agent \in DOMAIN agents

\* A filter on an agent field, saved through to_sql and evaluated through
\* from_sql and get_field_value, yields exactly the value of the column
\* of the same name in the checkin the agent was created from (text for
\* the numbers and the flag, empty secrets and signature): the three match
\* tables of agent.rs and schema_extension.rs agree field by field.
FilterSeesCheckin ==
    answer # NoAnswer =>
        answer.value = CheckinColumn(origin[answer.agent], answer.label)

-----------------------------------------------------------------------------
(* Proof that FilterSeesCheckin holds for every set of checkins and ids.   *)

\* The rows are exactly what From<Checkin> made of the recorded checkins,
\* and the filter column only ever holds a label to_sql writes.
RecordInv ==
    /\ TypeOK
    /\ \A id \in DOMAIN agents : agents[id] = FromCheckin(origin[id], id)
    /\ FilterSeesCheckin

\* For every label to_sql writes, from_sql and get_field_value on the row
\* From<Checkin> builds give the checkin's column of that name.
LEMMA FieldRouting ==
    ASSUME NEW c, NEW id, NEW label \in DOMAIN Db!AgentFieldsFromSqlTable
    PROVE  LET f == Db!FromSql(Db!AgentFieldsFromSqlTable, label)
           IN  /\ f # Unrecognized
               /\ GetFieldValue(FromCheckin(c, id), f) = CheckinColumn(c, label)
<1>1. label \in {"operative_system", "hostname", "domain", "username", "ip",
                 "process_id", "parent_process_id", "process_name",
                 "elevated", "server_secret_key", "secret_key", "signature"}
  BY DEF Db!AgentFieldsFromSqlTable
<1>2. CASE label = "operative_system"
  BY <1>2, Zenon DEF Db!FromSql, Db!AgentFieldsFromSqlTable, Unrecognized,
     Db!Unrecognized, GetFieldValue, FromCheckin, CheckinColumn
<1>3. CASE label = "hostname"
  BY <1>3, Zenon DEF Db!FromSql, Db!AgentFieldsFromSqlTable, Unrecognized,
     Db!Unrecognized, GetFieldValue, FromCheckin, CheckinColumn
<1>4. CASE label = "domain"
  BY <1>4, Zenon DEF Db!FromSql, Db!AgentFieldsFromSqlTable, Unrecognized,
     Db!Unrecognized, GetFieldValue, FromCheckin, CheckinColumn
<1>5. CASE label = "username"
  BY <1>5, Zenon DEF Db!FromSql, Db!AgentFieldsFromSqlTable, Unrecognized,
     Db!Unrecognized, GetFieldValue, FromCheckin, CheckinColumn
<1>6. CASE label = "ip"
  BY <1>6, Zenon DEF Db!FromSql, Db!AgentFieldsFromSqlTable, Unrecognized,
     Db!Unrecognized, GetFieldValue, FromCheckin, CheckinColumn
<1>7. CASE label = "process_id"
  BY <1>7, Zenon DEF Db!FromSql, Db!AgentFieldsFromSqlTable, Unrecognized,
     Db!Unrecognized, GetFieldValue, FromCheckin, CheckinColumn
<1>8. CASE label = "parent_process_id"
  BY <1>8, Zenon DEF Db!FromSql, Db!AgentFieldsFromSqlTable, Unrecognized,
     Db!Unrecognized, GetFieldValue, FromCheckin, CheckinColumn
<1>9. CASE label = "process_name"
  BY <1>9, Zenon DEF Db!FromSql, Db!AgentFieldsFromSqlTable, Unrecognized,
     Db!Unrecognized, GetFieldValue, FromCheckin, CheckinColumn
<1>10. CASE label = "elevated"
  BY <1>10, Zenon DEF Db!FromSql, Db!AgentFieldsFromSqlTable, Unrecognized,
     Db!Unrecognized, GetFieldValue, FromCheckin, CheckinColumn
<1>11. CASE label = "server_secret_key"
  BY <1>11, Zenon DEF Db!FromSql, Db!AgentFieldsFromSqlTable, Unrecognized,
     Db!Unrecognized, GetFieldValue, FromCheckin, CheckinColumn
<1>12. CASE label = "secret_key"
  BY <1>12, Zenon DEF Db!FromSql, Db!AgentFieldsFromSqlTable, Unrecognized,
     Db!Unrecognized, GetFieldValue, FromCheckin, CheckinColumn
<1>13. CASE label = "signature"
  BY <1>13, Zenon DEF Db!FromSql, Db!AgentFieldsFromSqlTable, Unrecognized,
     Db!Unrecognized, GetFieldValue, FromCheckin, CheckinColumn
<1>14. QED
  BY <1>1, <1>2, <1>3, <1>4, <1>5, <1>6, <1>7, <1>8, <1>9, <1>10, <1>11, <1>12, <1>13

\* Every label to_sql writes is one from_sql recognises.
LEMMA LabelsRecognised ==
    \A f \in Db!AgentFields :
        Db!AgentFieldsToSql[f] \in DOMAIN Db!AgentFieldsFromSqlTable
BY DEF Db!AgentFields, Db!AgentFieldsToSql, Db!AgentFieldsFromSqlTable

LEMMA RecordInvInit == Init => RecordInv
BY DEF Init, RecordInv, TypeOK, FilterSeesCheckin, NoFilter, NoAnswer

LEMMA RecordInvStep == RecordInv /\ [Next]_vars => RecordInv'
<1> SUFFICES ASSUME RecordInv, [Next]_vars PROVE RecordInv'
  OBVIOUS
<1>1. ASSUME NEW c \in Checkins, NEW id \in Ids, Persist(c, id)
      PROVE  RecordInv'
  <2>1. TypeOK'
    BY <1>1 DEF RecordInv, TypeOK, Persist
  <2>2. (\A x \in DOMAIN agents : agents[x] = FromCheckin(origin[x], x))'
    BY <1>1 DEF RecordInv, TypeOK, Persist
  <2>3. FilterSeesCheckin'
    <3>1. CASE answer = NoAnswer
      BY <1>1, <3>1 DEF Persist, FilterSeesCheckin
    <3>2. CASE answer # NoAnswer
      <4>1. answer.agent \in DOMAIN agents /\ answer.agent # id
        BY <1>1, <3>2 DEF RecordInv, TypeOK, Persist
      <4>2. origin'[answer.agent] = origin[answer.agent]
        BY <1>1, <4>1 DEF RecordInv, TypeOK, Persist
      <4>3. QED
        BY <1>1, <3>2, <4>2 DEF RecordInv, FilterSeesCheckin, Persist
    <3>3. QED
      BY <3>1, <3>2
  <2>4. QED
    BY <2>1, <2>2, <2>3 DEF RecordInv
<1>2. ASSUME NEW f \in Db!AgentFields, StoreFilter(f) PROVE RecordInv'
  <2>1. filter' \in DOMAIN Db!AgentFieldsFromSqlTable
    BY <1>2, LabelsRecognised DEF StoreFilter
  <2>2. QED
    BY <1>2, <2>1 DEF RecordInv, TypeOK, FilterSeesCheckin, StoreFilter
<1>3. ASSUME NEW id \in Ids, Evaluate(id) PROVE RecordInv'
  <2>1. filter \in DOMAIN Db!AgentFieldsFromSqlTable /\ id \in DOMAIN agents
    BY <1>3 DEF Evaluate, RecordInv, TypeOK, NoFilter,
               Db!AgentFieldsFromSqlTable
  <2>2. agents[id] = FromCheckin(origin[id], id)
    BY <2>1 DEF RecordInv
  <2>3. answer' = [agent |-> id, label |-> filter,
                   value |-> CheckinColumn(origin[id], filter)]
    BY <1>3, <2>1, <2>2, FieldRouting DEF Evaluate
  <2>4. QED
    BY <1>3, <2>1, <2>3 DEF Evaluate, RecordInv, TypeOK, FilterSeesCheckin,
                            NoAnswer
<1>4. CASE UNCHANGED vars
  BY <1>4 DEF vars, RecordInv, TypeOK, FilterSeesCheckin
<1>5. QED
  BY <1>1, <1>2, <1>3, <1>4 DEF Next

\* For every set of checkins and ids, evaluating a stored agent-field
\* filter on any agent gives the column of that name of the checkin the
\* agent was created from.
THEOREM FilterCorrect == Spec => []FilterSeesCheckin
<1>1. Spec => []RecordInv
  BY RecordInvInit, RecordInvStep, PTL DEF Spec
<1>2. QED
  BY <1>1, PTL DEF RecordInv

\* Every agent row is keyed by an id CUID2 returned and comes from a
\* checkin, the filter column only holds a label to_sql writes, and an
\* evaluation is always about an agent of the table.
THEOREM RecordTypeCorrect == Spec => []TypeOK
<1>1. RecordInv => TypeOK
  BY DEF RecordInv
<1>2. QED
  BY RecordInvInit, RecordInvStep, <1>1, PTL DEF Spec

=============================================================================

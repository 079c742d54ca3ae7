------------------------------ MODULE DbEnums ------------------------------
(***************************************************************************)
(* The Postgres enum types of the database module                          *)
(* (src/modules/srv-mod-database/src/schema_extension.rs): AgentFields,    *)
(* LogicalOperator and FilterOperator, each with a ToSql that writes the   *)
(* variant's label and a FromSql that matches the label back.  The two     *)
(* directions are separate match tables in the code and are kept separate  *)
(* here; a row of an agent filter (a field, a logical operator and a       *)
(* filter operator) is written and read back column by column.            *)
(***************************************************************************)
EXTENDS Naturals, TLAPS

AgentFields ==
    {"OperativeSystem", "Hostname", "Domain", "Username", "Ip", "ProcessId",
     "ParentProcessId", "ProcessName", "Elevated", "ServerSecretKey",
     "SecretKey", "Signature"}

LogicalOperator == {"And", "Or"}

FilterOperator ==
    {"Equals", "NotEquals", "Contains", "NotContains", "StartsWith",
     "EndsWith"}

\* Lines 26-44: AgentFields::to_sql.
AgentFieldsToSql ==
    [OperativeSystem |-> "operative_system", Hostname |-> "hostname",
     Domain |-> "domain", Username |-> "username", Ip |-> "ip",
     ProcessId |-> "process_id", ParentProcessId |-> "parent_process_id",
     ProcessName |-> "process_name", Elevated |-> "elevated",
     ServerSecretKey |-> "server_secret_key", SecretKey |-> "secret_key",
     Signature |-> "signature"]

\* Lines 46-64: the labels AgentFields::from_sql recognises.
AgentFieldsFromSqlTable ==
    [operative_system |-> "OperativeSystem", hostname |-> "Hostname",
     domain |-> "Domain", username |-> "Username", ip |-> "Ip",
     process_id |-> "ProcessId", parent_process_id |-> "ParentProcessId",
     process_name |-> "ProcessName", elevated |-> "Elevated",
     server_secret_key |-> "ServerSecretKey", secret_key |-> "SecretKey",
     signature |-> "Signature"]

\* Mutant: LogicalOperator::to_sql writing the SQL keywords.
LogicalOperatorToSqlUpper == [And |-> "AND", Or |-> "OR"]

\* Lines 74-82: LogicalOperator::to_sql.
LogicalOperatorToSql == [And |-> "and", Or |-> "or"]

\* Lines 84-92: the labels LogicalOperator::from_sql recognises.
LogicalOperatorFromSqlTable == [and |-> "And", or |-> "Or"]

\* Lines 106-118: FilterOperator::to_sql.
FilterOperatorToSql ==
    [Equals |-> "equals", NotEquals |-> "not_equals",
     Contains |-> "contains", NotContains |-> "not_contains",
     StartsWith |-> "starts_with", EndsWith |-> "ends_with"]

\* Mutant: two labels of FilterOperator::from_sql swapped.
FilterOperatorFromSqlTableSwapped ==
    [equals |-> "Equals", not_equals |-> "NotContains",
     contains |-> "Contains", not_contains |-> "NotEquals",
     starts_with |-> "StartsWith", ends_with |-> "EndsWith"]

\* Lines 120-132: the labels FilterOperator::from_sql recognises.
FilterOperatorFromSqlTable ==
    [equals |-> "Equals", not_equals |-> "NotEquals",
     contains |-> "Contains", not_contains |-> "NotContains",
     starts_with |-> "StartsWith", ends_with |-> "EndsWith"]

\* The error from_sql returns for any other label.
Unrecognized == "Unrecognized enum variant"

\* from_sql: the table's variant for a recognised label, else the error.
FromSql(table, bytes) ==
    IF bytes \in DOMAIN table THEN table[bytes] ELSE Unrecognized

-----------------------------------------------------------------------------
(* A filter row, written and read back column by column.                   *)

Columns == {"field", "logical", "operator"}

Variants == [field |-> AgentFields, logical |-> LogicalOperator,
             operator |-> FilterOperator]

ToSql == [field |-> AgentFieldsToSql, logical |-> LogicalOperatorToSql,
          operator |-> FilterOperatorToSql]

FromSqlTables == [field |-> AgentFieldsFromSqlTable,
                  logical |-> LogicalOperatorFromSqlTable,
                  operator |-> FilterOperatorFromSqlTable]

NoValue == "none"

VARIABLES
    written,    \* the variant last written to each column
    stored,     \* the bytes the column holds
    read        \* the value the last read of the column returned

vars == <<written, stored, read>>

Init ==
    /\ written = [c \in Columns |-> NoValue]
    /\ stored = [c \in Columns |-> NoValue]
    /\ read = [c \in Columns |-> NoValue]

\* An insert or update binds the variant with to_sql.
Write(c, v) ==
    /\ written' = [written EXCEPT ![c] = v]
    /\ stored' = [stored EXCEPT ![c] = ToSql[c][v]]
    /\ read' = [read EXCEPT ![c] = NoValue]

\* A query loads the column with from_sql.
Read(c) ==
    /\ stored[c] # NoValue
    /\ read' = [read EXCEPT ![c] = FromSql(FromSqlTables[c], stored[c])]
    /\ UNCHANGED <<written, stored>>

Next ==
    \E c \in Columns :
        \/ \E v \in Variants[c] : Write(c, v)
        \/ Read(c)

Spec == Init /\ [][Next]_vars

-----------------------------------------------------------------------------
(* Properties.                                                             *)

\* Each column holds a label its enum type knows (the labels from_sql
\* recognises; Postgres refuses any other on insert), and reads give a
\* variant of the column's enum or the error.
TypeOK ==
    /\ DOMAIN written = Columns /\ DOMAIN stored = Columns
    /\ DOMAIN read = Columns
    /\ \A c \in Columns :
         /\ written[c] \in Variants[c] \cup {NoValue}
         /\ stored[c] \in DOMAIN FromSqlTables[c] \cup {NoValue}
         /\ read[c] \in Variants[c] \cup {NoValue, Unrecognized}

\* Every value a filter row holds reads back as the variant that was
\* written: for every column, from_sql recognises the label to_sql wrote
\* and maps it to the same variant, never to the "Unrecognized enum
\* variant" error.
ReadBackWritten ==
    \A c \in Columns : read[c] # NoValue => read[c] = written[c]

-----------------------------------------------------------------------------
(* Proofs.                                                                 *)

\* For each of the three enums, from_sql maps the label to_sql writes for
\* a variant back to that variant: the two match tables of
\* schema_extension.rs agree.
LEMMA AgentFieldsRoundTrip ==
    \A v \in AgentFields :
        /\ AgentFieldsToSql[v] \in DOMAIN AgentFieldsFromSqlTable
        /\ AgentFieldsFromSqlTable[AgentFieldsToSql[v]] = v
BY DEF AgentFields, AgentFieldsToSql, AgentFieldsFromSqlTable

LEMMA LogicalOperatorRoundTrip ==
    \A v \in LogicalOperator :
        /\ LogicalOperatorToSql[v] \in DOMAIN LogicalOperatorFromSqlTable
        /\ LogicalOperatorFromSqlTable[LogicalOperatorToSql[v]] = v
BY DEF LogicalOperator, LogicalOperatorToSql, LogicalOperatorFromSqlTable

LEMMA FilterOperatorRoundTrip ==
    \A v \in FilterOperator :
        /\ FilterOperatorToSql[v] \in DOMAIN FilterOperatorFromSqlTable
        /\ FilterOperatorFromSqlTable[FilterOperatorToSql[v]] = v
BY DEF FilterOperator, FilterOperatorToSql, FilterOperatorFromSqlTable

\* The same for every column of the filter row, through FromSql.
LEMMA RoundTrip ==
    \A c \in Columns : \A v \in Variants[c] :
        /\ ToSql[c][v] \in DOMAIN FromSqlTables[c]
        /\ FromSql(FromSqlTables[c], ToSql[c][v]) = v
<1> SUFFICES ASSUME NEW c \in Columns, NEW v \in Variants[c]
             PROVE  /\ ToSql[c][v] \in DOMAIN FromSqlTables[c]
                    /\ FromSql(FromSqlTables[c], ToSql[c][v]) = v
  OBVIOUS
<1>1. CASE c = "field"
  BY <1>1, AgentFieldsRoundTrip DEF Variants, ToSql, FromSqlTables, FromSql
<1>2. CASE c = "logical"
  BY <1>2, LogicalOperatorRoundTrip
  DEF Variants, ToSql, FromSqlTables, FromSql
<1>3. CASE c = "operator"
  BY <1>3, FilterOperatorRoundTrip DEF Variants, ToSql, FromSqlTables, FromSql
<1>4. QED
  BY <1>1, <1>2, <1>3 DEF Columns

\* The invariant behind ReadBackWritten: a written column holds the label
\* of the variant last written, an unwritten one holds nothing, and a
\* read returns the variant last written.
DbInv ==
    /\ TypeOK
    /\ \A c \in Columns :
         /\ (written[c] = NoValue) <=> (stored[c] = NoValue)
         /\ written[c] # NoValue => stored[c] = ToSql[c][written[c]]
         /\ read[c] # NoValue => read[c] = written[c]

LEMMA NoValueNotVariant ==
    \A c \in Columns : NoValue \notin Variants[c] /\ Unrecognized \notin Variants[c]
<1> SUFFICES ASSUME NEW c \in Columns
             PROVE  NoValue \notin Variants[c] /\ Unrecognized \notin Variants[c]
  OBVIOUS
<1>1. CASE c = "field"
  BY <1>1 DEF Variants, NoValue, Unrecognized, AgentFields
<1>2. CASE c = "logical"
  BY <1>2 DEF Variants, NoValue, Unrecognized, LogicalOperator
<1>3. CASE c = "operator"
  BY <1>3 DEF Variants, NoValue, Unrecognized, FilterOperator
<1>4. QED
  BY <1>1, <1>2, <1>3 DEF Columns

LEMMA LabelsNotNoValue ==
    \A c \in Columns : NoValue \notin DOMAIN FromSqlTables[c]
BY DEF Columns, NoValue, FromSqlTables, AgentFieldsFromSqlTable,
       LogicalOperatorFromSqlTable, FilterOperatorFromSqlTable

LEMMA DbInvInit == Init => DbInv
BY NoValueNotVariant DEF Init, DbInv, TypeOK

LEMMA DbInvStep == DbInv /\ [Next]_vars => DbInv'
<1> SUFFICES ASSUME DbInv, [Next]_vars PROVE DbInv'
  OBVIOUS
<1>1. ASSUME NEW c \in Columns, NEW v \in Variants[c], Write(c, v)
      PROVE  DbInv'
  <2>1. ToSql[c][v] \in DOMAIN FromSqlTables[c] /\ ToSql[c][v] # NoValue
    BY RoundTrip, LabelsNotNoValue
  <2>2. v # NoValue
    BY NoValueNotVariant
  <2>3. QED
    BY <1>1, <2>1, <2>2 DEF DbInv, TypeOK, Write
<1>2. ASSUME NEW c \in Columns, Read(c) PROVE DbInv'
  <2>1. written[c] \in Variants[c] /\ stored[c] = ToSql[c][written[c]]
    BY <1>2, NoValueNotVariant DEF DbInv, TypeOK, Read
  <2>2. FromSql(FromSqlTables[c], stored[c]) = written[c]
    BY <2>1, RoundTrip
  <2>3. read'[c] = written[c]
    BY <1>2, <2>2 DEF DbInv, TypeOK, Read
  <2>4. QED
    BY <1>2, <2>1, <2>3 DEF DbInv, TypeOK, Read
<1>3. CASE UNCHANGED vars
  BY <1>3 DEF DbInv, TypeOK, vars
<1>4. QED
  BY <1>1, <1>2, <1>3 DEF Next

\* Every filter row written through to_sql reads back through from_sql as
\* the variants written, in every reachable state.
THEOREM ReadBackCorrect == Spec => []ReadBackWritten
<1>1. DbInv => ReadBackWritten
  BY DEF DbInv, ReadBackWritten
<1>2. QED
  BY DbInvInit, DbInvStep, <1>1, PTL DEF Spec


\* Every filter column only ever holds the SQL label of one of its enum's
\* variants, and from_sql only ever answers a variant or the
\* unrecognised-label error, for every write and read order.
THEOREM DbTypeCorrect == Spec => []TypeOK
<1>1. DbInv => TypeOK
  BY DEF DbInv
<1>2. QED
  BY DbInvInit, DbInvStep, <1>1, PTL DEF Spec

=============================================================================

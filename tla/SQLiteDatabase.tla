--------------------------- MODULE SQLiteDatabase ---------------------------
(***************************************************************************)
(* SQLiteDatabase (src/src/Utils/Storage/SQLiteDatabase.cpp) on one file   *)
(* that outlives the process: Initialize with the creation and the         *)
(* migration of the schema, and the operations of IDatabase.               *)
(*                                                                         *)
(* file is what is committed, work what the connection sees inside a       *)
(* transaction. Every statement of a transaction is a step of its own; it  *)
(* may fail (the Transaction object then rolls back) and the process may   *)
(* die between any two of them. Another connection to the same file is the *)
(* subject of module Server.                                               *)
(***************************************************************************)
EXTENDS ItemRules, FiniteSets, Functions

CONSTANTS
    Items,       \* the items that callers pass
    Found,       \* the files that may exist when the program is first started
    Texts,       \* ids and names that the rules are asked about
    Addresses,   \* and addresses
    MaxCalls,    \* calls made in a behaviour
    MaxFaults    \* failing statements and deaths of the process

(***************************************************************************)
(* A file has a user_version, tables (views and triggers are tables of     *)
(* some other name here) and possibly an index that nobody expects. A      *)
(* table has the CREATE statement that made it and rows, no two with one   *)
(* device id, which is UNIQUE in every schema that is operated on; the     *)
(* integer key only orders them. A row is what the columns hold, whatever  *)
(* its type.                                                               *)
(***************************************************************************)
ItemRecords ==
    [id : Seq(Nat), name : Seq(Nat), address : Seq(STRING), port : Nat, alive : BOOLEAN]

Rows ==
    [id : Seq(Nat), name : Seq(Nat), address : Seq(STRING), text : BOOLEAN,
     integer : BOOLEAN, port : Int, alive : Int]

DeviceColumns == {"v1", "v1 quoted", "unversioned", "unchecked"}
LegacyKeyValueColumns == {"legacy"}
CreateStatements == DeviceColumns \cup LegacyKeyValueColumns \cup {"other"}

IsFile(f) ==
    /\ f \in [version : Int, tables : {f.tables}, otherIndex : BOOLEAN]
    /\ f.tables \in [DOMAIN f.tables -> [sql : CreateStatements, rows : SUBSET Rows]]

ASSUME TypesAssumption ==
    /\ Items \subseteq ItemRecords
    /\ \A f \in Found : IsFile(f)

ASSUME InputsAssumption == Texts \subseteq Seq(Nat) /\ Addresses \subseteq Seq(STRING)

VARIABLES
    file,         \* the committed content
    work,         \* the content inside the open transaction, or file
    step,         \* what the thread in SQLiteDatabase does next
    call,         \* the call that has not returned
    todo,         \* the items that the transaction has yet to insert
    initialized,  \* initialized_
    result,       \* how the last call ended
    original,     \* the file as it was found
    calls, faults \* the bounds

vars == <<file, work, step, call, todo, initialized, result, original, calls, faults>>

(* Operations on them. *)
NoRows(sql) == [sql |-> sql, rows |-> {}]
WithTables(f, tables) == [f EXCEPT !.tables = tables]
WithRows(f, name, rows) == [f EXCEPT !.tables[name].rows = rows]

(* ALTER TABLE ... RENAME puts quotes around the name in the statement. *)
NormalizeSql(sql) == IF sql = "v1 quoted" THEN "v1" ELSE sql

ReadUserObjects(f) == DOMAIN f.tables
TableExists(f, name) == name \in DOMAIN f.tables

BindItem(item) ==
    [id |-> item.id, name |-> item.name, address |-> item.address, text |-> TRUE,
     integer |-> TRUE, port |-> item.port, alive |-> IF item.alive THEN 1 ELSE 0]

MaxPort == 65535   \* of std::uint16_t

ItemOf(row) ==
    [id |-> row.id, name |-> row.name, address |-> row.address,
     port |-> row.port % (MaxPort + 1), alive |-> row.alive = 1]

PortNarrowed(row) ==
    /\ row.text /\ row.integer
    /\ row.alive \in {0, 1}
    /\ ValidateItem(ItemOf(row))

(* Whether DecodeDatabaseItem returns ItemOf(row) instead of throwing. *)
DecodeDatabaseItem(row) ==
    /\ row.text /\ row.integer
    /\ row.port \in 0..MaxPort
    /\ row.alive \in {0, 1}
    /\ ValidateItem(ItemOf(row))

(* The constraints of CreateV1ItemsSql. *)
Accepts(table, row) ==
    /\ row.text /\ row.integer
    /\ Len(row.id) \in 1..MaxIdBytes /\ Len(row.name) \in 1..MaxNameBytes
    /\ SizeOf(row.address) \in 1..MaxAddressBytes
    /\ row.port \in 0..MaxPort /\ row.alive \in {0, 1}
    /\ \A r \in table.rows : r.id # row.id

InsertItem(f, name, item) ==
    WithRows(f, name, f.tables[name].rows \cup {BindItem(item)})

---------------------------------------------------------------------------
(* Schema validation *)

AnyObjects(f) == "items" \in ReadUserObjects(f)

ValidateOnlyItemsObject(f) == ReadUserObjects(f) = {"items"}

ValidateUniqueDeviceId(f) == ~f.otherIndex

ValidateDeviceColumns(f) ==
    f.tables["items"].sql \in DeviceColumns /\ ValidateUniqueDeviceId(f)

ValidateExactCreateSql(f, expected) == NormalizeSql(f.tables["items"].sql) = expected

ValidateV1Schema(f) ==
    /\ ValidateOnlyItemsObject(f)
    /\ ValidateDeviceColumns(f)
    /\ ValidateExactCreateSql(f, "v1")

Migratable(f) ==
    /\ ValidateOnlyItemsObject(f)
    /\ ValidateDeviceColumns(f)
    /\ ValidateExactCreateSql(f, "unversioned")

IsLegacy(f) ==
    /\ f.tables["items"].sql \in LegacyKeyValueColumns
    /\ NormalizeSql(f.tables["items"].sql) = "legacy"

---------------------------------------------------------------------------

NoCall == [op |-> "none", items |-> <<>>, id |-> <<>>]

Returned(r) ==
    /\ step' = "idle"
    /\ call' = NoCall
    /\ todo' = {}
    /\ result' = r

(* An exception unwinds the Transaction, which rolls back. *)
Throw == Returned([kind |-> "threw"]) /\ work' = file

Done == Returned([kind |-> "done"])

Init ==
    /\ file \in Found
    /\ work = file
    /\ original = file
    /\ step = "closed"
    /\ call = NoCall
    /\ todo = {}
    /\ initialized = FALSE
    /\ result = [kind |-> "none"]
    /\ calls = 0 /\ faults = 0

(* The constructor. *)
Open ==
    /\ step = "closed"
    /\ step' = "idle"
    /\ UNCHANGED <<file, work, call, todo, initialized, result, original, calls, faults>>

Mutations ==
    {[op |-> o, items |-> <<item>>, id |-> <<>>] :
         o \in {"AddItem", "UpsertItem"}, item \in Items}
    \cup {[op |-> "ReplaceAll", items |-> s, id |-> <<>>] :
              s \in {<<>>} \cup {<<i, j>> : i \in Items, j \in Items}}
    \cup {[op |-> "RemoveItem", items |-> <<>>, id |-> item.id] : item \in Items}
    \cup {[op |-> "Clear", items |-> <<>>, id |-> <<>>]}

Queries ==
    {[op |-> o, items |-> <<>>, id |-> item.id] :
         o \in {"GetItem", "ContainsItem"}, item \in Items}
    \cup {[op |-> o, items |-> <<>>, id |-> <<>>] : o \in {"GetAllItems", "CountItems"}}

(* EnsureInitialized comes first in every operation but Initialize. *)
Call(c) ==
    /\ step = "idle"
    /\ calls < MaxCalls
    /\ calls' = calls + 1
    /\ IF c.op = "Initialize" \/ initialized
       THEN step' = c.op /\ call' = c /\ UNCHANGED result
       ELSE result' = [kind |-> "threw"] /\ UNCHANGED <<step, call>>
    /\ UNCHANGED <<file, work, todo, initialized, original, faults>>

(* Initialize up to the beginning of a transaction. *)
Initialize ==
    /\ step = "Initialize"
    /\ \/ /\ file.version = 1
          /\ initialized' = ValidateV1Schema(file)
          /\ IF ValidateV1Schema(file) THEN Done /\ work' = file ELSE Throw
       \/ /\ file.version \notin {0, 1}
          /\ initialized' = FALSE
          /\ Throw
       \/ /\ file.version = 0 /\ ~TableExists(file, "items")
          /\ initialized' = FALSE
          /\ IF ReadUserObjects(file) # {}
             THEN Throw
             ELSE step' = "create" /\ UNCHANGED <<work, call, todo, result>>
       \/ /\ file.version = 0 /\ TableExists(file, "items")
          /\ initialized' = FALSE
          /\ IF IsLegacy(file) \/ ~Migratable(file)
             THEN Throw
             ELSE step' = "decode" /\ UNCHANGED <<work, call, todo, result>>
    /\ UNCHANGED <<file, original, calls, faults>>

Autocommit(content) == content

(* The file while a transaction is open, whatever its statements have done. *)
InTransaction(content) == file

(* One statement of a transaction, after which the thread is at step next. *)
Statement(next, content) ==
    /\ step' = next
    /\ work' = content
    /\ file' = InTransaction(content)
    /\ UNCHANGED <<call, result, initialized, original, calls, faults>>

CreateV1 ==
    /\ step = "create"
    /\ Statement("version",
           WithTables(work, [n \in {"items"} |-> NoRows("v1")]))
    /\ UNCHANGED todo

(* MigrateUnversionedDeviceSchema reads every row before it makes a table. *)
Decode ==
    LET rows == file.tables["items"].rows
    IN /\ step = "decode"
       /\ IF \A row \in rows : DecodeDatabaseItem(row)
          THEN /\ todo' = {ItemOf(row) : row \in rows}
               /\ step' = "createNew"
               /\ UNCHANGED <<work, call, result>>
          ELSE Throw
       /\ UNCHANGED <<file, initialized, original, calls, faults>>

CreateItemsV1 ==
    /\ step = "createNew"
    /\ Statement("insertNew",
           WithTables(work, [n \in {"items", "items_v1"} |->
               IF n = "items" THEN work.tables[n] ELSE NoRows("v1")]))
    /\ UNCHANGED todo

InsertMigrated(item) ==
    /\ step = "insertNew"
    /\ Accepts(work.tables["items_v1"], BindItem(item))
    /\ Statement("insertNew", InsertItem(work, "items_v1", item))
    /\ todo' = todo \ {item}

(* The row counts agree after the last insertion, so the test passes. *)
DropItems ==
    /\ step = "insertNew" /\ todo = {}
    /\ Cardinality(work.tables["items_v1"].rows) = Cardinality(work.tables["items"].rows)
    /\ Statement("rename",
           WithTables(work, [n \in {"items_v1"} |-> work.tables[n]]))
    /\ UNCHANGED todo

RenameItemsV1 ==
    /\ step = "rename"
    /\ Statement("version",
           WithTables(work, [n \in {"items"} |->
               [work.tables["items_v1"] EXCEPT !.sql = "v1 quoted"]]))
    /\ UNCHANGED todo

SetUserVersion ==
    /\ step = "version"
    /\ Statement("validate", [work EXCEPT !.version = 1])
    /\ UNCHANGED todo

(* What the statements have made is valid. If it were not, this would      *)
(* throw and roll back as StatementFails does.                             *)
CommitSchema ==
    /\ step = "validate"
    /\ ValidateV1Schema(work)
    /\ file' = work
    /\ Done
    /\ initialized' = TRUE
    /\ UNCHANGED <<work, original, calls, faults>>

---------------------------------------------------------------------------
(* The operations *)

(* The statement of an operation that has no transaction commits itself. *)
Commit(content) ==
    /\ file' = content
    /\ work' = content
    /\ Done
    /\ UNCHANGED <<initialized, original, calls, faults>>

Refuse ==
    /\ Throw
    /\ UNCHANGED <<file, initialized, original, calls, faults>>

AddItem ==
    /\ step = "AddItem"
    /\ LET item == call.items[1]
       IN IF ValidateItem(item) /\ Accepts(file.tables["items"], BindItem(item))
          THEN Commit(InsertItem(file, "items", item))
          ELSE Refuse

(* A conflict on the id updates the other columns of that row. *)
UpsertItem ==
    /\ step = "UpsertItem"
    /\ LET item == call.items[1]
       IN IF ValidateItem(item)
          THEN Commit(WithRows(file, "items",
                   {row \in file.tables["items"].rows : row.id # item.id} \cup {BindItem(item)}))
          ELSE Refuse

RemoveItem ==
    /\ step = "RemoveItem"
    /\ Commit(WithRows(file, "items", {row \in file.tables["items"].rows : row.id # call.id}))

Clear ==
    /\ step = "Clear"
    /\ Commit(WithRows(file, "items", {}))

(* ReplaceAll validates the whole collection, then deletes and inserts. *)
ReplaceAll ==
    /\ step = "ReplaceAll"
    /\ IF ValidateItems(call.items)
       THEN /\ todo' = Range(call.items)
            /\ Statement("insert", WithRows(work, "items", {}))
       ELSE Refuse

ReplaceInsert(item) ==
    /\ step = "insert"
    /\ Accepts(work.tables["items"], BindItem(item))
    /\ Statement("insert", InsertItem(work, "items", item))
    /\ todo' = todo \ {item}

ReplaceCommit ==
    /\ step = "insert" /\ todo = {}
    /\ Commit(work)

(* Every query decodes the rows it selects; GetAllSortedById selects those *)
(* of GetAllItems in another order.                                        *)
Selected ==
    {r \in file.tables["items"].rows : step = "GetItem" => r.id = call.id}

Query ==
    /\ step \in {"GetItem", "GetAllItems"}
    /\ IF \A r \in Selected : DecodeDatabaseItem(r)
       THEN Returned([kind |-> "items", call |-> call, items |-> {ItemOf(r) : r \in Selected}])
       ELSE Returned([kind |-> "threw"])
    /\ UNCHANGED <<file, work, initialized, original, calls, faults>>

ContainsItem ==
    /\ step = "ContainsItem"
    /\ Returned([kind |-> "flag",
                 flag |-> \E r \in file.tables["items"].rows : r.id = call.id])
    /\ UNCHANGED <<file, work, initialized, original, calls, faults>>

CountItems ==
    /\ step = "CountItems"
    /\ Returned([kind |-> "count", count |-> Cardinality(file.tables["items"].rows)])
    /\ UNCHANGED <<file, work, initialized, original, calls, faults>>

---------------------------------------------------------------------------

(* SQLite reports an error: a full disk, a lock that is not released. *)
StatementFails ==
    /\ step \notin {"closed", "idle"}
    /\ faults < MaxFaults
    /\ faults' = faults + 1
    /\ initialized' = (initialized /\ call.op # "Initialize")
    /\ Throw
    /\ UNCHANGED <<file, original, calls>>

(* The process ends; the next one rolls the journal back. *)
Crash ==
    /\ step # "closed"
    /\ faults < MaxFaults
    /\ faults' = faults + 1
    /\ step' = "closed"
    /\ work' = file
    /\ call' = NoCall
    /\ todo' = {}
    /\ initialized' = FALSE
    /\ result' = [kind |-> "none"]
    /\ UNCHANGED <<file, original, calls>>

Next ==
    \/ Open
    \/ \E c \in Mutations \cup Queries \cup {[NoCall EXCEPT !.op = "Initialize"]} : Call(c)
    \/ Initialize
    \/ CreateV1
    \/ Decode
    \/ CreateItemsV1
    \/ \E item \in todo : InsertMigrated(item)
    \/ DropItems
    \/ RenameItemsV1
    \/ SetUserVersion
    \/ CommitSchema
    \/ AddItem
    \/ UpsertItem
    \/ RemoveItem
    \/ Clear
    \/ ReplaceAll
    \/ \E item \in todo : ReplaceInsert(item)
    \/ ReplaceCommit
    \/ Query
    \/ ContainsItem
    \/ CountItems
    \/ StatementFails
    \/ Crash

Spec == Init /\ [][Next]_vars

---------------------------------------------------------------------------
(* Properties *)

RowsOf(f) == IF TableExists(f, "items") THEN f.tables["items"].rows ELSE {}

(* The files that Initialize may turn into, or recognise as, schema v1. *)
Supported(f) ==
    \/ f.version = 0 /\ DOMAIN f.tables = {}
    \/ /\ f.version = 1
       /\ DOMAIN f.tables = {"items"} /\ ~f.otherIndex
       /\ f.tables["items"].sql \in {"v1", "v1 quoted"}
    \/ /\ f.version = 0
       /\ DOMAIN f.tables = {"items"} /\ ~f.otherIndex
       /\ f.tables["items"].sql = "unversioned"
       /\ \A row \in RowsOf(f) : row.port \in 0..MaxPort /\ DecodeDatabaseItem(row)

(* A file that Initialize refuses is never changed and never operated on,  *)
(* however often it is tried, and a supported one is at any moment, also   *)
(* after a failing statement or a crash inside the migration, either as it *)
(* was found or a complete v1 database: Initialize and                     *)
(* MigrateUnversionedDeviceSchema.                                         *)
RefusedFilesKept ==
    /\ ~Supported(original) => file = original /\ ~initialized
    /\ \/ file = original
       \/ /\ file.version = 1
          /\ DOMAIN file.tables = {"items"} /\ ~file.otherIndex
          /\ file.tables["items"].sql \in {"v1", "v1 quoted"}
    /\ initialized => file.version = 1

(* A query throws or returns what is stored now, the items of exactly the  *)
(* rows it asks for: none is left out, no value is narrowed to fit its     *)
(* type on the way and no malformed text is handed out, whoever wrote it:  *)
(* GetItem, GetAllItems and DecodeDatabaseItem behind them.                *)
ReadsWhatIsStored ==
    result.kind = "items" =>
        /\ {BindItem(item) : item \in result.items} =
              {row \in RowsOf(file) : result.call.op = "GetItem" => row.id = result.call.id}
        /\ \A item \in result.items : WellFormed(item.id) /\ WellFormed(item.name)

(* The accepted rows by the reference definitions. *)
StorableRows ==
    {BindItem(i) : i \in {j \in Items :
        /\ Len(j.id) \in 1..MaxIdBytes /\ WellFormed(j.id)
        /\ Len(j.name) \in 1..MaxNameBytes /\ WellFormed(j.name)
        /\ IsValidIpv4(j.address) \/ Rfc4291(j.address) \/ IsValidHostname(j.address)}}

RowCall(c) ==
    [op |-> c.op, rows |-> {BindItem(i) : i \in Range(c.items)}, id |-> c.id]

Table == INSTANCE DeviceTable WITH
    table <- RowsOf(file),
    call <- RowCall(IF call \in Mutations THEN call ELSE NoCall),
    NoCall <- RowCall(NoCall),
    Calls <- {RowCall(c) : c \in Mutations},
    Storable <- StorableRows,
    Found <- {RowsOf(f) : f \in Found}

(* The database implements DeviceTable: the committed rows change only as  *)
(* the call in progress asks, all at once or not at all, with valid rows   *)
(* only, and neither the migration nor a failure or a crash inside a       *)
(* transaction is seen in them: AddItem, UpsertItem, ReplaceAll,           *)
(* RemoveItem, Clear and Initialize.                                       *)
ImplementsDeviceTable == Table!Spec

RulesMatch ==
    /\ \A text \in Texts : IsValidUtf8(text) <=> WellFormed(text)
    /\ \A a \in Addresses :
          /\ IsValidIpv6(a) <=> Rfc4291(a)
          /\ IsValidHostname(a) => /\ ~IsValidIpv4(a) /\ ~IsValidIpv6(a)
                                  /\ \E k \in DOMAIN a : a[k] \notin Decimal \cup {Dot}

(* An initialised database accepts the well-formed texts of Unicode, no    *)
(* overlong form, surrogate or truncated sequence; the IPv6 addresses of   *)
(* RFC 4291; and no host name that is, or only looks like, a numeric       *)
(* address: IsValidUtf8, IsValidIpv4, IsValidIpv6 and IsValidHostname.     *)
ItemRulesMatch == initialized => RulesMatch
=============================================================================

---------------------------- MODULE DeviceTable ----------------------------
(***************************************************************************)
(* What IDatabase promises (src/src/Utils/Storage/IDatabase.hpp): a table  *)
(* of devices with at most one row per id, which changes only as the call  *)
(* that was made asks, all at once or not at all. A call that is refused,  *)
(* fails or is cut off by the end of the process leaves the table alone.   *)
(***************************************************************************)
CONSTANTS
    Storable,   \* the rows that may be written
    Calls,      \* [op, rows, id]
    NoCall,
    Found       \* what the table may hold when it is first opened

VARIABLES table, call

Ids(rows) == {row.id : row \in rows}

Effect(c) ==
    CASE c.op = "AddItem" -> table \cup c.rows
      [] c.op = "UpsertItem" -> {row \in table : row.id \notin Ids(c.rows)} \cup c.rows
      [] c.op = "ReplaceAll" -> c.rows
      [] c.op = "RemoveItem" -> {row \in table : row.id # c.id}
      [] c.op = "Clear" -> {}

Init == table \in Found /\ call = NoCall

Ask ==
    /\ call = NoCall
    /\ call' \in Calls
    /\ UNCHANGED table

TakeEffect ==
    /\ call # NoCall
    /\ call.rows \subseteq Storable
    /\ call.op = "AddItem" => Ids(call.rows) \cap Ids(table) = {}
    /\ table' = Effect(call)
    /\ call' = NoCall

GiveUp == call # NoCall /\ call' = NoCall /\ UNCHANGED table

Next == Ask \/ TakeEffect \/ GiveUp

Spec == Init /\ [][Next]_<<table, call>>
=============================================================================

-------------------------- MODULE MCSQLiteDatabase --------------------------
EXTENDS SQLiteDatabase

V4 == <<"octet", Dot, "octet", Dot, "octet", Dot, "octet">>
Item(id, address, port) ==
    [id |-> id, name |-> <<65>>, address |-> address, port |-> port, alive |-> TRUE]

(* Two versions of one device, another one, one whose id is not UTF-8 and  *)
(* one without a valid address.                                            *)
MCItems ==
    {Item(<<65>>, V4, 0), Item(<<65>>, <<"name">>, 4464), Item(<<195, 169>>, V4, 1),
     Item(<<193, 129>>, V4, 0), Item(<<66>>, <<"overflow", Dot, "octet">>, 0)}

Row(id, port) == BindItem(Item(id, V4, port))
Unreadable == [Row(<<66>>, 0) EXCEPT !.alive = 2]

File(version, tables, otherIndex) ==
    [version |-> version, tables |-> tables, otherIndex |-> otherIndex]
Devices(sql, rows) == [n \in {"items"} |-> [sql |-> sql, rows |-> rows]]
AndOther(tables) ==
    [n \in DOMAIN tables \cup {"kv_store"} |-> IF n \in DOMAIN tables THEN tables[n] ELSE NoRows("other")]

TwoRows == {Row(<<195, 169>>, 1), Row(<<65>>, 0)}

MCFound ==
    {File(0, <<>>, FALSE), File(0, AndOther(<<>>), FALSE), File(2, <<>>, FALSE),
     File(1, Devices("v1", {Row(<<193, 129>>, 0)}), FALSE),
     File(1, Devices("v1 quoted", TwoRows), FALSE),
     File(1, Devices("v1", {Row(<<65>>, 70000), Row(<<195, 169>>, 1)}), FALSE),
     File(1, Devices("unchecked", TwoRows), FALSE),
     File(1, AndOther(Devices("v1", TwoRows)), FALSE),
     File(0, Devices("legacy", {}), FALSE),
     File(0, Devices("unversioned", TwoRows), FALSE),
     File(0, Devices("unversioned", TwoRows), TRUE),
     File(0, Devices("unversioned", {Row(<<65>>, 70000)}), FALSE),
     File(0, Devices("unversioned", TwoRows \cup {Unreadable}), FALSE),
     File(0, AndOther(Devices("unversioned", TwoRows)), FALSE),
     File(0, Devices("unchecked", TwoRows), FALSE)}

(* The inputs of the rules: texts of up to three of the bytes at which the *)
(* encoding changes its form, and four where it needs four; sequences of   *)
(* up to nine groups, empty ones and one IPv4 part included; dotted        *)
(* addresses of up to five labels.                                         *)
Bytes == {65, 127, 128, 143, 144, 159, 160, 191, 193, 194, 224, 237, 239, 240, 244, 245}
MCTexts ==
    UNION {[1..n -> Bytes] : n \in 0..3}
    \cup {<<a, b, c, 191>> : a \in {224, 239, 240, 244, 245}, b \in Bytes, c \in {65, 128, 194}}

Joined(parts, separator) ==
    LET text[k \in 1..Len(parts)] ==
            IF k = 1 THEN parts[1] ELSE text[k - 1] \o <<separator>> \o parts[k]
    IN text[Len(parts)]
Groups(n) == [1..n -> {<<>>, <<"hex">>}]
MCAddresses ==
    {Joined(p, Colon) : p \in UNION {Groups(n) \cup {[g EXCEPT ![v] = V4] : v \in 1..n, g \in Groups(n)} : n \in 1..9}}
    \cup {Joined(p, Dot) : p \in
            UNION {[1..n -> {<<>>, <<"octet">>, <<"overflow">>, <<"name">>, <<"hyphened">>}] : n \in 1..5}}
=============================================================================

---------------------------- MODULE MqttMessages ----------------------------
(***************************************************************************)
(* The request envelope that the console publishes and the server parses   *)
(* (src/src/Watchlist/Messaging/MqttMessages.cpp).                         *)
(*                                                                         *)
(* A text is a sequence of characters, which are told apart as far as      *)
(* EscapeJson, the JSON grammar and IsValidClientId do. A JSON object is a *)
(* function from field names to values, a value being a string with the    *)
(* text between its quotes or something else.                              *)
(***************************************************************************)
EXTENDS Naturals, Sequences, FiniteSets

CONSTANT MaxClientIdBytes   \* 128

(* word is any of the characters a client ID may have; space any other     *)
(* printable one; control a control character without an escape of its own. *)
Special == {"backslash", "quote", "newline", "return", "tab"}
Characters == {"word", "space", "control"} \cup Special

(* ToString and MessageTypeFromString, by the value of the enumeration.      *)
TypeNames ==
    <<"execute_script", "send_to_device", "cmd_to_device", "store_database_value", "query_AI_prompt">>
MessageTypes == 0..4
MessageTypeToString(type) == TypeNames[type + 1]
MessageTypeFromString(name) == {type \in MessageTypes : MessageTypeToString(type) = name}

Envelope == {"id", "type", "created_utc", "source_client_id"}
OptionalFields == {"script_name", "device_id", "payload", "command", "key", "value", "prompt"}

RequiredFields(type) ==
    CASE type = 0 -> {"script_name"}
      [] type = 1 -> {"device_id", "payload"}
      [] type = 2 -> {"device_id", "command"}
      [] type = 3 -> {"key", "value"}
      [] type = 4 -> {"prompt"}

IsValidClientId(text) ==
    /\ Len(text) \in 1..MaxClientIdBytes
    /\ \A k \in DOMAIN text : text[k] = "word"

---------------------------------------------------------------------------
(* JSON strings *)

QuoteOnly(character) == IF character = "quote" THEN <<"\\", character>> ELSE <<character>>

(* An escaped character is a backslash and the character it stands for. *)
EscapeCharacter(character) ==
    IF character \in Special THEN <<"\\", character>> ELSE <<character>>

EscapeJson(text) ==
    LET escaped[n \in 0..Len(text)] ==
            IF n = 0 THEN <<>> ELSE escaped[n - 1] \o EscapeCharacter(text[n])
    IN escaped[Len(text)]

(* External: what Json::parse reads between two quotes, from left to       *)
(* right; {} for a string with a bare quote, backslash or control          *)
(* character or an escape that does not exist, which is no JSON.           *)
NextCharacter(sofar, character) ==
    IF sofar.escape
    THEN [text |-> Append(sofar.text, character), escape |-> FALSE,
          valid |-> sofar.valid /\ character \in Special]
    ELSE IF character = "\\" THEN [sofar EXCEPT !.escape = TRUE]
    ELSE IF character \in Special \cup {"control"} THEN [sofar EXCEPT !.valid = FALSE]
    ELSE [sofar EXCEPT !.text = Append(@, character)]

JsonText(raw) ==
    LET read[n \in 0..Len(raw)] ==
            IF n = 0 THEN [text |-> <<>>, escape |-> FALSE, valid |-> TRUE]
            ELSE NextCharacter(read[n - 1], raw[n])
        all == read[Len(raw)]
    IN IF all.valid /\ ~all.escape THEN {all.text} ELSE {}

StringValue(raw) == [string |-> TRUE, raw |-> raw]

---------------------------------------------------------------------------
(* Requests: [id, type, created_utc, source_client_id, fields], where      *)
(* fields gives the optional ones that have a value.                       *)

SerializeRequest(request) ==
    [name \in Envelope \cup DOMAIN request.fields |->
        CASE name = "id" -> StringValue(EscapeJson(request.id))
          [] name = "type" -> StringValue(<<MessageTypeToString(request.type)>>)
          [] name = "created_utc" -> StringValue(EscapeJson(request.created_utc))
          [] name = "source_client_id" -> StringValue(EscapeJson(request.source_client_id))
          [] OTHER -> StringValue(EscapeJson(request.fields[name]))]

(* The characters of a type name have no escapes. *)
Readable(object) ==
    \A name \in DOMAIN object \ {"type"} :
        object[name].string => JsonText(object[name].raw) # {}

JsonStringValue(object, name) ==
    IF name \in DOMAIN object /\ object[name].string
    THEN CHOOSE text \in JsonText(object[name].raw) : TRUE
    ELSE <<>>

NonStringEnvelopeField(object) ==
    \E name \in DOMAIN object \cap (Envelope \cup OptionalFields) : ~object[name].string

Refused == [accepted |-> FALSE]

MissingRequiredField(request) ==
    \/ request.id = <<>>
    \/ request.created_utc = <<>>
    \/ ~IsValidClientId(request.source_client_id)
    \/ ~(RequiredFields(request.type) \subseteq DOMAIN request.fields)

ParseRequest(object) ==
    IF \/ ~Readable(object)
       \/ NonStringEnvelopeField(object)
       \/ "type" \notin DOMAIN object
       \/ MessageTypeFromString(object["type"].raw[1]) = {}
    THEN Refused
    ELSE LET request ==
                 [id |-> JsonStringValue(object, "id"),
                  type |-> CHOOSE t \in MessageTypeFromString(object["type"].raw[1]) : TRUE,
                  created_utc |-> JsonStringValue(object, "created_utc"),
                  source_client_id |-> JsonStringValue(object, "source_client_id"),
                  fields |-> [name \in DOMAIN object \cap OptionalFields |->
                                 JsonStringValue(object, name)]]
         IN IF MissingRequiredField(request)
            THEN Refused
            ELSE [accepted |-> TRUE, request |-> request]
=============================================================================

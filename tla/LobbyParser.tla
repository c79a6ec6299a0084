----------------------------- MODULE LobbyParser -----------------------------
(***************************************************************************)
(* parse_data (bzccnet.c): the parser of the lobby list. It reads a stream *)
(* byte by byte, through an HTTP header if there is one, and calls back    *)
(* with every key and value it finds in an object or array nested three    *)
(* (a game) or five (a player) levels deep.                                *)
(*                                                                         *)
(* A byte is known by its class, a buffer by its length. The bytes that    *)
(* arrive are arbitrary; where the stream is cut into buffers by recv or   *)
(* ReadFile makes no difference to the parser, which keeps its state from  *)
(* one to the next, so the stream is one of bytes.                         *)
(***************************************************************************)
EXTENDS Integers

CONSTANTS
    MAX_DEPTH,
    GENERIC_BUFLEN,   \* size of the buffers name and value
    KEY_SIZE, VALUE_SIZE,   \* sizes of pKvi->key_str (32) and pKvi->value_str (512)
    MaxLength,        \* bound: Content-Length in a header
    MaxSlots          \* bound: objects of one level that are closed

ASSUME SizesAssumption ==
    /\ MAX_DEPTH \in Nat /\ MAX_DEPTH >= 2
    /\ GENERIC_BUFLEN \in Nat /\ GENERIC_BUFLEN >= 2
    /\ KEY_SIZE \in Nat \ {0} /\ VALUE_SIZE \in Nat \ {0}
    /\ MaxLength \in Nat /\ MaxSlots \in Nat

VARIABLES
    state,          \* READING_HTTP_HEADER, _NAME, _VALUE or READING_JSON
    j_state,        \* what of the JSON text is expected
    depth,          \* objects and arrays that are open
    is_array,       \* per level: "array" or "object"; not initialised at first
    in_quote, in_escape,
    name_len, value_len,
    ends_in_cr,     \* is '\r' the last byte of the header buffer being filled?
    remaining,      \* content_length - json_len; 0 when the length is not known
    server_slot, player_slot,
    kvi,            \* *pKvi as of the last call of ProcessDataCallback, but for:
    copies,         \* key_str and value_str in the step that calls it, else NoCopies
    called,         \* did the last step call it?
    result          \* of parse_data: "stopped" and "error" are both return 1

json == <<j_state, depth, is_array, in_quote, in_escape, server_slot, player_slot>>
buffers == <<name_len, value_len, ends_in_cr>>
callback == <<kvi, copies, called>>
vars == <<state, json, buffers, remaining, callback, result>>

Bytes == {"{", "}", "[", "]", ",", ":", "quote", "backslash",
          "cr", "lf", "space",
          "rnt",      \* the letters of the escape sequences \r, \n and \t
          "word",     \* any other character is_word_char accepts
          "other"}

isspace(c) == c \in {"cr", "lf", "space"}
line_break(c) == c \in {"cr", "lf"}
is_word_char(c) == c \in {"rnt", "word"}

HeaderStates == {"READING_HTTP_HEADER", "READING_HTTP_HEADER_NAME",
                 "READING_HTTP_HEADER_VALUE"}
JsonStates == {"EXPECT_ROOT_START", "EXPECT_KEY_NAME", "EXPECT_KEY_SEP", "EXPECT_VALUE",
               "EXPECT_READ_VALUE", "EXPECT_NEXT", "EXPECT_ROOT_END"}
Levels == 0 .. MAX_DEPTH - 1

KeyValueInfo ==
    [status : {"none", "KVI_STATUS_NORMAL", "KVI_STATUS_LAST"}, is_player : BOOLEAN,
     server_index : Nat, player_index : Nat]

\* strncpy: as many bytes as the array holds, a terminator only if it has room.
strncpy(len, size) ==
    [copied |-> IF len < size THEN len ELSE size, terminated |-> len < size]

Copy == [copied : Nat, terminated : BOOLEAN]
NoCopies == [key_str |-> strncpy(0, KEY_SIZE), value_str |-> strncpy(0, VALUE_SIZE)]

TypeOK ==
    /\ state \in HeaderStates \cup {"READING_JSON"}
    /\ j_state \in JsonStates
    /\ depth \in Levels
    /\ is_array \in [Levels -> {"array", "object", "UNSET"}]
    /\ in_quote \in BOOLEAN /\ in_escape \in BOOLEAN
    /\ name_len \in Nat /\ value_len \in Nat
    /\ ends_in_cr \in BOOLEAN
    /\ remaining \in Nat
    /\ server_slot \in Nat /\ player_slot \in Nat
    /\ kvi \in KeyValueInfo
    /\ copies \in [key_str : Copy, value_str : Copy]
    /\ called \in BOOLEAN
    /\ result \in {"running", "complete", "error", "stopped"}

-----------------------------------------------------------------------------
(* Outcomes of a byte.                                                      *)

NoCall == called' = FALSE /\ copies' = NoCopies /\ UNCHANGED kvi

\* return 1: pKvi->err says why; the parser's variables are dead.
Fail == result' = "error" /\ NoCall /\ UNCHANGED <<json, buffers>>

Skip == NoCall /\ UNCHANGED <<json, buffers, result>>

\* A byte moves the parser to another state and nothing else.
Expect(j) ==
    /\ j_state' = j
    /\ NoCall
    /\ UNCHANGED <<depth, is_array, in_quote, in_escape, server_slot, player_slot, buffers,
                   result>>

\* ProcessDataCallback is called at the depths of games and of players, with
\* copies of name and value that are shorter than the buffers may be filled.
Deliver(status) ==
    IF depth \in {3, 5}
      THEN /\ called' = TRUE
           /\ kvi' = [status |-> status, is_player |-> depth = 5,
                      server_index |-> server_slot, player_index |-> player_slot]
           /\ copies' = [key_str |-> strncpy(name_len, KEY_SIZE),
                         value_str |-> strncpy(value_len, VALUE_SIZE)]
      ELSE NoCall

\* The callback asked to stop: return 1.
Stopped(status) ==
    /\ depth \in {3, 5}
    /\ Deliver(status)
    /\ result' = "stopped"
    /\ UNCHANGED <<json, buffers>>

\* Mutant: a byte is stored when there is no room for it and a terminator.
HasRoom_ForByteOnly(len) == len < GENERIC_BUFLEN

HasRoom(len) == len + 1 < GENERIC_BUFLEN

-----------------------------------------------------------------------------
(* EXPECT_NEXT.                                                             *)

InArray == is_array[depth - 1] = "array"

\* A ',' empties name, and value in an object; n is the length of name.
Comma(n) ==
    /\ j_state' = IF InArray THEN "EXPECT_VALUE" ELSE "EXPECT_KEY_NAME"
    /\ name_len' = 0
    /\ UNCHANGED <<depth, is_array, in_quote, in_escape, server_slot, player_slot, result>>

\* Mutant: the enclosing level is looked up, as it is when an object is closed.
CloseArray_Enclosing(n) ==
    /\ depth' = depth - 1
    /\ j_state' = IF depth - 1 <= 0 THEN "EXPECT_ROOT_END"
                  ELSE IF is_array[depth - 2] = "array" THEN "EXPECT_VALUE"
                  ELSE "EXPECT_KEY_NAME"
    /\ name_len' = n
    /\ UNCHANGED <<is_array, in_quote, in_escape, server_slot, player_slot, result>>

\* depth -= 1 comes first: is_array[depth] is the array that was closed.
CloseArray(n) ==
    /\ depth' = depth - 1
    /\ j_state' = IF depth - 1 <= 0 THEN "EXPECT_ROOT_END"
                  ELSE IF is_array[depth - 1] = "array" THEN "EXPECT_VALUE"
                  ELSE "EXPECT_KEY_NAME"
    /\ name_len' = n
    /\ UNCHANGED <<is_array, in_quote, in_escape, server_slot, player_slot, result>>

\* Mutant: the slot of a player is not advanced when its object is closed.
Slots_KeepsPlayer ==
    /\ server_slot' = IF depth = 3 THEN server_slot + 1 ELSE server_slot
    /\ player_slot' = IF depth = 3 THEN 0 ELSE player_slot

\* "unnamed objects found at this depth level are assumed to be server info"
Slots ==
    /\ server_slot' = IF depth = 3 THEN server_slot + 1 ELSE server_slot
    /\ player_slot' = CASE depth = 3 -> 0 [] depth = 5 -> player_slot + 1
                        [] OTHER -> player_slot

\* Mutant: the end of the root object is not noticed.
CloseObject_NoRoot(n) ==
    /\ depth = 3 => server_slot < MaxSlots
    /\ depth = 5 => player_slot < MaxSlots
    /\ Slots
    /\ depth' = depth - 1
    /\ j_state' = IF depth > 1 /\ is_array[depth - 2] = "array" THEN "EXPECT_VALUE"
                  ELSE "EXPECT_KEY_NAME"
    /\ name_len' = n
    /\ UNCHANGED <<is_array, in_quote, in_escape, result>>

CloseObject(n) ==
    /\ depth = 3 => server_slot < MaxSlots
    /\ depth = 5 => player_slot < MaxSlots
    /\ Slots
    /\ depth' = depth - 1
    /\ j_state' = IF depth - 1 <= 0 THEN "EXPECT_ROOT_END"
                  ELSE IF is_array[depth - 2] = "array" THEN "EXPECT_VALUE"
                  ELSE "EXPECT_KEY_NAME"
    /\ name_len' = n
    /\ UNCHANGED <<is_array, in_quote, in_escape, result>>

\* What EXPECT_NEXT does with a byte that is not white space; n is the length
\* of name by then. A byte that fits no case is an "Unexpected Symbol".
Advance(c, n) ==
    \/ c = "," /\ Comma(n)
    \/ c = "]" /\ InArray /\ CloseArray(n)
    \/ c = "}" /\ ~InArray /\ CloseObject(n)
    \/ /\ c # "," /\ ~(c = "]" /\ InArray) /\ ~(c = "}" /\ ~InArray)
       /\ result' = "error" /\ name_len' = n
       /\ UNCHANGED json

ExpectNext(c) ==
    IF isspace(c) THEN j_state' = "EXPECT_NEXT" /\ NoCall
                       /\ UNCHANGED <<depth, is_array, in_quote, in_escape, server_slot,
                                      player_slot, buffers, result>>
    ELSE Advance(c, name_len) /\ NoCall /\ UNCHANGED <<value_len, ends_in_cr>>

Next_(c) == j_state = "EXPECT_NEXT" /\ ExpectNext(c)

-----------------------------------------------------------------------------
(* The other states.                                                        *)

\* Mutant: the depth is tested with '>'.
Open_TooDeep(c) ==
    IF depth + 1 > MAX_DEPTH THEN Fail
    ELSE /\ j_state' = IF c = "[" THEN "EXPECT_VALUE" ELSE "EXPECT_KEY_NAME"
         /\ is_array' = [is_array EXCEPT ![depth] = IF c = "[" THEN "array" ELSE "object"]
         /\ depth' = depth + 1
         /\ name_len' = 0
         /\ NoCall
         /\ UNCHANGED <<in_quote, in_escape, server_slot, player_slot, value_len, ends_in_cr,
                        result>>

Open(c) ==
    IF depth + 1 >= MAX_DEPTH THEN Fail
    ELSE /\ j_state' = IF c = "[" THEN "EXPECT_VALUE" ELSE "EXPECT_KEY_NAME"
         /\ is_array' = [is_array EXCEPT ![depth] = IF c = "[" THEN "array" ELSE "object"]
         /\ depth' = depth + 1
         /\ name_len' = 0
         /\ NoCall
         /\ UNCHANGED <<in_quote, in_escape, server_slot, player_slot, value_len, ends_in_cr,
                        result>>

RootStart(c) ==
    /\ j_state = "EXPECT_ROOT_START"
    /\ \/ /\ c = "{"
          /\ j_state' = "EXPECT_KEY_NAME"
          /\ is_array' = [is_array EXCEPT ![depth] = "object"]
          /\ depth' = depth + 1
          /\ NoCall
          /\ UNCHANGED <<in_quote, in_escape, server_slot, player_slot, buffers, result>>
       \/ isspace(c) /\ Skip
       \/ c # "{" /\ ~isspace(c) /\ Fail

\* A byte of a quoted key. There are no escape sequences in keys.
KeyByte(c) ==
    \/ /\ c = "quote"
       /\ in_quote' = FALSE
       /\ j_state' = "EXPECT_KEY_SEP"
       /\ NoCall
       /\ UNCHANGED <<depth, is_array, in_escape, server_slot, player_slot, buffers, result>>
    \/ (line_break(c) \/ (c # "quote" /\ ~HasRoom(name_len))) /\ Fail
    \/ /\ c # "quote" /\ ~line_break(c) /\ HasRoom(name_len)
       /\ name_len' = name_len + 1
       /\ NoCall
       /\ UNCHANGED <<json, value_len, ends_in_cr, result>>

KeyName(c) ==
    /\ j_state = "EXPECT_KEY_NAME"
    /\ \/ in_quote /\ KeyByte(c)
       \/ /\ ~in_quote /\ c = "quote"
          /\ in_quote' = TRUE
          /\ NoCall
          /\ UNCHANGED <<j_state, depth, is_array, in_escape, server_slot, player_slot, buffers,
                         result>>
       \/ ~in_quote /\ isspace(c) /\ Skip
       \/ ~in_quote /\ c = "}" /\ ExpectNext(c)
       \/ ~in_quote /\ c \notin {"quote", "}"} /\ ~isspace(c) /\ Fail

KeySep(c) ==
    /\ j_state = "EXPECT_KEY_SEP"
    /\ \/ c = ":" /\ Expect("EXPECT_VALUE")
       \/ isspace(c) /\ Skip
       \/ c # ":" /\ ~isspace(c) /\ Fail

\* The first byte of a bare value is stored without a test for room.
Value(c) ==
    /\ j_state = "EXPECT_VALUE"
    /\ \/ /\ c = "quote"
          /\ in_quote' = TRUE
          /\ j_state' = "EXPECT_READ_VALUE"
          /\ NoCall
          /\ UNCHANGED <<depth, is_array, in_escape, server_slot, player_slot, buffers, result>>
       \/ /\ is_word_char(c)
          /\ value_len' = value_len + 1
          /\ j_state' = "EXPECT_READ_VALUE"
          /\ NoCall
          /\ UNCHANGED <<depth, is_array, in_quote, in_escape, server_slot, player_slot, name_len,
                         ends_in_cr, result>>
       \/ c \in {"[", "{"} /\ Open(c)
       \/ isspace(c) /\ Skip
       \/ c \in {",", "}", "]"} /\ ExpectNext(c)
       \/ c \in {":", "backslash", "other"} /\ Fail

\* A byte is appended to value. An escape sequence is one byte.
StoreValueByte ==
    IF HasRoom(value_len)
      THEN /\ value_len' = value_len + 1
           /\ in_escape' = FALSE
           /\ NoCall
           /\ UNCHANGED <<j_state, depth, is_array, in_quote, server_slot, player_slot, name_len,
                          ends_in_cr, result>>
      ELSE Fail

\* A quoted value: its closing quote, an escape, or one more byte.
StringByte(c) ==
    \/ ~in_escape /\ c = "quote" /\ Stopped("KVI_STATUS_NORMAL")
    \/ /\ ~in_escape /\ c = "quote"
       /\ Deliver("KVI_STATUS_NORMAL")
       /\ in_quote' = FALSE
       /\ name_len' = 0 /\ value_len' = 0
       /\ j_state' = "EXPECT_NEXT"
       /\ UNCHANGED <<depth, is_array, in_escape, server_slot, player_slot, ends_in_cr, result>>
    \/ ~in_escape /\ line_break(c) /\ Fail
    \/ /\ ~in_escape /\ c = "backslash"
       /\ in_escape' = TRUE
       /\ NoCall
       /\ UNCHANGED <<j_state, depth, is_array, in_quote, server_slot, player_slot, buffers,
                      result>>
    \/ ~in_escape /\ c \notin {"quote", "backslash", "cr", "lf"} /\ StoreValueByte
    \/ in_escape /\ c \in {"quote", "backslash", "rnt"} /\ StoreValueByte
    \/ in_escape /\ c \notin {"quote", "backslash", "rnt"} /\ Fail

\* Mutant: the last value of a game's array is announced as the last of a block.
EndStatus_AlsoArray(c) == IF c \in {"}", "]"} THEN "KVI_STATUS_LAST" ELSE "KVI_STATUS_NORMAL"

EndStatus(c) == IF c = "}" THEN "KVI_STATUS_LAST" ELSE "KVI_STATUS_NORMAL"

\* Mutant: the lengths are not reset when the value has been delivered.
BareEnds_KeepsValue(c) ==
    /\ Deliver(EndStatus(c))
    /\ Advance(c, 0)
    /\ UNCHANGED <<value_len, ends_in_cr>>

\* The byte that ends a bare value delivers it and is then treated by EXPECT_NEXT.
BareEnds(c) ==
    /\ Deliver(EndStatus(c))
    /\ Advance(c, 0)
    /\ value_len' = 0
    /\ UNCHANGED ends_in_cr

\* White space inside a bare value is dropped; the value goes on after it.
BareByte(c) ==
    \/ is_word_char(c) /\ StoreValueByte
    \/ isspace(c) /\ Skip
    \/ c \in {",", "}", "]"} /\ Stopped(EndStatus(c))
    \/ c \in {",", "}", "]"} /\ BareEnds(c)
    \/ c \notin {",", "}", "]"} /\ ~is_word_char(c) /\ ~isspace(c) /\ Fail

ReadValue(c) ==
    /\ j_state = "EXPECT_READ_VALUE"
    /\ \/ in_quote /\ StringByte(c)
       \/ ~in_quote /\ BareByte(c)

RootEnd(c) ==
    /\ j_state = "EXPECT_ROOT_END"
    /\ \/ isspace(c) /\ Skip
       \/ c = "}" /\ result' = "complete" /\ NoCall /\ UNCHANGED <<json, buffers>>
       \/ c # "}" /\ ~isspace(c) /\ Fail

Json(c) ==
    \/ RootStart(c) \/ KeyName(c) \/ KeySep(c) \/ Value(c)
    \/ ReadValue(c) \/ Next_(c) \/ RootEnd(c)

\* The byte that completes content_length ends the parse and is not looked at.
JsonByte(c) ==
    /\ state = "READING_JSON"
    /\ \/ /\ remaining = 1
          /\ result' = "complete" /\ remaining' = 0 /\ NoCall
          /\ UNCHANGED <<json, buffers>>
       \/ /\ remaining # 1
          /\ remaining' = IF remaining = 0 THEN 0 ELSE remaining - 1
          /\ Json(c)
    /\ UNCHANGED state

-----------------------------------------------------------------------------
(* The HTTP header. json does not change in it.                             *)

FillName(c) ==
    IF HasRoom(name_len)
      THEN /\ name_len' = name_len + 1
           /\ ends_in_cr' = (c = "cr")
           /\ UNCHANGED <<state, value_len, result>>
      ELSE result' = "error" /\ UNCHANGED <<state, buffers>>

EnterState(s) == state' = s /\ name_len' = 0 /\ ends_in_cr' = FALSE

\* The status line: its text decides whether it ends in "200 OK".
StatusLine(c) ==
    /\ state = "READING_HTTP_HEADER"
    /\ IF name_len > 0 /\ c = "lf" /\ ends_in_cr
         THEN \/ EnterState("READING_HTTP_HEADER_NAME") /\ UNCHANGED <<value_len, result>>
              \/ result' = "error" /\ UNCHANGED <<state, buffers>>
         ELSE FillName(c)
    /\ UNCHANGED remaining

HeaderName(c) ==
    /\ state = "READING_HTTP_HEADER_NAME"
    /\ \/ c = "cr" /\ FillName(c)
       \/ /\ c = "lf" /\ name_len > 0 /\ ends_in_cr
          /\ EnterState("READING_JSON") /\ UNCHANGED <<value_len, result>>
       \/ c \in {"lf", "space"} /\ name_len = 0 /\ UNCHANGED <<state, buffers, result>>
       \/ /\ c = ":"
          /\ state' = "READING_HTTP_HEADER_VALUE" /\ ends_in_cr' = FALSE
          /\ UNCHANGED <<name_len, value_len, result>>
       \/ /\ c \notin {"cr", ":"} /\ ~(c \in {"lf", "space"} /\ name_len = 0)
          /\ ~(c = "lf" /\ ends_in_cr)
          /\ FillName(c)
    /\ UNCHANGED remaining

\* The line that ends may be the one that gives Content-Length. White space at
\* the start of a value is skipped, the end of an empty line included.
HeaderValue(c) ==
    /\ state = "READING_HTTP_HEADER_VALUE"
    /\ \/ /\ c = "lf" /\ value_len > 0 /\ ends_in_cr
          /\ EnterState("READING_HTTP_HEADER_NAME") /\ value_len' = 0
          /\ remaining' \in {remaining} \cup 0 .. MaxLength
          /\ UNCHANGED result
       \/ /\ isspace(c) /\ value_len = 0
          /\ UNCHANGED <<state, buffers, remaining, result>>
       \/ /\ ~(c = "lf" /\ ends_in_cr) /\ ~(isspace(c) /\ value_len = 0)
          /\ IF HasRoom(value_len)
               THEN /\ value_len' = value_len + 1 /\ ends_in_cr' = (c = "cr")
                    /\ UNCHANGED <<state, name_len, result>>
               ELSE result' = "error" /\ UNCHANGED <<state, buffers>>
          /\ UNCHANGED remaining

HeaderByte(c) ==
    /\ StatusLine(c) \/ HeaderName(c) \/ HeaderValue(c)
    /\ NoCall
    /\ UNCHANGED json

-----------------------------------------------------------------------------
(* The loop of parse_data.                                                  *)

Byte(c) == result = "running" /\ (JsonByte(c) \/ HeaderByte(c))

\* bri->received is 0: "Graceful end of stream".
EndOfStream ==
    /\ result = "running"
    /\ result' = "complete" /\ NoCall
    /\ UNCHANGED <<state, json, buffers, remaining>>

\* TCP_to_BRI or Read_to_BRI fails.
ReadError ==
    /\ result = "running"
    /\ Fail
    /\ UNCHANGED <<state, remaining>>

Returned == result # "running" /\ UNCHANGED vars

\* The parser before its first byte of JSON text.
JsonStart ==
    /\ j_state = "EXPECT_ROOT_START"
    /\ depth = 0
    /\ is_array = [l \in Levels |-> "UNSET"]
    /\ in_quote = FALSE /\ in_escape = FALSE
    /\ name_len = 0 /\ value_len = 0 /\ ends_in_cr = FALSE
    /\ server_slot = 0 /\ player_slot = 0
    /\ kvi = [status |-> "none", is_player |-> FALSE, server_index |-> 0, player_index |-> 0]
    /\ called = FALSE /\ copies = NoCopies
    /\ result = "running"

Init ==
    /\ state \in {"READING_HTTP_HEADER", "READING_JSON"}   \* using_http
    /\ remaining = 0
    /\ JsonStart

Next == (\E c \in Bytes : Byte(c)) \/ EndOfStream \/ ReadError \/ Returned

Spec == Init /\ [][Next]_vars

-----------------------------------------------------------------------------
(* Properties. The stream is arbitrary in all of them.                      *)

\* "Assuming depth >= 1": is_array is written and read within its bounds, and
\* what is read of it has been written, whatever the brackets in the stream.
NestingInBounds ==
    result = "running" =>
        /\ j_state \notin {"EXPECT_ROOT_START", "EXPECT_ROOT_END"} => depth >= 1
        /\ \A l \in 0 .. depth - 1 : is_array[l] # "UNSET"

\* name and value always have room for a terminator, though the first byte of a
\* bare value is stored without looking: there never is anything before it.
BuffersTerminated ==
    /\ name_len < GENERIC_BUFLEN
    /\ value_len < GENERIC_BUFLEN
    /\ (state = "READING_JSON" /\ j_state = "EXPECT_VALUE") => value_len = 0

Before(k, l) == \/ k.server_index < l.server_index
                \/ k.server_index = l.server_index /\ k.player_index < l.player_index

\* Data is delivered in the order of the list: never for a game or a player
\* whose object was closed, and none follows what was said to be the last of its
\* block (KVI_STATUS_LAST).
DeliveredInOrder ==
    [][called' => /\ ~Before(kvi', kvi)
                  /\ kvi.status = "KVI_STATUS_LAST" => Before(kvi, kvi')]_vars
=============================================================================

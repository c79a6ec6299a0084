-------------------------- MODULE LobbyParserProofs --------------------------
(***************************************************************************)
(* Proofs about LobbyParser, for every MAX_DEPTH and GENERIC_BUFLEN from 2 *)
(* up and for every stream of bytes. ParseInv is what the parser's own     *)
(* state keeps to; CallInv relates it to the last call of the callback.    *)
(***************************************************************************)
EXTENDS LobbyParser, TLAPS

ParserType ==
    /\ state \in HeaderStates \cup {"READING_JSON"}
    /\ j_state \in JsonStates
    /\ depth \in Levels
    /\ is_array \in [Levels -> {"array", "object", "UNSET"}]
    /\ in_quote \in BOOLEAN /\ in_escape \in BOOLEAN
    /\ name_len \in Nat /\ value_len \in Nat
    /\ ends_in_cr \in BOOLEAN
    /\ server_slot \in Nat /\ player_slot \in Nat
    /\ result \in {"running", "complete", "error", "stopped"}

\* value holds something only while a value is being read.
ValueHeld ==
    value_len > 0 => \/ state = "READING_HTTP_HEADER_VALUE"
                     \/ state = "READING_JSON" /\ j_state = "EXPECT_READ_VALUE"

\* The root object is opened after the header, at the outermost level.
RootFirst ==
    /\ state # "READING_JSON" => j_state = "EXPECT_ROOT_START"
    /\ j_state = "EXPECT_ROOT_START" => depth = 0

Lengths == name_len < GENERIC_BUFLEN /\ value_len < GENERIC_BUFLEN

ParseInv == ParserType /\ ValueHeld /\ RootFirst /\ Lengths /\ NestingInBounds

\* The parser is reading the JSON text, inside of the root object.
Inside ==
    /\ result = "running" /\ state = "READING_JSON"
    /\ j_state \notin {"EXPECT_ROOT_START", "EXPECT_ROOT_END"}

-----------------------------------------------------------------------------
(* What each outcome of a byte does to ParseInv.                            *)

LEMMA InitParse ==
    ASSUME JsonStart, state \in HeaderStates \cup {"READING_JSON"}
    PROVE  ParseInv
<1>1. 0 \in Levels  BY SizesAssumption DEF Levels
<1>2. in_quote \in BOOLEAN /\ in_escape \in BOOLEAN /\ ends_in_cr \in BOOLEAN
  BY Zenon DEF JsonStart
<1>3. ParserType  BY <1>1, <1>2 DEF ParserType, JsonStart, JsonStates
<1>4. ValueHeld /\ RootFirst /\ Lengths /\ NestingInBounds
  BY SizesAssumption DEF JsonStart, ValueHeld, RootFirst, Lengths, NestingInBounds
<1>. QED  BY <1>3, <1>4 DEF ParseInv

LEMMA FailKeeps ==
    ASSUME ParseInv, UNCHANGED <<state, json, buffers>>,
           result' \in {"running", "complete", "error", "stopped"},
           result' = "running" => result = "running"
    PROVE  ParseInv'
  BY DEF ParseInv, ParserType, ValueHeld, RootFirst, Lengths, NestingInBounds, Levels, json, buffers

LEMMA CommaKeeps ==
    ASSUME ParseInv, Inside, NEW n \in Nat, Comma(n),
           value_len' = 0, UNCHANGED <<state, ends_in_cr>>
    PROVE  ParseInv'
  BY SizesAssumption
     DEF ParseInv, ParserType, ValueHeld, RootFirst, Lengths, NestingInBounds, Inside, Comma,
         JsonStates

LEMMA CloseArrayKeeps ==
    ASSUME ParseInv, Inside, NEW n \in Nat, n < GENERIC_BUFLEN, CloseArray(n),
           value_len' = 0, UNCHANGED <<state, ends_in_cr>>
    PROVE  ParseInv'
<1>1. depth' \in Levels /\ depth' = depth - 1
  BY SizesAssumption DEF ParseInv, ParserType, NestingInBounds, Inside, CloseArray, Levels
<1>2. ParserType' /\ ValueHeld' /\ RootFirst' /\ Lengths'
  BY <1>1, SizesAssumption
     DEF ParseInv, ParserType, ValueHeld, RootFirst, Lengths, Inside, CloseArray, JsonStates, Levels
<1>3. NestingInBounds'
  BY <1>1 DEF ParseInv, ParserType, NestingInBounds, Inside, CloseArray, Levels
<1>. QED  BY <1>2, <1>3 DEF ParseInv

LEMMA CloseObjectKeeps ==
    ASSUME ParseInv, Inside, NEW n \in Nat, n < GENERIC_BUFLEN, CloseObject(n),
           value_len' = 0, UNCHANGED <<state, ends_in_cr>>
    PROVE  ParseInv'
<1>1. depth' \in Levels /\ depth' = depth - 1
  BY SizesAssumption DEF ParseInv, ParserType, NestingInBounds, Inside, CloseObject, Levels
<1>2. server_slot' \in Nat /\ player_slot' \in Nat
  BY DEF ParseInv, ParserType, CloseObject, Slots
<1>3. ParserType' /\ ValueHeld' /\ RootFirst' /\ Lengths'
  BY <1>1, <1>2, SizesAssumption
     DEF ParseInv, ParserType, ValueHeld, RootFirst, Lengths, Inside, CloseObject, JsonStates,
         Levels
<1>4. NestingInBounds'
  BY <1>1 DEF ParseInv, ParserType, NestingInBounds, Inside, CloseObject, Levels
<1>. QED  BY <1>3, <1>4 DEF ParseInv

LEMMA UnexpectedKeeps ==
    ASSUME ParseInv, Inside, NEW n \in Nat, n < GENERIC_BUFLEN,
           result' = "error", name_len' = n, value_len' = 0,
           UNCHANGED <<state, ends_in_cr, json>>
    PROVE  ParseInv'
<1>1. ParserType'  BY Zenon DEF ParseInv, ParserType, json
<1>2. ValueHeld' /\ RootFirst' /\ Lengths' /\ NestingInBounds'
  BY SizesAssumption
     DEF ParseInv, ParserType, ValueHeld, RootFirst, Lengths, NestingInBounds, json
<1>. QED  BY <1>1, <1>2 DEF ParseInv

LEMMA AdvanceKeeps ==
    ASSUME ParseInv, Inside, NEW c \in Bytes, NEW n \in Nat, n < GENERIC_BUFLEN, Advance(c, n),
           value_len' = 0, UNCHANGED <<state, ends_in_cr>>
    PROVE  ParseInv'
  BY CommaKeeps, CloseArrayKeeps, CloseObjectKeeps, UnexpectedKeeps DEF Advance

LEMMA ExpectNextKeeps ==
    ASSUME ParseInv, Inside, j_state # "EXPECT_READ_VALUE", NEW c \in Bytes, ExpectNext(c),
           UNCHANGED state
    PROVE  ParseInv'
<1>1. CASE isspace(c)
  BY <1>1 DEF ExpectNext, ParseInv, ParserType, ValueHeld, RootFirst, Lengths, NestingInBounds,
              Inside, Levels, JsonStates, buffers
<1>2. CASE ~isspace(c)
  <2>1. value_len = 0 /\ name_len \in Nat /\ name_len < GENERIC_BUFLEN
    BY DEF ParseInv, ParserType, ValueHeld, Lengths, Inside
  <2>2. Advance(c, name_len) /\ value_len' = 0 /\ UNCHANGED ends_in_cr
    BY <1>2, <2>1 DEF ExpectNext
  <2>. QED  BY <2>1, <2>2, AdvanceKeeps
<1>. QED  BY <1>1, <1>2

LEMMA OpenKeeps ==
    ASSUME ParseInv, result = "running", state = "READING_JSON",
           j_state \in {"EXPECT_ROOT_START", "EXPECT_VALUE"}, depth + 1 < MAX_DEPTH,
           NEW k \in {"array", "object"}, is_array' = [is_array EXCEPT ![depth] = k],
           j_state' \in {"EXPECT_KEY_NAME", "EXPECT_VALUE"}, depth' = depth + 1,
           name_len' \in {0, name_len}, value_len' = value_len,
           UNCHANGED <<state, ends_in_cr, in_quote, in_escape, server_slot, player_slot, result>>
    PROVE  ParseInv'
<1>1. depth \in Levels /\ depth' \in Levels /\ value_len = 0
  BY SizesAssumption DEF ParseInv, ParserType, ValueHeld, Levels
<1>2. is_array' \in [Levels -> {"array", "object", "UNSET"}]
  BY <1>1 DEF ParseInv, ParserType
<1>3. ParserType' /\ ValueHeld' /\ RootFirst' /\ Lengths'
  BY <1>1, <1>2, SizesAssumption
     DEF ParseInv, ParserType, ValueHeld, RootFirst, Lengths, JsonStates
<1>4. ASSUME NEW l \in 0 .. depth' - 1  PROVE is_array'[l] # "UNSET"
  <2>1. CASE l = depth
    BY <1>1, <2>1 DEF ParseInv, ParserType
  <2>2. CASE l # depth
    <3>1. l \in Levels /\ depth >= 1 /\ l \in 0 .. depth - 1
      BY <1>1, <2>2, SizesAssumption DEF Levels
    <3>2. j_state # "EXPECT_ROOT_START"
      BY <3>1 DEF ParseInv, RootFirst
    <3>3. is_array[l] # "UNSET"
      BY <3>1, <3>2 DEF ParseInv, NestingInBounds
    <3>. QED  BY <3>1, <3>3, <1>1, <2>2 DEF ParseInv, ParserType
  <2>. QED  BY <2>1, <2>2
<1>5. NestingInBounds'
  BY <1>1, <1>4 DEF NestingInBounds, Levels
<1>. QED  BY <1>3, <1>5 DEF ParseInv

\* A byte that moves on inside of the JSON text without touching the nesting.
LEMMA InsideKeeps ==
    ASSUME ParseInv, Inside,
           j_state' \in JsonStates \ {"EXPECT_ROOT_START", "EXPECT_ROOT_END"},
           in_quote' \in BOOLEAN, in_escape' \in BOOLEAN,
           name_len' \in Nat, name_len' < GENERIC_BUFLEN,
           value_len' \in Nat, value_len' < GENERIC_BUFLEN,
           value_len' > 0 => j_state' = "EXPECT_READ_VALUE",
           UNCHANGED <<state, depth, is_array, ends_in_cr, server_slot, player_slot, result>>
    PROVE  ParseInv'
<1>1. ParserType'
  BY Zenon DEF ParseInv, ParserType
<1>2. ValueHeld' /\ RootFirst' /\ Lengths' /\ NestingInBounds'
  BY DEF ParseInv, ParserType, ValueHeld, RootFirst, Lengths, NestingInBounds, Inside, JsonStates
<1>. QED  BY <1>1, <1>2 DEF ParseInv

LEMMA StoreKeeps ==
    ASSUME ParseInv, Inside, j_state = "EXPECT_READ_VALUE", StoreValueByte, UNCHANGED state
    PROVE  ParseInv'
<1>1. CASE HasRoom(value_len)
  <2>1. /\ value_len' = value_len + 1 /\ in_escape' = FALSE
        /\ UNCHANGED <<j_state, depth, is_array, in_quote, server_slot, player_slot, name_len,
                       ends_in_cr, result>>
    BY <1>1 DEF StoreValueByte
  <2>2. in_quote' \in BOOLEAN /\ in_escape' \in BOOLEAN
    BY <2>1, Zenon DEF ParseInv, ParserType
  <2>. QED
    BY <1>1, <2>1, <2>2, InsideKeeps, SizesAssumption
       DEF ParseInv, ParserType, Lengths, HasRoom, Inside, JsonStates
<1>2. CASE ~HasRoom(value_len)
  BY <1>2, FailKeeps DEF StoreValueByte, Fail
<1>. QED  BY <1>1, <1>2

-----------------------------------------------------------------------------
(* The states of the JSON text.                                             *)

LEMMA RootStartKeeps ==
    ASSUME ParseInv, result = "running", state = "READING_JSON", NEW c \in Bytes, RootStart(c),
           UNCHANGED state
    PROVE  ParseInv'
<1>1. CASE c = "{"
  <2>1. /\ depth = 0 /\ depth + 1 < MAX_DEPTH
        /\ is_array' = [is_array EXCEPT ![depth] = "object"]
        /\ j_state = "EXPECT_ROOT_START" /\ j_state' = "EXPECT_KEY_NAME"
        /\ depth' = depth + 1
        /\ UNCHANGED <<in_quote, in_escape, server_slot, player_slot, buffers, result>>
    <3>1. /\ j_state = "EXPECT_ROOT_START" /\ j_state' = "EXPECT_KEY_NAME"
          /\ is_array' = [is_array EXCEPT ![depth] = "object"]
          /\ depth' = depth + 1
          /\ UNCHANGED <<in_quote, in_escape, server_slot, player_slot, buffers, result>>
      BY <1>1, "{" \notin {"cr", "lf", "space"}, Zenon DEF RootStart, isspace
    <3>2. depth = 0 /\ depth + 1 < MAX_DEPTH
      BY <3>1, SizesAssumption DEF ParseInv, RootFirst
    <3>. QED  BY <3>1, <3>2, Zenon
  <2>2. UNCHANGED <<in_quote, in_escape, server_slot, player_slot, name_len, value_len,
                    ends_in_cr, result>>
    BY <2>1, Zenon DEF buffers
  <2>. QED  BY <2>1, <2>2, OpenKeeps
<1>2. CASE c # "{"
  BY <1>2, FailKeeps DEF RootStart, Skip, Fail
<1>. QED  BY <1>1, <1>2

LEMMA KeyNameKeeps ==
    ASSUME ParseInv, result = "running", state = "READING_JSON", NEW c \in Bytes, KeyName(c),
           UNCHANGED state
    PROVE  ParseInv'
<1>1. Inside /\ j_state = "EXPECT_KEY_NAME" /\ value_len = 0
  <2>1. j_state = "EXPECT_KEY_NAME"  BY Zenon DEF KeyName
  <2>. QED  BY <2>1 DEF Inside, ParseInv, ParserType, ValueHeld
<1>2. CASE in_quote /\ KeyByte(c)
  <2>1. CASE /\ c = "quote" /\ in_quote' = FALSE /\ j_state' = "EXPECT_KEY_SEP"
             /\ UNCHANGED <<depth, is_array, in_escape, server_slot, player_slot, buffers, result>>
    <3>1. in_quote' \in BOOLEAN /\ in_escape' \in BOOLEAN
      BY <2>1, Zenon DEF ParseInv, ParserType
    <3>. QED  BY <1>1, <2>1, <3>1, InsideKeeps DEF buffers, ParseInv, ParserType, Lengths, JsonStates
  <2>2. CASE Fail
    BY <2>2, FailKeeps DEF Fail
  <2>3. CASE /\ HasRoom(name_len) /\ name_len' = name_len + 1
             /\ UNCHANGED <<json, value_len, ends_in_cr, result>>
    <3>1. /\ in_quote' \in BOOLEAN /\ in_escape' \in BOOLEAN
          /\ UNCHANGED <<j_state, depth, is_array, server_slot, player_slot>>
      BY <2>3, Zenon DEF ParseInv, ParserType, json
    <3>. QED
      BY <1>1, <2>3, <3>1, InsideKeeps, SizesAssumption
         DEF HasRoom, ParseInv, ParserType, Lengths, JsonStates
  <2>. QED  BY <1>2, <2>1, <2>2, <2>3, Zenon DEF KeyByte
<1>3. CASE /\ in_quote' = TRUE
           /\ UNCHANGED <<j_state, depth, is_array, in_escape, server_slot, player_slot, buffers,
                          result>>
  <2>1. in_quote' \in BOOLEAN /\ in_escape' \in BOOLEAN
    BY <1>3, Zenon DEF ParseInv, ParserType
  <2>. QED  BY <1>1, <1>3, <2>1, InsideKeeps DEF buffers, ParseInv, ParserType, Lengths, JsonStates
<1>4. CASE Skip
  BY <1>4, FailKeeps DEF Skip, ParseInv, ParserType
<1>5. CASE ExpectNext(c)
  BY <1>1, <1>5, ExpectNextKeeps
<1>6. CASE Fail
  BY <1>6, FailKeeps DEF Fail
<1>. QED  BY <1>2, <1>3, <1>4, <1>5, <1>6, Zenon DEF KeyName

LEMMA KeySepKeeps ==
    ASSUME ParseInv, result = "running", state = "READING_JSON", NEW c \in Bytes, KeySep(c),
           UNCHANGED state
    PROVE  ParseInv'
<1>1. Inside /\ j_state = "EXPECT_KEY_SEP" /\ value_len = 0
  BY DEF KeySep, Inside, ParseInv, ParserType, ValueHeld
<1>2. CASE Expect("EXPECT_VALUE")
  <2>1. in_quote' \in BOOLEAN /\ in_escape' \in BOOLEAN
    BY <1>2, Zenon DEF Expect, ParseInv, ParserType
  <2>. QED
    BY <1>1, <1>2, <2>1, InsideKeeps DEF Expect, buffers, ParseInv, ParserType, Lengths, JsonStates
<1>3. CASE Skip
  BY <1>3, FailKeeps DEF Skip, ParseInv, ParserType
<1>4. CASE Fail
  BY <1>4, FailKeeps DEF Fail
<1>. QED  BY <1>2, <1>3, <1>4, Zenon DEF KeySep

LEMMA ValueKeeps ==
    ASSUME ParseInv, result = "running", state = "READING_JSON", NEW c \in Bytes, Value(c),
           UNCHANGED state
    PROVE  ParseInv'
<1>1. Inside /\ j_state = "EXPECT_VALUE" /\ value_len = 0
  <2>1. j_state = "EXPECT_VALUE"  BY Zenon DEF Value
  <2>. QED  BY <2>1 DEF Inside, ParseInv, ParserType, ValueHeld
<1>2. CASE /\ in_quote' = TRUE /\ j_state' = "EXPECT_READ_VALUE"
           /\ UNCHANGED <<depth, is_array, in_escape, server_slot, player_slot, buffers, result>>
  <2>1. in_quote' \in BOOLEAN /\ in_escape' \in BOOLEAN
    BY <1>2, Zenon DEF ParseInv, ParserType
  <2>. QED  BY <1>1, <1>2, <2>1, InsideKeeps DEF buffers, ParseInv, ParserType, Lengths, JsonStates
<1>3. CASE /\ value_len' = value_len + 1 /\ j_state' = "EXPECT_READ_VALUE"
           /\ UNCHANGED <<depth, is_array, in_quote, in_escape, server_slot, player_slot, name_len,
                          ends_in_cr, result>>
  <2>1. in_quote' \in BOOLEAN /\ in_escape' \in BOOLEAN
    BY <1>3, Zenon DEF ParseInv, ParserType
  <2>. QED
    BY <1>1, <1>3, <2>1, InsideKeeps, SizesAssumption DEF ParseInv, ParserType, Lengths, JsonStates
<1>4. CASE c \in {"[", "{"} /\ Open(c)
  <2>1. CASE depth + 1 >= MAX_DEPTH
    BY <1>4, <2>1, FailKeeps DEF Open, Fail
  <2>2. CASE ~(depth + 1 >= MAX_DEPTH)
    <3>1. depth + 1 < MAX_DEPTH
      BY <2>2, SizesAssumption DEF ParseInv, ParserType, Levels
    <3>2. PICK k \in {"array", "object"} : is_array' = [is_array EXCEPT ![depth] = k]
      BY <1>4, <2>2 DEF Open
    <3>3. /\ j_state' \in {"EXPECT_KEY_NAME", "EXPECT_VALUE"}
          /\ depth' = depth + 1 /\ name_len' = 0
          /\ UNCHANGED <<in_quote, in_escape, server_slot, player_slot, value_len, ends_in_cr,
                         result>>
      BY <1>4, <2>2, Zenon DEF Open
    <3>. QED  BY <1>1, <3>1, <3>2, <3>3, OpenKeeps
  <2>. QED  BY <2>1, <2>2
<1>5. CASE Skip
  BY <1>5, FailKeeps DEF Skip, ParseInv, ParserType
<1>6. CASE ExpectNext(c)
  BY <1>1, <1>6, ExpectNextKeeps
<1>7. CASE Fail
  BY <1>7, FailKeeps DEF Fail
<1>. QED  BY <1>2, <1>3, <1>4, <1>5, <1>6, <1>7, Zenon DEF Value

LEMMA ReadValueKeeps ==
    ASSUME ParseInv, result = "running", state = "READING_JSON", NEW c \in Bytes, ReadValue(c),
           UNCHANGED state
    PROVE  ParseInv'
<1>1. Inside /\ j_state = "EXPECT_READ_VALUE"
  BY DEF ReadValue, Inside
<1>2. ASSUME NEW s, Stopped(s)  PROVE ParseInv'
  BY <1>2, FailKeeps DEF Stopped
<1>3. CASE /\ in_quote' = FALSE /\ name_len' = 0 /\ value_len' = 0 /\ j_state' = "EXPECT_NEXT"
           /\ UNCHANGED <<depth, is_array, in_escape, server_slot, player_slot, ends_in_cr,
                          result>>
  <2>1. in_quote' \in BOOLEAN /\ in_escape' \in BOOLEAN
    BY <1>3, Zenon DEF ParseInv, ParserType
  <2>. QED  BY <1>1, <1>3, <2>1, InsideKeeps, SizesAssumption DEF JsonStates
<1>4. CASE /\ in_escape' = TRUE
           /\ UNCHANGED <<j_state, depth, is_array, in_quote, server_slot, player_slot, buffers,
                          result>>
  <2>1. in_quote' \in BOOLEAN /\ in_escape' \in BOOLEAN
    BY <1>4, Zenon DEF ParseInv, ParserType
  <2>. QED  BY <1>1, <1>4, <2>1, InsideKeeps DEF buffers, ParseInv, ParserType, Lengths, JsonStates
<1>5. CASE StoreValueByte
  BY <1>1, <1>5, StoreKeeps
<1>6. CASE Fail
  BY <1>6, FailKeeps DEF Fail
<1>7. CASE Skip
  BY <1>7, FailKeeps DEF Skip, ParseInv, ParserType
<1>8. CASE BareEnds(c)
  BY <1>1, <1>8, AdvanceKeeps, SizesAssumption DEF BareEnds
<1>9. CASE StringByte(c)
  BY <1>9, <1>2, <1>3, <1>4, <1>5, <1>6, Zenon DEF StringByte
<1>10. CASE BareByte(c)
  BY <1>10, <1>2, <1>5, <1>6, <1>7, <1>8, Zenon DEF BareByte
<1>. QED  BY <1>9, <1>10, Zenon DEF ReadValue

LEMMA JsonByteKeeps ==
    ASSUME ParseInv, result = "running", NEW c \in Bytes, JsonByte(c)
    PROVE  ParseInv'
<1>1. CASE result' = "complete" /\ UNCHANGED <<state, json, buffers>>
  BY <1>1, FailKeeps
<1>2. ASSUME Json(c), UNCHANGED state, state = "READING_JSON"  PROVE ParseInv'
  <2>1. CASE Next_(c)
    BY <1>2, <2>1, ExpectNextKeeps DEF Next_, Inside
  <2>2. CASE RootEnd(c)
    BY <1>2, <2>2, FailKeeps DEF RootEnd, Skip, Fail, ParseInv, ParserType
  <2>. QED
    BY <1>2, <2>1, <2>2, RootStartKeeps, KeyNameKeeps, KeySepKeeps, ValueKeeps, ReadValueKeeps,
       Zenon DEF Json
<1>. QED  BY <1>1, <1>2, Zenon DEF JsonByte

-----------------------------------------------------------------------------
(* The header.                                                              *)

\* A byte of the header leaves the JSON text alone.
LEMMA HeaderKeeps ==
    ASSUME ParseInv, result = "running", state # "READING_JSON",
           state' \in HeaderStates \cup {"READING_JSON"},
           name_len' \in Nat, name_len' < GENERIC_BUFLEN,
           value_len' \in Nat, value_len' < GENERIC_BUFLEN,
           value_len' > 0 => state' = "READING_HTTP_HEADER_VALUE",
           ends_in_cr' \in BOOLEAN,
           result' \in {"running", "error"}, UNCHANGED json
    PROVE  ParseInv'
<1>1. ParserType'
  BY Zenon DEF ParseInv, ParserType, json
<1>2. UNCHANGED <<j_state, depth, is_array>>
  BY Zenon DEF json
<1>3. ValueHeld' /\ RootFirst' /\ Lengths' /\ NestingInBounds'
  BY <1>2 DEF ParseInv, ValueHeld, RootFirst, Lengths, NestingInBounds
<1>. QED  BY <1>1, <1>3 DEF ParseInv

LEMMA FillKeeps ==
    ASSUME ParseInv, result = "running",
           state \in {"READING_HTTP_HEADER", "READING_HTTP_HEADER_NAME"},
           NEW c \in Bytes, FillName(c), UNCHANGED json
    PROVE  ParseInv'
<1>1. CASE HasRoom(name_len)
  <2>1. ends_in_cr' \in BOOLEAN  BY <1>1, Zenon DEF FillName
  <2>2. name_len' = name_len + 1 /\ UNCHANGED <<state, value_len, result>>
    BY <1>1, Zenon DEF FillName
  <2>. QED
    BY <1>1, <2>1, <2>2, HeaderKeeps, SizesAssumption
       DEF HasRoom, ParseInv, ParserType, ValueHeld, Lengths, HeaderStates
<1>2. CASE ~HasRoom(name_len)
  BY <1>2, FailKeeps DEF FillName
<1>. QED  BY <1>1, <1>2

LEMMA EnterKeeps ==
    ASSUME ParseInv, result = "running",
           state \in HeaderStates, NEW s \in {"READING_HTTP_HEADER_NAME", "READING_JSON"},
           EnterState(s), value_len' = 0, UNCHANGED <<json, result>>
    PROVE  ParseInv'
<1>1. ends_in_cr' \in BOOLEAN /\ state' = s /\ name_len' = 0
  BY Zenon DEF EnterState
<1>. QED  BY <1>1, HeaderKeeps, SizesAssumption DEF HeaderStates

LEMMA HeaderByteKeeps ==
    ASSUME ParseInv, result = "running", NEW c \in Bytes, HeaderByte(c)
    PROVE  ParseInv'
<1>0. UNCHANGED json  BY Zenon DEF HeaderByte
<1>1. ASSUME result' = "error", UNCHANGED <<state, buffers>>  PROVE ParseInv'
  BY <1>0, <1>1, FailKeeps
<1>2. ASSUME UNCHANGED <<state, buffers, result>>  PROVE ParseInv'
  BY <1>0, <1>2, FailKeeps DEF ParseInv, ParserType
<1>3. CASE StatusLine(c)
  <2>1. state = "READING_HTTP_HEADER"  BY <1>3, Zenon DEF StatusLine
  <2>2. value_len = 0  BY <2>1 DEF ParseInv, ParserType, ValueHeld
  <2>3. CASE FillName(c)
    BY <1>0, <2>1, <2>3, FillKeeps
  <2>4. CASE EnterState("READING_HTTP_HEADER_NAME") /\ UNCHANGED <<value_len, result>>
    BY <1>0, <2>1, <2>2, <2>4, EnterKeeps DEF HeaderStates
  <2>. QED  BY <1>1, <1>3, <2>3, <2>4, Zenon DEF StatusLine
<1>4. CASE HeaderName(c)
  <2>1. state = "READING_HTTP_HEADER_NAME"  BY <1>4, Zenon DEF HeaderName
  <2>2. value_len = 0  BY <2>1 DEF ParseInv, ParserType, ValueHeld
  <2>3. CASE FillName(c)
    BY <1>0, <2>1, <2>3, FillKeeps
  <2>4. CASE EnterState("READING_JSON") /\ UNCHANGED <<value_len, result>>
    BY <1>0, <2>1, <2>2, <2>4, EnterKeeps DEF HeaderStates
  <2>5. CASE /\ state' = "READING_HTTP_HEADER_VALUE" /\ ends_in_cr' = FALSE
             /\ UNCHANGED <<name_len, value_len, result>>
    <3>1. ends_in_cr' \in BOOLEAN  BY <2>5, Zenon
    <3>. QED
      BY <1>0, <2>1, <2>2, <2>5, <3>1, HeaderKeeps DEF HeaderStates, ParseInv, ParserType, Lengths
  <2>. QED  BY <1>2, <1>4, <2>3, <2>4, <2>5, Zenon DEF HeaderName
<1>5. CASE HeaderValue(c)
  <2>1. state = "READING_HTTP_HEADER_VALUE"  BY <1>5, Zenon DEF HeaderValue
  <2>2. CASE EnterState("READING_HTTP_HEADER_NAME") /\ value_len' = 0 /\ UNCHANGED result
    BY <1>0, <2>1, <2>2, EnterKeeps DEF HeaderStates
  <2>3. CASE /\ HasRoom(value_len)
             /\ value_len' = value_len + 1 /\ ends_in_cr' = (c = "cr")
             /\ UNCHANGED <<state, name_len, result>>
    <3>1. ends_in_cr' \in BOOLEAN  BY <2>3, Zenon
    <3>. QED
      BY <1>0, <2>1, <2>3, <3>1, HeaderKeeps, SizesAssumption
         DEF HasRoom, HeaderStates, ParseInv, ParserType, Lengths
  <2>4. CASE UNCHANGED <<state, buffers, remaining, result>>
    BY <1>2, <2>4
  <2>. QED  BY <1>1, <1>5, <2>2, <2>3, <2>4, Zenon DEF HeaderValue
<1>. QED  BY <1>3, <1>4, <1>5, Zenon DEF HeaderByte

-----------------------------------------------------------------------------
(* The parser's own invariant.                                              *)

LEMMA NextParse == ParseInv /\ [Next]_vars => ParseInv'
<1> SUFFICES ASSUME ParseInv, [Next]_vars  PROVE ParseInv'
  OBVIOUS
<1>1. ASSUME NEW c \in Bytes, Byte(c)  PROVE ParseInv'
  BY <1>1, JsonByteKeeps, HeaderByteKeeps DEF Byte
<1>2. CASE EndOfStream
  BY <1>2, FailKeeps DEF EndOfStream
<1>3. CASE ReadError
  BY <1>3, FailKeeps DEF ReadError, Fail
<1>4. CASE UNCHANGED vars
  BY <1>4, FailKeeps DEF vars, ParseInv, ParserType
<1>. QED  BY <1>1, <1>2, <1>3, <1>4, Zenon DEF Next, Returned

\* Whatever arrives, and however the brackets in it are nested, the parser
\* stays within its arrays and reads of is_array only what it has written.
THEOREM NestingIsInBounds == Spec => []NestingInBounds
<1>1. Init => ParseInv
  BY InitParse DEF Init, HeaderStates
<1>2. ParseInv => NestingInBounds
  BY DEF ParseInv
<1>. QED  BY <1>1, <1>2, NextParse, PTL DEF Spec

\* The buffers never fill up to their last byte, though one byte of a value is
\* stored unchecked.
THEOREM BuffersAreTerminated == Spec => []BuffersTerminated
<1>1. Init => ParseInv
  BY InitParse DEF Init, HeaderStates
<1>2. ParseInv => BuffersTerminated
  BY DEF ParseInv, ParserType, ValueHeld, Lengths, BuffersTerminated
<1>. QED  BY <1>1, <1>2, NextParse, PTL DEF Spec

-----------------------------------------------------------------------------
(* The calls of the callback. slots is the position of the next call.       *)

Statuses == {"KVI_STATUS_NORMAL", "KVI_STATUS_LAST"}
slots == [server_index |-> server_slot, player_index |-> player_slot]

CallInv ==
    /\ kvi \in KeyValueInfo
    /\ copies \in [key_str : Copy, value_str : Copy]
    /\ called \in BOOLEAN
    /\ ~Before(slots, kvi)
    /\ (result = "running" /\ kvi.status = "KVI_STATUS_LAST") => Before(kvi, slots)

SlotsAdvance ==
    \/ server_slot' = server_slot + 1 /\ player_slot' = 0
    \/ server_slot' = server_slot /\ player_slot' = player_slot + 1

SlotsMove == SlotsAdvance \/ UNCHANGED <<server_slot, player_slot>>

Delivered(status) ==
    /\ called' = TRUE
    /\ kvi' = [status |-> status, is_player |-> depth = 5,
               server_index |-> server_slot, player_index |-> player_slot]
    /\ copies' = [key_str |-> strncpy(name_len, KEY_SIZE),
                  value_str |-> strncpy(value_len, VALUE_SIZE)]

\* A step calls back or does not. After a call with KVI_STATUS_LAST the parser
\* returns or leaves the object.
Outcome ==
    /\ SlotsMove
    /\ \/ NoCall
       \/ \E status \in Statuses :
             /\ Delivered(status)
             /\ status = "KVI_STATUS_LAST" => (result' # "running" \/ SlotsAdvance)

LEMMA QuietOutcome ==
    ASSUME NoCall, UNCHANGED <<server_slot, player_slot>>
    PROVE  Outcome
  BY Zenon DEF Outcome, SlotsMove

LEMMA SilentOutcome ==
    ASSUME NoCall, UNCHANGED json
    PROVE  Outcome
  BY Zenon DEF Outcome, SlotsMove, json

LEMMA AdvanceMoves ==
    ASSUME NEW c, NEW n, Advance(c, n)
    PROVE  /\ SlotsMove
           /\ (c = "}" /\ depth \in {3, 5}) => (result' # "running" \/ SlotsAdvance)
<1>1. CASE c = "," /\ Comma(n)
  BY <1>1 DEF Comma, SlotsMove
<1>2. CASE c = "]" /\ InArray /\ CloseArray(n)
  BY <1>2 DEF CloseArray, SlotsMove
<1>3. CASE c = "}" /\ ~InArray /\ CloseObject(n)
  <2>1. Slots  BY <1>3, Zenon DEF CloseObject
  <2>2. CASE depth = 3
    BY <2>1, <2>2 DEF Slots, SlotsMove, SlotsAdvance
  <2>3. CASE depth = 5
    BY <2>1, <2>3 DEF Slots, SlotsMove, SlotsAdvance
  <2>4. CASE depth \notin {3, 5}
    BY <2>1, <2>4 DEF Slots, SlotsMove
  <2>. QED  BY <2>2, <2>3, <2>4
<1>4. CASE result' = "error" /\ UNCHANGED json
  <2>1. SlotsMove  BY <1>4, Zenon DEF SlotsMove, json
  <2>2. result' # "running"  BY <1>4
  <2>. QED  BY <2>1, <2>2
<1>. QED  BY <1>1, <1>2, <1>3, <1>4, Zenon DEF Advance

LEMMA ExpectNextOutcome == ASSUME NEW c, ExpectNext(c)  PROVE Outcome
<1>1. CASE isspace(c)
  BY <1>1, QuietOutcome, Zenon DEF ExpectNext
<1>2. CASE ~isspace(c)
  <2>1. Advance(c, name_len) /\ NoCall
    BY <1>2, Zenon DEF ExpectNext
  <2>. QED  BY <2>1, AdvanceMoves, Zenon DEF Outcome
<1>. QED  BY <1>1, <1>2

LEMMA DeliverOutcome ==
    ASSUME NEW status \in Statuses, Deliver(status)
    PROVE  NoCall \/ (Delivered(status) /\ depth \in {3, 5})
  BY Zenon DEF Deliver, Delivered

LEMMA ReadValueOutcome == ASSUME NEW c \in Bytes, ReadValue(c)  PROVE Outcome
<1>1. ASSUME NEW status \in Statuses, Stopped(status)  PROVE Outcome
  <2>1. result' # "running" /\ UNCHANGED <<server_slot, player_slot>>
    <3>1. result' = "stopped" /\ UNCHANGED json  BY <1>1, Zenon DEF Stopped
    <3>. QED  BY <3>1 DEF json
  <2>2. NoCall \/ Delivered(status)
    BY <1>1, DeliverOutcome, Zenon DEF Stopped
  <2>. QED  BY <2>1, <2>2, Zenon DEF Outcome, SlotsMove
<1>2. CASE Deliver("KVI_STATUS_NORMAL") /\ UNCHANGED <<server_slot, player_slot>>
  <2>1. "KVI_STATUS_NORMAL" \in Statuses /\ "KVI_STATUS_NORMAL" # "KVI_STATUS_LAST"
    BY DEF Statuses
  <2>2. NoCall \/ Delivered("KVI_STATUS_NORMAL")
    BY <1>2, <2>1, DeliverOutcome, Zenon
  <2>. QED  BY <1>2, <2>1, <2>2, Zenon DEF Outcome, SlotsMove
<1>3. CASE BareEnds(c)
  <2>1. EndStatus(c) \in Statuses /\ (EndStatus(c) = "KVI_STATUS_LAST" => c = "}")
    BY DEF EndStatus, Statuses
  <2>2. NoCall \/ (Delivered(EndStatus(c)) /\ depth \in {3, 5})
    BY <1>3, <2>1, DeliverOutcome, Zenon DEF BareEnds
  <2>3. /\ SlotsMove
        /\ (c = "}" /\ depth \in {3, 5}) => (result' # "running" \/ SlotsAdvance)
    BY <1>3, AdvanceMoves, Zenon DEF BareEnds
  <2>. QED  BY <2>1, <2>2, <2>3, Zenon DEF Outcome
<1>4. CASE StoreValueByte
  BY <1>4, QuietOutcome, SilentOutcome, Zenon DEF StoreValueByte, Fail
<1>5. CASE Skip \/ Fail
  BY <1>5, SilentOutcome, Zenon DEF Skip, Fail
<1>6. CASE StringByte(c)
  <2>1. "KVI_STATUS_NORMAL" \in Statuses  BY DEF Statuses
  <2>. QED  BY <1>6, <1>1, <1>2, <1>4, <1>5, <2>1, QuietOutcome, Zenon DEF StringByte
<1>7. CASE BareByte(c)
  <2>1. EndStatus(c) \in Statuses  BY DEF EndStatus, Statuses
  <2>. QED  BY <1>7, <1>1, <1>3, <1>4, <1>5, <2>1, Zenon DEF BareByte
<1>. QED  BY <1>6, <1>7, Zenon DEF ReadValue

LEMMA JsonOutcome == ASSUME NEW c \in Bytes, Json(c)  PROVE Outcome
<1>1. CASE Skip \/ Fail
  BY <1>1, SilentOutcome, Zenon DEF Skip, Fail
<1>2. CASE RootStart(c)
  BY <1>1, <1>2, QuietOutcome, Zenon DEF RootStart
<1>3. CASE KeyName(c)
  BY <1>1, <1>3, QuietOutcome, SilentOutcome, ExpectNextOutcome, Zenon DEF KeyName, KeyByte
<1>4. CASE KeySep(c)
  BY <1>1, <1>4, QuietOutcome, Zenon DEF KeySep, Expect
<1>5. CASE Value(c)
  <2>1. CASE Open(c)
    BY <1>1, <2>1, QuietOutcome, Zenon DEF Open
  <2>. QED  BY <1>1, <1>5, <2>1, QuietOutcome, ExpectNextOutcome, Zenon DEF Value
<1>6. CASE Next_(c)
  BY <1>6, ExpectNextOutcome, Zenon DEF Next_
<1>7. CASE RootEnd(c)
  BY <1>1, <1>7, SilentOutcome, Zenon DEF RootEnd
<1>. QED  BY <1>2, <1>3, <1>4, <1>5, <1>6, <1>7, ReadValueOutcome, Zenon DEF Json

LEMMA NextOutcome ==
    ASSUME [Next]_vars
    PROVE  (result = "running" /\ Outcome) \/ UNCHANGED vars
<1>1. ASSUME NEW c \in Bytes, Byte(c)  PROVE result = "running" /\ Outcome
  <2>1. CASE JsonByte(c)
    BY <1>1, <2>1, JsonOutcome, SilentOutcome, Zenon DEF JsonByte, Byte
  <2>2. CASE HeaderByte(c)
    BY <1>1, <2>2, SilentOutcome, Zenon DEF HeaderByte, Byte
  <2>. QED  BY <1>1, <2>1, <2>2, Zenon DEF Byte
<1>2. CASE EndOfStream
  BY <1>2, SilentOutcome, Zenon DEF EndOfStream
<1>3. CASE ReadError
  BY <1>3, SilentOutcome, Zenon DEF ReadError, Fail
<1>. QED  BY <1>1, <1>2, <1>3, Zenon DEF Next, Returned

LEMMA SlotsOrder ==
    ASSUME ParseInv, SlotsMove
    PROVE  /\ slots \in [server_index : Nat, player_index : Nat]
           /\ slots' \in [server_index : Nat, player_index : Nat]
           /\ ~Before(slots', slots)
           /\ SlotsAdvance => Before(slots, slots')
<1>1. server_slot \in Nat /\ player_slot \in Nat  BY DEF ParseInv, ParserType
<1>2. slots \in [server_index : Nat, player_index : Nat]
  BY <1>1 DEF slots
<1>3. CASE server_slot' = server_slot + 1 /\ player_slot' = 0
  BY <1>1, <1>2, <1>3 DEF slots, Before
<1>4. CASE server_slot' = server_slot /\ player_slot' = player_slot + 1
  BY <1>1, <1>2, <1>4 DEF slots, Before
<1>5. CASE UNCHANGED <<server_slot, player_slot>>
  <2>1. slots' = slots  BY <1>5 DEF slots
  <2>2. ~Before(slots, slots)  BY <1>1 DEF slots, Before
  <2>3. SlotsAdvance => FALSE  BY <1>1, <1>5 DEF SlotsAdvance
  <2>. QED  BY <1>2, <2>1, <2>2, <2>3
<1>. QED  BY <1>3, <1>4, <1>5 DEF SlotsMove, SlotsAdvance

LEMMA strncpyType ==
    ASSUME NEW len \in Nat, NEW size \in Nat
    PROVE  strncpy(len, size) \in Copy
<1>1. (IF len < size THEN len ELSE size) \in Nat /\ (len < size) \in BOOLEAN
  OBVIOUS
<1>. QED  BY <1>1 DEF strncpy, Copy

LEMMA NoCopiesType == NoCopies \in [key_str : Copy, value_str : Copy]
<1>1. strncpy(0, KEY_SIZE) \in Copy /\ strncpy(0, VALUE_SIZE) \in Copy
  BY SizesAssumption, strncpyType
<1>. QED  BY <1>1, Zenon DEF NoCopies

LEMMA DeliveredType ==
    ASSUME ParseInv, NEW status \in Statuses, Delivered(status)
    PROVE  /\ kvi' \in KeyValueInfo /\ called' \in BOOLEAN
           /\ copies' \in [key_str : Copy, value_str : Copy]
           /\ kvi'.status = status
           /\ kvi'.server_index = server_slot /\ kvi'.player_index = player_slot
<1>1. (depth = 5) \in BOOLEAN  OBVIOUS
<1>2. copies' \in [key_str : Copy, value_str : Copy]
  <2>1. strncpy(name_len, KEY_SIZE) \in Copy /\ strncpy(value_len, VALUE_SIZE) \in Copy
    BY SizesAssumption, strncpyType DEF ParseInv, ParserType
  <2>. QED  BY <2>1, Zenon DEF Delivered
<1>. QED
  BY <1>1, <1>2 DEF ParseInv, ParserType, Delivered, KeyValueInfo, Statuses

\* The order of positions, as it is used below.
LEMMA BeforeOrder ==
    ASSUME NEW a, NEW b, NEW c,
           a.server_index \in Nat, a.player_index \in Nat,
           b.server_index \in Nat, b.player_index \in Nat,
           c.server_index \in Nat, c.player_index \in Nat
    PROVE  /\ ~Before(b, a) /\ ~Before(c, b) => ~Before(c, a)
           /\ Before(a, b) /\ ~Before(c, b) => Before(a, c)
           /\ ~Before(b, a) /\ Before(b, c) => Before(a, c)
  BY DEF Before

LEMMA NextCall == ParseInv /\ CallInv /\ [Next]_vars => CallInv'
<1> SUFFICES ASSUME ParseInv, CallInv, [Next]_vars  PROVE CallInv'
  OBVIOUS
<1>1. CASE UNCHANGED vars
  <2>1. /\ kvi' = kvi /\ slots' = slots /\ result' = result /\ called' = called
        /\ copies' = copies
    BY <1>1 DEF vars, json, callback, slots
  <2>. QED  BY <2>1, Zenon DEF CallInv, Before
<1>2. CASE result = "running" /\ Outcome
  <2>1. /\ slots \in [server_index : Nat, player_index : Nat]
        /\ slots' \in [server_index : Nat, player_index : Nat]
        /\ ~Before(slots', slots)
        /\ SlotsAdvance => Before(slots, slots')
    BY <1>2, SlotsOrder DEF Outcome
  <2>2. kvi.server_index \in Nat /\ kvi.player_index \in Nat
    BY DEF CallInv, KeyValueInfo
  <2>3. CASE NoCall
    <3>1. kvi' = kvi /\ called' \in BOOLEAN  BY <2>3 DEF NoCall
    <3>5. copies' \in [key_str : Copy, value_str : Copy]
      BY <2>3, NoCopiesType, Zenon DEF NoCall
    <3>2. ~Before(slots', kvi')
      BY <2>1, <2>2, <3>1, BeforeOrder DEF CallInv
    <3>3. (result' = "running" /\ kvi'.status = "KVI_STATUS_LAST") => Before(kvi', slots')
      BY <1>2, <2>1, <2>2, <3>1, BeforeOrder DEF CallInv
    <3>4. kvi' \in KeyValueInfo  BY <3>1 DEF CallInv
    <3>. QED  BY <3>1, <3>2, <3>3, <3>4, <3>5, Zenon DEF CallInv
  <2>4. ASSUME NEW status \in Statuses, Delivered(status),
               status = "KVI_STATUS_LAST" => (result' # "running" \/ SlotsAdvance)
        PROVE  CallInv'
    <3>1. /\ kvi' \in KeyValueInfo /\ called' \in BOOLEAN /\ kvi'.status = status
          /\ copies' \in [key_str : Copy, value_str : Copy]
          /\ kvi'.server_index = server_slot /\ kvi'.player_index = player_slot
      BY <2>4, DeliveredType
    <3>2. /\ Before(slots', kvi') <=> Before(slots', slots)
          /\ Before(kvi', slots') <=> Before(slots, slots')
      BY <3>1, Zenon DEF Before, slots
    <3>. QED  BY <2>1, <2>4, <3>1, <3>2 DEF CallInv
  <2>. QED  BY <1>2, <2>3, <2>4, Zenon DEF Outcome
<1>. QED  BY <1>1, <1>2, NextOutcome

LEMMA InitCall == ASSUME JsonStart  PROVE CallInv
<1>1. /\ server_slot = 0 /\ player_slot = 0
      /\ kvi = [status |-> "none", is_player |-> FALSE, server_index |-> 0, player_index |-> 0]
      /\ called \in BOOLEAN /\ copies \in [key_str : Copy, value_str : Copy]
  BY NoCopiesType, Zenon DEF JsonStart
<1>2. kvi \in KeyValueInfo  BY <1>1 DEF KeyValueInfo
<1>3. ~Before(slots, kvi) /\ kvi.status # "KVI_STATUS_LAST"
  BY <1>1 DEF slots, Before
<1>. QED  BY <1>1, <1>2, <1>3, Zenon DEF CallInv

\* What a step hands over stands behind everything that was handed over before.
LEMMA CallsInOrder ==
    ParseInv /\ CallInv /\ [Next]_vars =>
        (called' => /\ ~Before(kvi', kvi)
                    /\ kvi.status = "KVI_STATUS_LAST" => Before(kvi, kvi')) \/ UNCHANGED vars
<1> SUFFICES ASSUME ParseInv, CallInv, result = "running", Outcome, called'
             PROVE  /\ ~Before(kvi', kvi)
                    /\ kvi.status = "KVI_STATUS_LAST" => Before(kvi, kvi')
  BY NextOutcome, Zenon
<1>1. PICK status \in Statuses : Delivered(status)
  BY Zenon DEF Outcome, NoCall
<1>2. kvi'.server_index = server_slot /\ kvi'.player_index = player_slot
  BY <1>1, DeliveredType
<1>3. /\ Before(kvi', kvi) <=> Before(slots, kvi)
      /\ Before(kvi, kvi') <=> Before(kvi, slots)
  BY <1>2 DEF Before, slots
<1>. QED  BY <1>3 DEF CallInv

\* Whatever arrives, what is handed to the callback is in the order of the list,
\* and nothing follows the last of a block.
THEOREM DeliveryIsInOrder == Spec => DeliveredInOrder
<1>1. Init => ParseInv /\ CallInv
  BY InitParse, InitCall DEF Init, HeaderStates
<1>2. ParseInv /\ CallInv /\ [Next]_vars =>
        [called' => /\ ~Before(kvi', kvi)
                    /\ kvi.status = "KVI_STATUS_LAST" => Before(kvi, kvi')]_vars
  BY CallsInOrder
<1>. QED  BY <1>1, <1>2, NextParse, NextCall, PTL DEF Spec, DeliveredInOrder

-----------------------------------------------------------------------------
RemainingInv == remaining \in Nat

LEMMA InitRemaining == Init => RemainingInv
  BY SizesAssumption DEF Init, RemainingInv

LEMMA NextRemaining == RemainingInv /\ [Next]_vars => RemainingInv'
<1> SUFFICES ASSUME remaining \in Nat, [Next]_vars
             PROVE  remaining' \in Nat
  BY DEF RemainingInv
<1>1. ASSUME NEW c \in Bytes, JsonByte(c)  PROVE remaining' \in Nat
  BY <1>1, SizesAssumption DEF JsonByte
<1>2. ASSUME NEW c \in Bytes, HeaderByte(c)  PROVE remaining' \in Nat
  <2>1. remaining' = remaining \/ remaining' \in {remaining} \cup 0 .. MaxLength
    BY <1>2, Zenon DEF HeaderByte, StatusLine, HeaderName, HeaderValue
  <2>. QED  BY <2>1
<1>3. UNCHANGED remaining => remaining' \in Nat
  OBVIOUS
<1>. QED  BY <1>1, <1>2, <1>3, Zenon DEF Next, Byte, EndOfStream, ReadError, Returned, vars

\* The parser's variables keep their types.
THEOREM ParserTypeCorrect == Spec => []TypeOK
<1>1. Init => ParseInv /\ CallInv /\ RemainingInv
  BY InitParse, InitCall, InitRemaining DEF Init, HeaderStates
<1>2. ParseInv /\ CallInv /\ RemainingInv => TypeOK
  BY Zenon DEF ParseInv, ParserType, CallInv, RemainingInv, TypeOK
<1>. QED  BY <1>1, <1>2, NextParse, NextCall, NextRemaining, PTL DEF Spec
=============================================================================

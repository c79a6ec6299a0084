---------------------------- MODULE LobbyDocument ----------------------------
(***************************************************************************)
(* parse_data reading a lobby list. The text is written byte by byte:      *)
(*                                                                         *)
(*   { "GET" : [ {game}, ... ] }     a game: scalars and lists of players  *)
(*                                   a player: scalars                     *)
(*                                                                         *)
(* with white space between any two tokens, keys and values of any length  *)
(* and any escape sequence in a quoted value, those that parse_data does   *)
(* not take included: the writing ends where parse_data fails. A key has   *)
(* no escape sequences (parse_data knows none in keys) and a bare value    *)
(* only characters of is_word_char, as numbers and literals have. Each     *)
(* byte is parsed as it is written. The writer stands for the lobby server *)
(* (external; the file lobbyServer is one list it made). It knows which    *)
(* key and value it has just completed, which is what the callback has to  *)
(* be given. A stream may also be arbitrary bytes that nobody wrote as a   *)
(* list (NoList).                                                          *)
(***************************************************************************)
EXTENDS LobbyParser

CONSTANT MaxListLength   \* bound: the Content-Length of a list

VARIABLE doc   \* where the writer is, and the lengths of the key and value it writes

docVars == <<doc, vars>>

Objects == {"root", "server", "player"}
Arrays == {"list", "players"}

\* The level inside a level, and outside of it.
Inner == [root |-> "list", list |-> "server", server |-> "players", players |-> "player"]
Outer == [root |-> "top", list |-> "root", server |-> "list", players |-> "server",
          player |-> "players"]

Goto(phase) == doc' = [doc EXCEPT !.phase = phase]
Enter(level) == doc' = [doc EXCEPT !.level = level, !.phase = "first"]

Element == doc.phase \in {"first", "comma"}
ValueDone == doc.phase \in {"after", "bare", "after_bare"}

WriteSpace(c) ==
    /\ isspace(c)
    /\ doc.phase \notin {"key", "string", "escape"}
    /\ Goto(IF doc.phase = "bare" THEN "after_bare" ELSE doc.phase)

WriteKey(c) ==
    \/ /\ doc.level \in Objects /\ Element /\ c = "quote"
       /\ doc' = [doc EXCEPT !.phase = "key", !.key_len = 0]
    \/ /\ doc.phase = "key" /\ c \notin {"quote", "backslash", "cr", "lf"}
       /\ doc' = [doc EXCEPT !.key_len = @ + 1]
    \/ doc.phase = "key" /\ c = "quote" /\ Goto("sep")
    \/ doc.phase = "sep" /\ c = ":" /\ Goto("value")

\* What follows a backslash: '"', '\', 'r', 'n', 't'; and '/', 'b', 'f', 'u'.
ShortEscapes == {"quote", "backslash", "rnt"}
OtherEscapes == {"word", "other"}

WriteValue(c) ==
    \/ /\ doc.phase = "value" /\ c = "quote"
       /\ doc' = [doc EXCEPT !.phase = "string", !.value_len = 0]
    \/ /\ doc.phase = "value" /\ is_word_char(c)
       /\ doc' = [doc EXCEPT !.phase = "bare", !.value_len = 1]
    \/ /\ doc.phase = "bare" /\ is_word_char(c)
       /\ doc' = [doc EXCEPT !.value_len = @ + 1]
    \/ /\ doc.phase = "string" /\ c \notin {"quote", "backslash", "cr", "lf"}
       /\ doc' = [doc EXCEPT !.value_len = @ + 1]
    \/ doc.phase = "string" /\ c = "backslash" /\ Goto("escape")
    \/ /\ doc.phase = "escape" /\ c \in ShortEscapes \cup OtherEscapes
       /\ doc' = [doc EXCEPT !.phase = "string", !.value_len = @ + 1]
    \/ doc.phase = "string" /\ c = "quote" /\ Goto("after")

WriteOpen(c) ==
    \/ doc.level = "top" /\ doc.phase = "first" /\ c = "{" /\ Enter("root")
    \/ doc.level \in Arrays /\ Element /\ c = "{" /\ Enter(Inner[doc.level])
    \/ doc.phase = "value" /\ doc.level # "player" /\ c = "[" /\ Enter(Inner[doc.level])

WriteNext(c) ==
    \/ doc.level # "top" /\ ValueDone /\ c = "," /\ Goto("comma")
    \/ /\ doc.level \in Arrays /\ (ValueDone \/ doc.phase = "first") /\ c = "]"
       /\ doc' = [doc EXCEPT !.level = Outer[doc.level], !.phase = "after"]
    \/ /\ doc.level \in Objects /\ (ValueDone \/ doc.phase = "first") /\ c = "}"
       /\ doc' = [doc EXCEPT
                    !.level = Outer[doc.level],
                    !.phase = "after",
                    !.servers = IF doc.level = "server" THEN @ + 1 ELSE @,
                    !.players = CASE doc.level = "server" -> 0
                                  [] doc.level = "player" -> @ + 1
                                  [] OTHER -> @]

Write(c) == WriteSpace(c) \/ WriteKey(c) \/ WriteValue(c) \/ WriteOpen(c) \/ WriteNext(c)

Written == doc.level = "top" /\ doc.phase = "after"

NoList ==
    [level |-> "none", phase |-> "none", key_len |-> 0, value_len |-> 0,
     servers |-> 0, players |-> 0]

\* A Content-Length is the length of the list: its last byte completes it.
WriteByte(c) ==
    /\ doc # NoList
    /\ Write(c)
    /\ remaining = 1 => Written'
    /\ Byte(c)

AnyByte ==
    /\ doc = NoList
    /\ \E c \in Bytes : Byte(c)
    /\ UNCHANGED doc

\* A file, or what follows the HTTP header, with or without a Content-Length.
Init_Document ==
    /\ state = "READING_JSON"
    /\ remaining \in 0 .. MaxListLength
    /\ JsonStart
    /\ doc = [level |-> "top", phase |-> "first", key_len |-> 0, value_len |-> 0,
              servers |-> 0, players |-> 0]

\* The stream may end when the list is written, and fail at any time.
Next_Document ==
    \/ \E c \in Bytes : WriteByte(c)
    \/ Written /\ EndOfStream /\ UNCHANGED doc
    \/ ReadError /\ UNCHANGED doc
    \/ Returned /\ UNCHANGED doc

DocumentSpec == Init_Document /\ [][Next_Document]_docVars

\* A stream that is a list, or arbitrary bytes with or without a header.
Init_Stream == Init_Document \/ (Init /\ doc = NoList)

Next_Stream ==
    \/ Next_Document
    \/ AnyByte
    \/ doc = NoList /\ EndOfStream /\ UNCHANGED doc

StreamSpec == Init_Stream /\ [][Next_Stream]_docVars

-----------------------------------------------------------------------------
(* Properties.                                                              *)

\* A byte has completed a scalar of a game or a player.
PairWritten ==
    /\ doc.level \in {"server", "player"}
    /\ \/ doc.phase = "string" /\ doc'.phase = "after"
       \/ doc.phase \in {"bare", "after_bare"} /\ doc'.phase \notin {"bare", "after_bare"}

\* len bytes were written and copied to an array of size bytes: all of them and
\* a terminator if they fit, else as many as the array holds and no terminator.
HandedOver(copy, len, size) ==
    \/ len < size /\ copy = [copied |-> len, terminated |-> TRUE]
    \/ len >= size /\ copy = [copied |-> size, terminated |-> FALSE]

\* Whatever the order of members, the nesting and the white space, parse_data
\* hands over every scalar of the list as it is completed, once, unmixed with
\* its neighbours, under the index of its game and its player: complete if the
\* key is shorter than key_str and the value than value_str; of a longer one,
\* its first KEY_SIZE or VALUE_SIZE bytes, which nothing terminates.
PairsDelivered ==
    [][doc # NoList =>
       /\ called' <=> PairWritten
       /\ PairWritten => /\ kvi'.is_player = (doc.level = "player")
                         /\ kvi'.server_index = doc.servers
                         /\ kvi'.player_index = doc.players
                         /\ HandedOver(copies'.key_str, doc.key_len, KEY_SIZE)
                         /\ HandedOver(copies'.value_str, doc.value_len, VALUE_SIZE)]_docVars

\* A byte of a list that parse_data does not take: a key or a value that leaves
\* no room for a terminator, or an escape sequence other than the short ones.
Overlong == doc'.key_len >= GENERIC_BUFLEN \/ doc'.value_len >= GENERIC_BUFLEN
UnknownEscape(c) == doc.phase = "escape" /\ c \in OtherEscapes

\* parse_data accepts every list, but for those two: it fails at such a byte of
\* a list and at no other.
ListAccepted ==
    [][\A c \in Bytes :
         WriteByte(c) => (result' = "error" <=> Overlong \/ UnknownEscape(c))]_docVars

\* "KVI_STATUS_LAST: New data received is the last key & value for the block"
\* (bzccnet.h): what a player's object delivers last, before it is closed, has
\* this status.
LastIsMarked ==
    [][(/\ doc'.players > doc.players
        /\ kvi'.is_player
        /\ kvi'.player_index = doc.players
        /\ kvi'.server_index = doc.servers)
         => kvi'.status = "KVI_STATUS_LAST"]_docVars
=============================================================================

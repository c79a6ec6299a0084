--------------------------- MODULE LobbyScanProofs ---------------------------
(***************************************************************************)
(* Whole scans, for every lobby list and every size of the table: the      *)
(* calls of parse_data are those SessionTable assumes, what the source     *)
(* acquires it releases, and a stopped scan does not end as complete.      *)
(***************************************************************************)
EXTENDS LobbyScan, SessionTableProofs

\* The thread is scanning while the source runs, which reports once.
PhaseInv ==
    /\ phase = "scanning" <=> pc # "returned"
    /\ pc # "returned" => status = "none"

\* What the source holds, by where it is.
HeldInv ==
    /\ pc \in {"ScanFile", "ScanHTTP", "getaddrinfo", "connect", "connected", "send",
               "parse_data", "returned"}
    /\ file => pc = "parse_data"
    /\ wsa <=> pc \in {"getaddrinfo", "connect", "connected", "send"} \/ (pc = "parse_data" /\ ~file)
    /\ addrinfo <=> pc \in {"connect", "connected"}
    /\ sockets = IF pc \in {"connected", "send"} \/ (pc = "parse_data" /\ ~file) THEN 1 ELSE 0

StopInv == phase \in {"idle", "failed"} /\ stopped => status = "KVI_STATUS_ERROR"

\* The last call is before where the writer is, or was made there and does not
\* end the block.
OrderInv ==
    phase = "scanning" /\ kvi # NULL =>
        \/ kvi.server_index < doc.servers
        \/ kvi.server_index = doc.servers /\ kvi.player_index < doc.players
        \/ /\ kvi.server_index = doc.servers /\ kvi.player_index = doc.players
           /\ kvi.status = "KVI_STATUS_NORMAL"

DocInv ==
    /\ doc \in [at : {"list", "game", "user", "name"}, servers : Nat, players : Nat,
                player : Accounts \cup {NULL}]
    /\ doc.at = "user" => doc.player \in Accounts
    /\ kvi # NULL => kvi \in KeyValueInfo

ScanInv == PhaseInv /\ HeldInv /\ StopInv /\ OrderInv /\ DocInv

USE ScanAssumption

-----------------------------------------------------------------------------
(* The source.                                                              *)

LEMMA SourceStep ==
  ASSUME PhaseInv, HeldInv, Source!Step
  PROVE  /\ HeldInv'
         /\ stopped' = stopped /\ pc # "returned"
         /\ status' = "none" => pc' # "returned"
         /\ status' # "none" => pc' = "returned"
         /\ status' \in {"none", "KVI_STATUS_COMPLETE", "KVI_STATUS_ERROR"}
         /\ pc' = "returned" /\ stopped => status' = "KVI_STATUS_ERROR"
  <1> USE DEF Source!held, Source!Report, Source!Fail
  <1>1. CASE Source!OpenFile
    BY <1>1 DEF Source!OpenFile, PhaseInv, HeldInv
  <1>2. CASE Source!Startup
    BY <1>2 DEF Source!Startup, PhaseInv, HeldInv
  <1>3. CASE Source!Resolve
    <2>1. CASE wsa' = FALSE /\ Source!Fail /\ UNCHANGED <<file, addrinfo, sockets>>
      BY <1>3, <2>1 DEF Source!Resolve, PhaseInv, HeldInv
    <2>2. CASE addrinfo' = TRUE /\ pc' = "connect" /\ UNCHANGED <<file, wsa, sockets, stopped, status>>
      BY <1>3, <2>2 DEF Source!Resolve, PhaseInv, HeldInv
    <2> QED BY <1>3, <2>1, <2>2 DEF Source!Resolve
  <1>4. CASE Source!NoSocket
    BY <1>4 DEF Source!NoSocket, PhaseInv, HeldInv
  <1>5. CASE Source!ConnectFails
    BY <1>5 DEF Source!ConnectFails, PhaseInv, HeldInv
  <1>6. CASE Source!Connects
    BY <1>6 DEF Source!Connects, PhaseInv, HeldInv
  <1>7. CASE Source!AddressesTried
    BY <1>7 DEF Source!AddressesTried, PhaseInv, HeldInv
  <1>8. CASE Source!Send
    BY <1>8 DEF Source!Send, PhaseInv, HeldInv
  <1>9. CASE Source!SendFails
    BY <1>9 DEF Source!SendFails, PhaseInv, HeldInv
  <1>10. CASE Source!ParseReturns
    BY <1>10 DEF Source!ParseReturns, PhaseInv, HeldInv
  <1> QED BY <1>1, <1>2, <1>3, <1>4, <1>5, <1>6, <1>7, <1>8, <1>9, <1>10 DEF Source!Step

-----------------------------------------------------------------------------
(* The calls of the writer.                                                 *)

\* A call is of the right kind, and made for the object the writer is in.
CallFits(k) ==
    /\ k \in KeyValueInfo /\ WellFormed(k)
    /\ k.server_index = doc.servers /\ k.player_index = doc.players

LEMMA CallInOrder ==
  ASSUME ScanInv, phase = "scanning", NEW k, CallFits(k)
  PROVE  InOrder(k)
  <1>1. doc.servers \in Nat /\ doc.players \in Nat
    BY DEF ScanInv, DocInv
  <1>2. ASSUME kvi # NULL
        PROVE  ~Before(k, kvi) /\ (kvi.status = "KVI_STATUS_LAST" => Before(kvi, k))
    <2>1. kvi.server_index \in Nat /\ kvi.player_index \in Nat
      BY <1>2 DEF ScanInv, DocInv, KeyValueInfo
    <2> QED BY <1>1, <1>2, <2>1 DEF ScanInv, OrderInv, Before, CallFits
  <1> QED BY <1>2 DEF InOrder

\* A call leaves the source where it is.
LEMMA CallStep ==
  ASSUME ScanInv, NEW k, Call(k)
  PROVE  /\ phase = "scanning" /\ phase' = "scanning" /\ ~stopped /\ kvi' = k
         /\ UNCHANGED source
         /\ k \in KeyValueInfo /\ WellFormed(k) /\ InOrder(k) => Pair
  BY DEF Call, Source!Data, Source!held, source, ProcessSessionInfo, Pair

DocType ==
    [at : {"list", "game", "user", "name"}, servers : Nat, players : Nat,
     player : Accounts \cup {NULL}]

\* A call is a step of SessionTable, by where it leaves the writer.
LEMMA WriterCall ==
  ASSUME ScanInv, NEW k, Call(k), CallFits(k),
         doc' \in DocType, doc'.at = "user" => doc'.player \in Accounts,
         \/ /\ k.status = "KVI_STATUS_NORMAL"
            /\ doc'.servers = doc.servers /\ doc'.players = doc.players
         \/ doc'.servers = doc.servers /\ doc'.players = doc.players + 1
         \/ doc'.servers = doc.servers + 1
  PROVE  ScanInv' /\ Pair
  <1>1. /\ phase = "scanning" /\ phase' = "scanning" /\ kvi' = k
        /\ UNCHANGED <<pc, file, wsa, addrinfo, sockets, status>>
    BY CallStep DEF source
  <1>2. doc.servers \in Nat /\ doc.players \in Nat
    BY DEF ScanInv, DocInv
  <1>3. PhaseInv' /\ StopInv'
    BY <1>1 DEF ScanInv, PhaseInv, StopInv
  <1>4. HeldInv'
    BY <1>1 DEF ScanInv, HeldInv
  <1>5. OrderInv'
    BY <1>1, <1>2 DEF OrderInv, CallFits
  <1>6. DocInv'
    BY <1>1 DEF DocInv, DocType, CallFits
  <1>7. Pair
    BY <1>1, CallInOrder, CallStep DEF CallFits
  <1> QED BY <1>3, <1>4, <1>5, <1>6, <1>7 DEF ScanInv

\* Empty objects are counted and not called for.
LEMMA EmptyStep ==
  ASSUME ScanInv, WriteEmpty
  PROVE  ScanInv' /\ UNCHANGED vars
  <1>1. /\ UNCHANGED vars /\ UNCHANGED <<kvi, phase, stopped>>
        /\ UNCHANGED <<pc, file, wsa, addrinfo, sockets, status>>
    BY DEF WriteEmpty, source, vars, call
  <1>2. doc \in DocType
    BY DEF ScanInv, DocInv, DocType
  <1>3. \A d \in DocType :
           /\ [d EXCEPT !.servers = @ + 1] \in DocType
           /\ [d EXCEPT !.players = @ + 1] \in DocType
           /\ [d EXCEPT !.servers = @ + 1].at = d.at
           /\ [d EXCEPT !.servers = @ + 1].servers = d.servers + 1
           /\ [d EXCEPT !.players = @ + 1].at = d.at
           /\ [d EXCEPT !.players = @ + 1].servers = d.servers
           /\ [d EXCEPT !.players = @ + 1].players = d.players + 1
    BY DEF DocType
  <1>4. /\ doc' \in DocType /\ doc'.at # "user"
        /\ \/ doc'.servers = doc.servers + 1
           \/ doc'.servers = doc.servers /\ doc'.players = doc.players + 1
    BY <1>2, <1>3 DEF WriteEmpty
  <1>5. doc.servers \in Nat /\ doc.players \in Nat
    BY <1>2 DEF DocType
  <1>6. PhaseInv' /\ StopInv'
    BY <1>1 DEF ScanInv, PhaseInv, StopInv
  <1>7. HeldInv'
    BY <1>1 DEF ScanInv, HeldInv
  <1>8. DocInv'
    BY <1>1, <1>4 DEF ScanInv, DocInv, DocType
  <1>9. OrderInv'
    <2>1. SUFFICES ASSUME phase = "scanning", kvi # NULL
                   PROVE  \/ kvi.server_index < doc'.servers
                          \/ kvi.server_index = doc'.servers /\ kvi.player_index < doc'.players
      BY <1>1 DEF OrderInv
    <2>2. kvi.server_index \in Nat /\ kvi.player_index \in Nat
      BY <2>1 DEF ScanInv, DocInv, KeyValueInfo
    <2> QED BY <1>4, <1>5, <2>1, <2>2 DEF ScanInv, OrderInv
  <1> QED BY <1>1, <1>6, <1>7, <1>8, <1>9 DEF ScanInv

LEMMA WriteStep ==
  ASSUME ScanInv, Write
  PROVE  ScanInv' /\ (Pair \/ UNCHANGED vars)
  <1> USE TableAssumption DEF TableAssumption
  <1>1. doc \in DocType /\ (doc.at = "user" => doc.player \in Accounts)
    BY DEF ScanInv, DocInv, DocType
  <1>2. ASSUME NEW id \in Ids \cup {NULL}, WriteGame(id)
        PROVE  ScanInv' /\ Pair
    <2>1. /\ doc' \in DocType /\ doc'.at # "user"
          /\ doc'.servers = doc.servers /\ doc'.players = doc.players
      BY <1>1, <1>2 DEF WriteGame, DocType
    <2>2. CASE id = NULL
      <3>1. PICK k : Call(k) /\ k = NewPair(FALSE, FALSE, "other", NULL)
        BY <1>2, <2>2 DEF WriteGame
      <3>2. CallFits(k) /\ k.status = "KVI_STATUS_NORMAL"
        BY <1>1, <3>1 DEF NewPair, WellFormed, CallFits, KeyValueInfo, DocType
      <3> QED BY <2>1, <3>1, <3>2, WriterCall
    <2>3. CASE id \in Ids
      <3>1. PICK k : Call(k) /\ k = NewPair(FALSE, FALSE, "SERVERKEY_G", id)
        BY <1>2, <2>3 DEF WriteGame
      <3>2. CallFits(k) /\ k.status = "KVI_STATUS_NORMAL"
        BY <1>1, <3>1, <2>3 DEF NewPair, WellFormed, CallFits, KeyValueInfo, DocType
      <3> QED BY <2>1, <2>3, <3>1, <3>2, WriterCall
    <2> QED BY <1>2, <2>2, <2>3
  <1>3. ASSUME NEW player \in Accounts, WriteUser(player)
        PROVE  ScanInv' /\ Pair
    <2>1. /\ doc' \in DocType /\ doc'.player \in Accounts
          /\ doc'.servers = doc.servers /\ doc'.players = doc.players
      BY <1>1, <1>3 DEF WriteUser, DocType
    <2>2. PICK k : Call(k) /\ k = NewPair(FALSE, TRUE, "PLAYERKEY_USERID", player.user) /\ player.user \in Users
      BY <1>3 DEF WriteUser
    <2>3. CallFits(k) /\ k.status = "KVI_STATUS_NORMAL"
      BY <1>1, <2>2 DEF NewPair, WellFormed, CallFits, KeyValueInfo, DocType
    <2> QED BY <2>1, <2>2, <2>3, WriterCall
  <1>4. CASE WriteName
    <2>1. /\ doc' \in DocType /\ doc'.at # "user"
          /\ doc'.servers = doc.servers /\ doc'.players = doc.players
      BY <1>1, <1>4 DEF WriteName, DocType
    <2>2. PICK k : Call(k) /\ k = NewPair(FALSE, TRUE, "PLAYERKEY_NAME", doc.player.name) /\ doc.player.name \in Names
      BY <1>1, <1>4 DEF WriteName
    <2>3. CallFits(k) /\ k.status = "KVI_STATUS_NORMAL"
      BY <1>1, <2>2 DEF NewPair, WellFormed, CallFits, KeyValueInfo, DocType
    <2> QED BY <2>1, <2>2, <2>3, WriterCall
  <1>5. CASE WriteTeam
    <2>1. /\ doc' \in DocType /\ doc'.at # "user"
          /\ doc'.servers = doc.servers /\ doc'.players = doc.players + 1
      BY <1>1, <1>5 DEF WriteTeam, DocType
    <2>2. PICK k : Call(k) /\ k = NewPair(TRUE, TRUE, "other", NULL)
      BY <1>5 DEF WriteTeam
    <2>3. CallFits(k)
      BY <1>1, <2>2 DEF NewPair, WellFormed, CallFits, KeyValueInfo, DocType
    <2> QED BY <2>1, <2>2, <2>3, WriterCall
  <1>6. ASSUME NEW limit \in Limits, EndGame(limit)
        PROVE  ScanInv' /\ Pair
    <2>1. /\ doc' \in DocType /\ doc'.at # "user" /\ doc'.servers = doc.servers + 1
      BY <1>1, <1>6 DEF EndGame, DocType
    <2>2. PICK k : Call(k) /\ k = NewPair(TRUE, FALSE, "SERVERKEY_PLAYERLIMIT", limit)
      BY <1>6 DEF EndGame
    <2>3. CallFits(k)
      BY <1>1, <2>2 DEF NewPair, WellFormed, CallFits, KeyValueInfo, DocType
    <2> QED BY <2>1, <2>2, <2>3, WriterCall
  <1>7. CASE WriteEmpty
    BY <1>7, EmptyStep
  <1> QED BY <1>2, <1>3, <1>4, <1>5, <1>6, <1>7 DEF Write

-----------------------------------------------------------------------------
(* The other steps.                                                         *)

LEMMA StartStep ==
  ASSUME ScanInv, Start
  PROVE  ScanInv' /\ ScanThread
  <1>1. /\ ScanThread /\ phase' = "scanning" /\ kvi' = NULL
        /\ pc = "returned" /\ pc' \in {"ScanFile", "ScanHTTP"} /\ status' = "none"
        /\ UNCHANGED <<file, wsa, addrinfo, sockets>> /\ doc' = Blank
    BY DEF Start, ScanThread, Source!Start, Source!held
  <1>2. PhaseInv' /\ StopInv' /\ OrderInv'
    BY <1>1 DEF PhaseInv, StopInv, OrderInv
  <1>3. HeldInv'
    BY <1>1 DEF ScanInv, HeldInv
  <1>4. DocInv'
    BY <1>1 DEF DocInv, Blank
  <1> QED BY <1>1, <1>2, <1>3, <1>4 DEF ScanInv

LEMMA FetchStep ==
  ASSUME ScanInv, Fetch
  PROVE  ScanInv' /\ (Terminal \/ UNCHANGED vars)
  <1>1. /\ HeldInv' /\ stopped' = stopped /\ pc # "returned"
        /\ status' = "none" => pc' # "returned"
        /\ status' # "none" => pc' = "returned"
        /\ status' \in {"none", "KVI_STATUS_COMPLETE", "KVI_STATUS_ERROR"}
        /\ pc' = "returned" /\ stopped => status' = "KVI_STATUS_ERROR"
    BY SourceStep DEF ScanInv, Fetch
  <1>2. phase = "scanning" /\ UNCHANGED <<kvi, doc>>
    BY <1>1 DEF ScanInv, PhaseInv, Fetch, writer
  <1>3. CASE status' = "none"
    <2>1. UNCHANGED tableVars
      BY <1>3 DEF Fetch
    <2>2. UNCHANGED vars /\ phase' = "scanning"
      BY <1>1, <1>2, <2>1 DEF tableVars, vars, call
    <2>3. PhaseInv' /\ StopInv' /\ OrderInv' /\ DocInv'
      BY <1>1, <1>2, <1>3, <2>2 DEF ScanInv, PhaseInv, StopInv, OrderInv, DocInv
    <2> QED BY <1>1, <2>2, <2>3 DEF ScanInv
  <1>4. CASE status' # "none"
    <2>1. TerminalCall(status') /\ phase' \in {"idle", "failed"}
      BY <1>4 DEF Fetch, TerminalCall, ErrorBox, EndScan
    <2>3. Terminal
      BY <1>1, <1>4, <2>1 DEF Terminal
    <2>2. PhaseInv' /\ StopInv' /\ OrderInv' /\ DocInv'
      BY <1>1, <1>2, <1>4, <2>1 DEF ScanInv, PhaseInv, StopInv, OrderInv, DocInv
    <2> QED BY <1>1, <2>2, <2>3 DEF ScanInv
  <1> QED BY <1>3, <1>4

\* Steps that neither the source nor the writer makes.
LEMMA OtherStep ==
  ASSUME ScanInv, UNCHANGED <<pc, file, wsa, addrinfo, sockets, status, doc, kvi, stopped>>,
         \/ phase' = phase
         \/ phase = "idle" /\ phase' = "created"
         \/ phase = "failed" /\ phase' = "idle"
  PROVE  ScanInv'
  <1>1. PhaseInv' /\ StopInv'
    BY DEF ScanInv, PhaseInv, StopInv
  <1>2. HeldInv'
    BY DEF ScanInv, HeldInv
  <1>3. OrderInv' /\ DocInv'
    BY DEF ScanInv, OrderInv, DocInv
  <1> QED BY <1>1, <1>2, <1>3 DEF ScanInv

LEMMA ScanStep ==
  ASSUME ScanInv, [ScanNext]_scanVars
  PROVE  ScanInv' /\ [Next]_vars
  <1>1. CASE Begin
    <2>1. BeginScan /\ UNCHANGED <<pc, file, wsa, addrinfo, sockets, status, doc, kvi, stopped>>
      BY <1>1 DEF Begin, BeginScan, source, writer, call
    <2>2. phase = "idle" /\ phase' = "created"
      BY <2>1 DEF BeginScan
    <2> QED BY <2>1, <2>2, OtherStep DEF Next
  <1>2. CASE Start
    BY <1>2, StartStep DEF Next
  <1>3. CASE Write
    BY <1>3, WriteStep DEF Next
  <1>4. CASE Fetch
    BY <1>4, FetchStep DEF Next
  <1>5. CASE ByUser
    <2>1. User /\ UNCHANGED <<pc, file, wsa, addrinfo, sockets, status, doc>>
      BY <1>5 DEF ByUser, source, writer
    <2>2. UNCHANGED <<kvi, stopped, phase>>
      BY <2>1 DEF User, StopScan, SelectPlayer, SelectGame, ColumnClick, ApplyHost, call
    <2> QED BY <2>1, <2>2, OtherStep DEF Next
  <1>6. CASE Dismiss
    <2>1. DismissBox /\ UNCHANGED <<pc, file, wsa, addrinfo, sockets, status, doc>>
      BY <1>6 DEF Dismiss, source, writer
    <2>2. UNCHANGED <<kvi, stopped>> /\ phase = "failed" /\ phase' = "idle"
      BY <2>1 DEF DismissBox, EndScan, call
    <2> QED BY <2>1, <2>2, OtherStep DEF Next
  <1>7. CASE UNCHANGED scanVars
    <2>1. UNCHANGED <<vars, pc, file, wsa, addrinfo, sockets, status, doc>>
      BY <1>7 DEF scanVars, source, writer
    <2>2. UNCHANGED <<kvi, stopped, phase>>
      BY <2>1 DEF vars, call
    <2> QED BY <2>1, <2>2, OtherStep
  <1>8. CASE Done
    BY <1>7, <1>8 DEF Done
  <1> QED BY <1>1, <1>2, <1>3, <1>4, <1>5, <1>6, <1>7, <1>8 DEF ScanNext, Thread

-----------------------------------------------------------------------------
(* The theorems.                                                            *)

LEMMA ScanStarts ==
  ASSUME ScanInit
  PROVE  ScanInv /\ Init
  <1>1. /\ Init /\ phase = "idle" /\ ~stopped /\ kvi = NULL
        /\ pc = "returned" /\ ~file /\ ~wsa /\ ~addrinfo /\ sockets = 0 /\ doc = Blank
    BY DEF ScanInit, Init, Source!Init
  <1>2. PhaseInv /\ StopInv /\ OrderInv
    BY <1>1 DEF PhaseInv, StopInv, OrderInv
  <1>3. HeldInv
    BY <1>1 DEF HeldInv
  <1>4. DocInv
    BY <1>1 DEF DocInv, Blank
  <1> QED BY <1>1, <1>2, <1>3, <1>4 DEF ScanInv

THEOREM ScanInvHolds == ScanSpec => []ScanInv
  <1>1. ScanInv /\ [ScanNext]_scanVars => ScanInv'
    BY ScanStep
  <1> QED BY <1>1, ScanStarts, PTL DEF ScanSpec

\* Of a whole scan, for every list and every size of the table, the calls that
\* reach ProcessSessionInfo (205-425) are those that SessionTable allows.
THEOREM ScanImplementsTable == ScanSpec => ImplementsTable
  <1>1. ScanInv /\ [ScanNext]_scanVars => [Next]_vars
    BY ScanStep
  <1> QED BY <1>1, ScanStarts, ScanInvHolds, PTL DEF ScanSpec, Spec, ImplementsTable

\* So no list, however it is cut off, leads a whole scan past the arrays.
THEOREM ScanStaysInBounds == ScanSpec => []TableInBounds
  BY ScanImplementsTable, TableStaysInBounds, PTL DEF ImplementsTable

\* Each way out of ScanHTTP and ScanFile (bzccnet.c 545-709) releases what was
\* acquired, before the callback is told of the end.
THEOREM NothingIsLeftBehind == ScanSpec => []NothingHeld
  <1>1. ScanInv => NothingHeld
    BY DEF ScanInv, HeldInv, NothingHeld, Source!NothingHeld
  <1> QED BY <1>1, ScanInvHolds, PTL

\* "If callback function returns non-zero processing will cease": it does, and
\* the scan ends as KVI_STATUS_ERROR.
THEOREM StoppedScansFail == ScanSpec => []StoppedScanFails
  <1>1. ScanInv => StoppedScanFails
    BY DEF ScanInv, StopInv, StoppedScanFails
  <1> QED BY <1>1, ScanInvHolds, PTL

-----------------------------------------------------------------------------
(* The types of the source's own state.                                     *)

SourceInv ==
    /\ file \in BOOLEAN /\ wsa \in BOOLEAN /\ addrinfo \in BOOLEAN
    /\ ptr \in 0 .. MaxAddrs
    /\ status \in {"none", "KVI_STATUS_COMPLETE", "KVI_STATUS_ERROR"}
    /\ scans \in 0 .. MaxScans

\* No address is taken from the list past its end: ptr goes on only while one is left.
LEMMA SourceTypes ==
  ASSUME SourceInv, Source!Step, UNCHANGED scans
  PROVE  SourceInv'
  <1> USE DEF Source!held, Source!Report, Source!Fail, SourceInv
  <1>1. CASE Source!OpenFile
    BY <1>1 DEF Source!OpenFile
  <1>2. CASE Source!Startup
    BY <1>2 DEF Source!Startup
  <1>3. CASE Source!Resolve
    <2>1. file' \in BOOLEAN /\ wsa' \in BOOLEAN /\ addrinfo' \in BOOLEAN
      BY <1>3 DEF Source!Resolve
    <2>2. ptr' \in 0 .. MaxAddrs /\ status' \in {"none", "KVI_STATUS_COMPLETE", "KVI_STATUS_ERROR"}
      BY <1>3 DEF Source!Resolve, ScanAssumption
    <2> QED BY <2>1, <2>2
  <1>4. CASE Source!NoSocket
    BY <1>4 DEF Source!NoSocket
  <1>5. CASE Source!ConnectFails
    BY <1>5 DEF Source!ConnectFails
  <1>6. CASE Source!Connects
    BY <1>6 DEF Source!Connects
  <1>7. CASE Source!AddressesTried
    <2>1. file' \in BOOLEAN /\ wsa' \in BOOLEAN /\ addrinfo' \in BOOLEAN
      BY <1>7 DEF Source!AddressesTried
    <2>2. ptr' \in 0 .. MaxAddrs /\ status' \in {"none", "KVI_STATUS_COMPLETE", "KVI_STATUS_ERROR"}
      BY <1>7 DEF Source!AddressesTried, ScanAssumption
    <2> QED BY <2>1, <2>2
  <1>8. CASE Source!Send
    BY <1>8 DEF Source!Send
  <1>9. CASE Source!SendFails
    BY <1>9 DEF Source!SendFails
  <1>10. CASE Source!ParseReturns
    BY <1>10 DEF Source!ParseReturns
  <1> QED BY <1>1, <1>2, <1>3, <1>4, <1>5, <1>6, <1>7, <1>8, <1>9, <1>10 DEF Source!Step

LEMMA SourceNext ==
  ASSUME ScanInv, SourceInv, [ScanNext]_scanVars
  PROVE  SourceInv'
  <1>1. CASE Begin
    BY <1>1 DEF Begin, source, SourceInv, ScanAssumption
  <1>2. CASE Start
    BY <1>2 DEF Start, Source!Start, Source!held, SourceInv, ScanAssumption
  <1>3. CASE Write
    <2>1. CASE WriteEmpty
      BY <2>1 DEF WriteEmpty, source, history, SourceInv
    <2>2. ASSUME NEW k, Call(k) PROVE SourceInv'
      BY <2>2, CallStep DEF Call, source, history, SourceInv
    <2> QED BY <1>3, <2>1, <2>2 DEF Write, WriteGame, WriteUser, WriteName, WriteTeam, EndGame
  <1>4. CASE Fetch
    BY <1>4, SourceTypes DEF Fetch
  <1>5. CASE ByUser
    BY <1>5 DEF ByUser, source, history, SourceInv
  <1>6. CASE Dismiss
    BY <1>6 DEF Dismiss, source, history, SourceInv
  <1>7. CASE UNCHANGED scanVars
    BY <1>7 DEF scanVars, source, history, SourceInv
  <1>8. CASE Done
    BY <1>7, <1>8 DEF Done
  <1> QED BY <1>1, <1>2, <1>3, <1>4, <1>5, <1>6, <1>7, <1>8 DEF ScanNext, Thread

\* The table, the source and the writer keep their types: ScanHTTP, in whatever
\* way its calls fail, does not run past the list of addresses (580-620).
THEOREM ScanTypeCorrect == ScanSpec => []ScanTypeOK
  <1>1. ASSUME ScanInit PROVE SourceInv
    <2>1. file = FALSE /\ wsa = FALSE /\ addrinfo = FALSE
      BY <1>1 DEF ScanInit, Source!Init
    <2>2. ptr = 0 /\ status = "none" /\ scans = 0
      BY <1>1 DEF ScanInit, Source!Init
    <2>3. file \in BOOLEAN /\ wsa \in BOOLEAN /\ addrinfo \in BOOLEAN
      BY <2>1
    <2>4. ptr \in 0 .. MaxAddrs /\ scans \in 0 .. MaxScans
      BY <2>2 DEF ScanAssumption
    <2> QED BY <2>2, <2>3, <2>4 DEF SourceInv
  <1>2. ScanInv /\ SourceInv /\ [ScanNext]_scanVars => SourceInv'
    BY SourceNext
  <1>3. ScanSpec => []SourceInv
    BY <1>1, <1>2, ScanInvHolds, PTL DEF ScanSpec
  <1>4. ScanSpec => []TypeOK
    BY ScanImplementsTable, TableTypeCorrect, PTL DEF ImplementsTable
  <1>5. TypeOK /\ ScanInv /\ SourceInv => ScanTypeOK
    <2>1. ASSUME TypeOK, ScanInv, SourceInv PROVE Source!TypeOK
      BY <2>1 DEF TypeOK, ScanInv, HeldInv, SourceInv, Source!TypeOK
    <2> QED BY <2>1 DEF ScanInv, DocInv, SourceInv, ScanTypeOK
  <1> QED BY <1>3, <1>4, <1>5, ScanInvHolds, PTL
=============================================================================

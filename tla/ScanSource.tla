------------------------------ MODULE ScanSource ------------------------------
(***************************************************************************)
(* ScanHTTP and ScanFile (bzccnet.c): a connection or a file is opened,    *)
(* parse_data reads it, everything is released, and the callback is told   *)
(* how the scan ended. parse_data is known by the calls it makes and by    *)
(* its return value (LobbyParser says which these are).                    *)
(***************************************************************************)
EXTENDS Integers

CONSTANT
    MaxAddrs   \* bound: addresses of the host

VARIABLES
    pc,
    file,          \* is hFile open?
    wsa,           \* WSAStartup without its WSACleanup
    addrinfo,      \* is the list of addresses allocated?
    ptr,           \* addresses that are left to try
    sockets,       \* sockets that are open
    stopped,       \* did a call of the callback with data return non-zero?
    status         \* of the terminal call of the callback

held == <<file, wsa, addrinfo, sockets>>
vars == <<pc, held, ptr, stopped, status>>

TypeOK ==
    /\ pc \in {"ScanFile", "ScanHTTP", "getaddrinfo", "connect", "connected", "send",
               "parse_data", "returned"}
    /\ file \in BOOLEAN /\ wsa \in BOOLEAN /\ addrinfo \in BOOLEAN
    /\ ptr \in 0 .. MaxAddrs
    /\ sockets \in Nat
    /\ stopped \in BOOLEAN
    /\ status \in {"none", "KVI_STATUS_COMPLETE", "KVI_STATUS_ERROR"}

-----------------------------------------------------------------------------
\* The terminal call of the callback, and the return.
Report(s) == status' = s /\ pc' = "returned"

Fail == Report("KVI_STATUS_ERROR") /\ UNCHANGED stopped

OpenFile ==
    /\ pc = "ScanFile"
    /\ \/ Fail /\ UNCHANGED held
       \/ /\ file' = TRUE /\ pc' = "parse_data"
          /\ UNCHANGED <<wsa, addrinfo, sockets, stopped, status>>
    /\ UNCHANGED ptr

Startup ==
    /\ pc = "ScanHTTP"
    /\ \/ Fail /\ UNCHANGED held
       \/ /\ wsa' = TRUE /\ pc' = "getaddrinfo"
          /\ UNCHANGED <<file, addrinfo, sockets, stopped, status>>
    /\ UNCHANGED ptr

Resolve ==
    /\ pc = "getaddrinfo"
    /\ \/ /\ wsa' = FALSE
          /\ Fail
          /\ UNCHANGED <<file, addrinfo, sockets, ptr>>
       \/ /\ addrinfo' = TRUE /\ pc' = "connect"
          /\ ptr' \in 1 .. MaxAddrs
          /\ UNCHANGED <<file, wsa, sockets, stopped, status>>

\* socket() fails: ScanHTTP returns.
NoSocket ==
    /\ pc = "connect" /\ ptr > 0
    /\ addrinfo' = FALSE /\ wsa' = FALSE
    /\ Fail
    /\ UNCHANGED <<file, sockets, ptr>>

\* Mutant: after the last address the first is tried again.
ConnectFails_StartsOver ==
    /\ pc = "connect" /\ ptr > 0
    /\ ptr' = IF ptr = 1 THEN MaxAddrs ELSE ptr - 1
    /\ UNCHANGED <<pc, held, stopped, status>>

\* Mutant: the end of the list is not noticed.
ConnectFails_PastEnd ==
    /\ pc = "connect"
    /\ ptr' = ptr - 1
    /\ UNCHANGED <<pc, held, stopped, status>>

\* Mutant: the socket is not closed.
ConnectFails_KeepsSocket ==
    /\ pc = "connect" /\ ptr > 0
    /\ sockets' = sockets + 1
    /\ ptr' = ptr - 1
    /\ UNCHANGED <<pc, file, wsa, addrinfo, stopped, status>>

\* connect() fails: the socket is closed and the next address is tried.
ConnectFails ==
    /\ pc = "connect" /\ ptr > 0
    /\ ptr' = ptr - 1
    /\ UNCHANGED <<pc, held, stopped, status>>

Connects ==
    /\ pc = "connect" /\ ptr > 0
    /\ sockets' = sockets + 1
    /\ pc' = "connected"
    /\ UNCHANGED <<file, wsa, addrinfo, ptr, stopped, status>>

\* After the loop: the list is freed, and without a socket the scan fails.
AddressesTried ==
    /\ pc = "connected" \/ (pc = "connect" /\ ptr = 0)
    /\ addrinfo' = FALSE /\ ptr' = 0
    /\ IF pc = "connect"
         THEN wsa' = FALSE /\ Fail
         ELSE pc' = "send" /\ UNCHANGED <<wsa, stopped, status>>
    /\ UNCHANGED <<file, sockets>>

\* The loop around send. A blocking socket takes the whole request or fails;
\* what the loop would do after a send() that takes part of it is not modelled.
Send ==
    /\ pc = "send"
    /\ pc' = "parse_data"
    /\ UNCHANGED <<held, ptr, stopped, status>>

SendFails ==
    /\ pc = "send"
    /\ sockets' = sockets - 1 /\ wsa' = FALSE
    /\ Fail
    /\ UNCHANGED <<file, addrinfo, ptr>>

\* Mutant: the result of the callback is not looked at.
Data_GoesOn ==
    /\ pc = "parse_data"
    /\ stopped' \in BOOLEAN
    /\ UNCHANGED <<pc, held, ptr, status>>

\* parse_data calls back with a key and a value, and ends when told to stop.
Data ==
    /\ pc = "parse_data" /\ ~stopped
    /\ stopped' \in BOOLEAN
    /\ UNCHANGED <<pc, held, ptr, status>>

\* Mutant: the return value of parse_data is not looked at.
ParseReturns_Complete ==
    /\ pc = "parse_data"
    /\ IF file THEN file' = FALSE /\ UNCHANGED <<wsa, sockets>>
               ELSE sockets' = sockets - 1 /\ wsa' = FALSE /\ UNCHANGED file
    /\ Report("KVI_STATUS_COMPLETE")
    /\ UNCHANGED <<addrinfo, ptr, stopped>>

ParseReturns ==
    /\ pc = "parse_data"
    /\ IF file THEN file' = FALSE /\ UNCHANGED <<wsa, sockets>>
               ELSE sockets' = sockets - 1 /\ wsa' = FALSE /\ UNCHANGED file
    /\ \/ ~stopped /\ Report("KVI_STATUS_COMPLETE")
       \/ Report("KVI_STATUS_ERROR")
    /\ UNCHANGED <<addrinfo, ptr, stopped>>

\* ScanThread calls ScanFile if the port is 0, and otherwise ScanHTTP.
Start ==
    /\ pc = "returned"
    /\ pc' \in {"ScanFile", "ScanHTTP"}
    /\ ptr' = 0
    /\ stopped' = FALSE /\ status' = "none"
    /\ UNCHANGED held

Init ==
    /\ pc = "returned"
    /\ file = FALSE /\ wsa = FALSE /\ addrinfo = FALSE /\ sockets = 0
    /\ ptr = 0
    /\ stopped = FALSE
    /\ status = "none"

\* A step other than a call with data.
Step ==
    \/ OpenFile \/ Startup \/ Resolve \/ NoSocket \/ ConnectFails \/ Connects \/ AddressesTried
    \/ Send \/ SendFails \/ ParseReturns

Next == Start \/ Step \/ Data

Spec == Init /\ [][Next]_vars

-----------------------------------------------------------------------------
\* However the scan fails, by the time the callback is told that it has ended
\* (and lets the next scan begin) no socket, address list, file or use of
\* WinSock is left behind.
NothingHeld == pc = "returned" => ~file /\ ~wsa /\ ~addrinfo /\ sockets = 0
=============================================================================

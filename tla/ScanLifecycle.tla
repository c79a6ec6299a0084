---------------------------- MODULE ScanLifecycle ----------------------------
(***************************************************************************)
(* The life of a scan in bzccscanner.c: the UI thread (WinMain's message   *)
(* loop, WndProc, WndProcPrefsDlg) and the scan threads that BeginScan     *)
(* creates, sharing the fields of one WindowControls without any lock.     *)
(*                                                                         *)
(* The two kinds of thread meet in three ways: plain reads and writes of   *)
(* the shared fields; messages a scan thread sends to a window of the UI   *)
(* thread, which are delivered only while the UI thread retrieves messages *)
(* (UiPumps); and the refresh timer. An access to a field the other kind   *)
(* of thread writes, or reads what this one writes, is a step of its own,  *)
(* unless it commutes with the accesses it is merged with; the comment of  *)
(* the action then says why.                                               *)
(*                                                                         *)
(* What is fetched and how it is parsed is abstracted to the order in      *)
(* which ProcessSessionInfo is called; gameinfo keeps only whether a slot  *)
(* is being filled or complete, and gameinfo_prev (the notifications) is   *)
(* left out.                                                               *)
(***************************************************************************)
EXTENDS Naturals

CONSTANTS
    Threads,            \* the scan threads CreateThread can return
    MAX_SERVERS,        \* the length of gameinfo
    NULL,
    EmptyScans,         \* may a scan complete without having listed a game?
    CreateThreadFails   \* may CreateThread fail?

ASSUME ThreadsAssumption == Threads # {} /\ NULL \notin Threads
ASSUME ServersAssumption == MAX_SERVERS \in Nat /\ NULL \notin 1 .. MAX_SERVERS
ASSUME OptionsAssumption == EmptyScans \in BOOLEAN /\ CreateThreadFails \in BOOLEAN

VARIABLES
    ui,             \* where the UI thread is; "loop" retrieves messages
    hLocal,         \* the handle the UI thread holds in a temporary
    uiItem,         \* the menu entry it has chosen and not yet appended
    quit_posted,    \* PostQuitMessage was called
    thread,         \* where each scan thread is; "free" has not been created
    item,           \* the menu entry each thread chose and has not yet appended
    hScan,          \* WindowControls.hScan
    iContinueScan,
    quitting,
    armed,          \* the refresh timer is set in the window manager
    timer_id,       \* WindowControls.timer_id is not 0
    auto_scan,
    auto_scan_request_while_busy,
    hInDlg,         \* the rename dialog is open
    pPlayer,        \* the game whose player the rename dialog edits
    security_box,   \* the "Security Error" box of a submitted rename is up
    hMenu,          \* the entries of the tray menu that send WM_APP_REFRESH
    hRefresh,       \* the Refresh button: its text and whether it is enabled
    gameinfo,
    scan_count_servers,
    hGameList,      \* the games the list view shows
    pSelectedGameInfo,
    pSelectedPlayerInfo   \* the game of the selected player

uiVars     == <<ui, hLocal, quit_posted>>
threadVars == <<thread>>
scanVars   == <<hScan, iContinueScan, quitting>>
timerVars  == <<armed, timer_id, auto_scan, auto_scan_request_while_busy>>
dialogVars == <<hInDlg, pPlayer, security_box>>
menuVars   == <<uiItem, item, hMenu>>
tableVars  == <<gameinfo, scan_count_servers>>
listVars   == <<hGameList, pSelectedGameInfo, pSelectedPlayerInfo>>

vars == <<uiVars, threadVars, scanVars, timerVars, dialogVars, menuVars,
          hRefresh, tableVars, listVars>>

Slots == 1 .. MAX_SERVERS
MenuItems == {"Refresh", "Stop", "StopGrey"}

\* The UI thread delivers messages and can be acted upon; with the rename
\* dialog open the main window is disabled, the tray icon is not. (The error
\* box of a scan disables the main window too, but closing a rename enables it
\* again; the model lets the user go on in either case.)
UiPumps == ui = "loop"
UserMayAct == ui = "loop" /\ ~quit_posted
MainWindowEnabled == UserMayAct /\ ~hInDlg /\ ~security_box

\* The text and the state UpdateContextMenu gives the scan entry.
MenuChoice ==
    CASE hScan = NULL                    -> "Refresh"
      [] hScan # NULL /\ iContinueScan   -> "Stop"
      [] hScan # NULL /\ ~iContinueScan  -> "StopGrey"

TypeOK ==
    /\ ui \in {"loop", "begin", "create", "assign", "menu", "append", "stop_menu",
               "stop_append", "stop_disable", "forget", "closing", "quitting",
               "wait", "exited"}
    /\ hLocal \in Threads \cup {NULL}
    /\ uiItem \in MenuItems \cup {"none"}
    /\ ui \in {"append", "stop_append"} => uiItem # "none"
    /\ quit_posted \in BOOLEAN
    /\ thread \in [Threads -> {"free", "start", "parse", "row", "errbox", "end",
                               "null", "quitcheck", "sendclose", "menu", "append",
                               "settext", "enable", "rearm", "settimer", "setid"}]
    /\ item \in [Threads -> MenuItems \cup {"none"}]
    /\ \A t \in Threads : thread[t] = "append" => item[t] # "none"
    /\ hScan \in Threads \cup {NULL}
    /\ iContinueScan \in BOOLEAN
    /\ quitting \in BOOLEAN
    /\ armed \in BOOLEAN
    /\ timer_id \in BOOLEAN
    /\ auto_scan \in BOOLEAN
    /\ auto_scan_request_while_busy \in BOOLEAN
    /\ hInDlg \in BOOLEAN
    /\ pPlayer \in Slots \cup {NULL}
    /\ security_box \in BOOLEAN
    /\ hMenu \in SUBSET MenuItems
    /\ hRefresh \in [text : {"Refresh", "Stop"}, enabled : BOOLEAN]
    /\ gameinfo \in [Slots -> {"empty", "filling", "done"}]
    /\ scan_count_servers \in 0 .. MAX_SERVERS
    /\ hGameList \in SUBSET Slots
    /\ pSelectedGameInfo \in Slots \cup {NULL}
    /\ pSelectedPlayerInfo \in Slots \cup {NULL}

-----------------------------------------------------------------------------
(* WM_APP_REFRESH: BeginScan or the Stop branch, and their later steps.     *)

\* A bound of the model: at most Threads scan threads at a time.
ThreadAvailable == \E t \in Threads : thread[t] = "free"

\* if (timer_id) KillTimer(timer_id); KillTimer of the id 0 kills nothing. Only
\* the UI thread resets timer_id, so between a test that found it set and the
\* call nothing changes but what the call undoes.
KillTimer == armed' = (armed /\ ~timer_id) /\ UNCHANGED timer_id

\* timer_id = SetTimer(...) on the UI thread. EndScan only ever does the same,
\* so that its steps between these two change nothing.
SetTimer == armed' = TRUE /\ timer_id' = TRUE

\* What BeginScan does once timer_id is 0, up to the call of CreateThread; no
\* thread reads any of it while hScan is NULL.
ClearList ==
    /\ ui' = "create"
    /\ iContinueScan' = TRUE
    /\ hGameList' = {}
    /\ pSelectedGameInfo' = NULL
    /\ pSelectedPlayerInfo' = NULL
    /\ hRefresh' = [hRefresh EXCEPT !.text = "Stop"]
    /\ UNCHANGED <<hLocal, quit_posted, threadVars, hScan, quitting, armed, auto_scan,
                   auto_scan_request_while_busy, dialogVars, menuVars, tableVars>>

\* BeginScan: the scan thread of an earlier scan may still be in the tail of
\* EndScan, and set the timer again between KillTimer ...
BeginScan ==
    /\ hScan = NULL
    /\ ThreadAvailable
    /\ \/ /\ ~timer_id
          /\ ClearList
          /\ UNCHANGED timer_id
       \/ /\ timer_id
          /\ KillTimer
          /\ ui' = "begin"
          /\ UNCHANGED <<hLocal, quit_posted, threadVars, scanVars, auto_scan,
                         auto_scan_request_while_busy, dialogVars, menuVars,
                         hRefresh, tableVars, listVars>>

\* ... and timer_id = 0.
BeginForgetsTimer ==
    /\ ui = "begin"
    /\ timer_id' = FALSE
    /\ ClearList

\* Mutant: Stop gives the handle up at once.
StopScan_DropsHandle ==
    /\ hScan # NULL
    /\ iContinueScan
    /\ iContinueScan' = FALSE
    /\ hScan' = NULL
    /\ ui' = "stop_menu"
    /\ UNCHANGED <<hLocal, quit_posted, threadVars, quitting, timerVars,
                   dialogVars, menuVars, hRefresh, tableVars, listVars>>

StopScan ==
    /\ hScan # NULL
    /\ iContinueScan
    /\ iContinueScan' = FALSE
    /\ ui' = "stop_menu"
    /\ UNCHANGED <<hLocal, quit_posted, threadVars, hScan, quitting, timerVars,
                   dialogVars, menuVars, hRefresh, tableVars, listVars>>

\* Mutant: the test of hInDlg is missing.
Refresh_InDialog == BeginScan \/ StopScan

\* The handler of WM_APP_REFRESH; the button, F5, the tray menu and WM_TIMER
\* send the same message.
Refresh == ~hInDlg /\ (BeginScan \/ StopScan)

UserRefreshes == UserMayAct /\ Refresh

\* CreateThread: the new thread runs from here on, hScan is not assigned yet.
ThreadCreated(t) ==
    /\ ui = "create"
    /\ thread[t] = "free"
    /\ thread' = [thread EXCEPT ![t] = "start"]
    /\ hLocal' = t
    /\ ui' = "assign"
    /\ UNCHANGED <<quit_posted, scanVars, timerVars, dialogVars, menuVars,
                   hRefresh, tableVars, listVars>>

ThreadNotCreated ==
    /\ ui = "create"
    /\ CreateThreadFails
    /\ hLocal' = NULL
    /\ ui' = "assign"
    /\ UNCHANGED <<quit_posted, threadVars, scanVars, timerVars, dialogVars,
                   menuVars, hRefresh, tableVars, listVars>>

\* hScan = CreateThread(...), then the test of hScan == NULL.
AssignHandle ==
    /\ ui = "assign"
    /\ hScan' = hLocal
    /\ hRefresh' = IF hLocal = NULL THEN [hRefresh EXCEPT !.text = "Refresh"] ELSE hRefresh
    /\ hLocal' = NULL
    /\ ui' = "menu"
    /\ UNCHANGED <<quit_posted, threadVars, iContinueScan, quitting, timerVars,
                   dialogVars, menuVars, tableVars, listVars>>

\* UpdateContextMenu on the UI thread: the old menu is destroyed, a new one
\* created and hScan read ...
UiReadsMenu ==
    /\ ui \in {"menu", "stop_menu"}
    /\ hMenu' = {}
    /\ uiItem' = MenuChoice
    /\ ui' = IF ui = "menu" THEN "append" ELSE "stop_append"
    /\ UNCHANGED <<hLocal, quit_posted, threadVars, scanVars, timerVars,
                   dialogVars, item, hRefresh, tableVars, listVars>>

\* ... and the entry appended to whatever hMenu is by then.
UiAppendsMenu ==
    /\ ui \in {"append", "stop_append"}
    /\ hMenu' = hMenu \cup {uiItem}
    /\ uiItem' = "none"
    /\ ui' = IF ui = "append" THEN "loop" ELSE "stop_disable"
    /\ UNCHANGED <<hLocal, quit_posted, threadVars, scanVars, timerVars,
                   dialogVars, item, hRefresh, tableVars, listVars>>

StopDisablesButton ==
    /\ ui = "stop_disable"
    /\ hRefresh' = [hRefresh EXCEPT !.enabled = FALSE]
    /\ ui' = "loop"
    /\ UNCHANGED <<hLocal, quit_posted, threadVars, scanVars, timerVars,
                   dialogVars, menuVars, tableVars, listVars>>

-----------------------------------------------------------------------------
(* The timer and the preferences that set it.                               *)

\* Mutant: the timer is killed and the request not remembered.
TimerDeferred_Forgets ==
    /\ hInDlg
    /\ KillTimer
    /\ ui' = "forget"
    /\ UNCHANGED <<hLocal, quit_posted, threadVars, scanVars, auto_scan, dialogVars,
                   auto_scan_request_while_busy, menuVars, hRefresh, tableVars, listVars>>

\* WM_TIMER while a rename is open: the request is remembered and the timer
\* killed ...
TimerDeferred ==
    /\ hInDlg
    /\ auto_scan_request_while_busy' = TRUE
    /\ KillTimer
    /\ ui' = "forget"
    /\ UNCHANGED <<hLocal, quit_posted, threadVars, scanVars, auto_scan, dialogVars,
                   menuVars, hRefresh, tableVars, listVars>>

\* ... and timer_id = 0, here and when Auto Scan is switched off.
TimerForgotten ==
    /\ ui = "forget"
    /\ timer_id' = FALSE
    /\ ui' = "loop"
    /\ UNCHANGED <<hLocal, quit_posted, threadVars, scanVars, armed, auto_scan,
                   auto_scan_request_while_busy, dialogVars, menuVars, hRefresh,
                   tableVars, listVars>>

TimerFires ==
    /\ UserMayAct
    /\ armed
    /\ TimerDeferred \/ Refresh

\* The Auto Scan check box of the preferences window. EndScan may read auto_scan
\* before or after the step; the timer it sets between the change of auto_scan
\* and KillTimer might as well have been set before both.
ToggleAutoScan ==
    /\ UserMayAct
    /\ auto_scan' = ~auto_scan
    /\ IF auto_scan THEN KillTimer ELSE SetTimer
    /\ ui' = IF auto_scan /\ timer_id THEN "forget" ELSE "loop"
    /\ UNCHANGED <<hLocal, quit_posted, threadVars, scanVars,
                   auto_scan_request_while_busy, dialogVars, menuVars, hRefresh,
                   tableVars, listVars>>

\* The Apply button of the scan delay: the timer is killed and set again, which
\* leaves it set with its id known, whatever EndScan does in between.
ApplyDelay ==
    /\ UserMayAct
    /\ auto_scan
    /\ SetTimer
    /\ UNCHANGED <<uiVars, threadVars, scanVars, auto_scan,
                   auto_scan_request_while_busy, dialogVars, menuVars, hRefresh,
                   tableVars, listVars>>

-----------------------------------------------------------------------------
(* Selecting a game and a player, and the rename dialog.                    *)

\* Mutant: the player selected in the old game stays selected.
SelectGame_KeepsPlayer(s) ==
    /\ MainWindowEnabled
    /\ s \in hGameList
    /\ s # pSelectedGameInfo
    /\ pSelectedGameInfo' = s
    /\ UNCHANGED <<uiVars, threadVars, scanVars, timerVars, dialogVars, menuVars,
                   hRefresh, tableVars, hGameList, pSelectedPlayerInfo>>

\* LVN_ITEMCHANGED: rows are selected while a scan is still adding to them.
SelectGame(s) ==
    /\ MainWindowEnabled
    /\ s \in hGameList
    /\ s # pSelectedGameInfo
    /\ pSelectedGameInfo' = s
    /\ pSelectedPlayerInfo' = NULL
    /\ UNCHANGED <<uiVars, threadVars, scanVars, timerVars, dialogVars, menuVars,
                   hRefresh, tableVars, hGameList>>

\* LBN_SELCHANGE: the player list holds the players of the selected game.
SelectPlayer ==
    /\ MainWindowEnabled
    /\ pSelectedGameInfo # NULL
    /\ pSelectedPlayerInfo' \in {pSelectedGameInfo, NULL}
    /\ UNCHANGED <<uiVars, threadVars, scanVars, timerVars, dialogVars, menuVars,
                   hRefresh, tableVars, hGameList, pSelectedGameInfo>>

OpenRename ==
    /\ MainWindowEnabled
    /\ pSelectedPlayerInfo # NULL
    /\ pSelectedGameInfo # NULL
    /\ hInDlg' = TRUE
    /\ pPlayer' = pSelectedPlayerInfo
    /\ UNCHANGED <<uiVars, threadVars, scanVars, timerVars, security_box, menuVars,
                   hRefresh, tableVars, listVars>>

\* WM_APP_CLOSE_RENAME_DLG. A submitted name for a player whose user id is not
\* valid ends in a message box, which retrieves messages until it is dismissed;
\* every other close is done when the handler returns.
CloseRename(invalid_id) ==
    /\ UserMayAct
    /\ hInDlg
    /\ hInDlg' = FALSE
    /\ IF auto_scan_request_while_busy /\ auto_scan
         THEN SetTimer
         ELSE UNCHANGED <<armed, timer_id>>
    /\ auto_scan_request_while_busy' = FALSE
    /\ security_box' = invalid_id
    /\ UNCHANGED <<uiVars, threadVars, scanVars, auto_scan, pPlayer, menuVars,
                   hRefresh, tableVars, listVars>>

\* The box is dismissed by the user, or by the modal loop once it sees the
\* quit message; then the handler goes on with UpdatePlayerList.
DismissSecurityBox ==
    /\ UiPumps
    /\ security_box
    /\ security_box' = FALSE
    /\ UNCHANGED <<uiVars, threadVars, scanVars, timerVars, hInDlg, pPlayer,
                   menuVars, hRefresh, tableVars, listVars>>

-----------------------------------------------------------------------------
(* WM_CLOSE and the end of the program.                                     *)

\* The first test of the handler; the branch it takes is decided here.
CloseHandler ==
    IF hScan # NULL
      THEN ui' = "closing" /\ UNCHANGED <<hLocal, quit_posted>>
      ELSE quit_posted' = TRUE /\ UNCHANGED <<ui, hLocal>>

UserCloses ==
    /\ UserMayAct
    /\ CloseHandler
    /\ UNCHANGED <<threadVars, scanVars, timerVars, dialogVars, menuVars,
                   hRefresh, tableVars, listVars>>

\* The first close stops the scan ...
CloseStopsScan ==
    /\ ui = "closing"
    /\ ~quitting
    /\ iContinueScan' = FALSE
    /\ ui' = "quitting"
    /\ UNCHANGED <<hLocal, quit_posted, threadVars, hScan, quitting, timerVars,
                   dialogVars, menuVars, hRefresh, tableVars, listVars>>

\* ... and leaves the rest to EndScan.
CloseSetsQuitting ==
    /\ ui = "quitting"
    /\ quitting' = TRUE
    /\ ui' = "loop"
    /\ UNCHANGED <<hLocal, quit_posted, threadVars, hScan, iContinueScan, timerVars,
                   dialogVars, menuVars, hRefresh, tableVars, listVars>>

\* A later close waits for the thread whose handle hScan is now.
CloseWaits ==
    /\ ui = "closing"
    /\ quitting
    /\ hLocal' = hScan
    /\ ui' = "wait"
    /\ UNCHANGED <<quit_posted, threadVars, scanVars, timerVars, dialogVars,
                   menuVars, hRefresh, tableVars, listVars>>

\* Mutant: a break after the wait instead of the fall through.
WaitReturns_Breaks ==
    /\ ui = "wait"
    /\ hLocal' = NULL
    /\ ui' = "loop"
    /\ UNCHANGED <<quit_posted, threadVars, scanVars, timerVars, dialogVars,
                   menuVars, hRefresh, tableVars, listVars>>

\* WaitForSingleObject returns, and WM_CLOSE falls through to WM_DESTROY.
WaitReturns ==
    /\ ui = "wait"
    /\ hLocal' = NULL
    /\ quit_posted' = TRUE
    /\ ui' = "loop"
    /\ UNCHANGED <<threadVars, scanVars, timerVars, dialogVars, menuVars,
                   hRefresh, tableVars, listVars>>

ThreadEnded == hLocal # NULL => thread[hLocal] = "free"

WaitSignalled == WaitReturns /\ ThreadEnded

\* The wait ends after 5000 ms with the thread still running.
WaitTimesOut == WaitReturns /\ ~ThreadEnded

\* GetMessage returns WM_QUIT, WinMain cleans up and returns.
ExitLoop ==
    /\ UiPumps
    /\ quit_posted
    /\ ~security_box
    /\ ui' = "exited"
    /\ UNCHANGED <<hLocal, quit_posted, threadVars, scanVars, timerVars, dialogVars,
                   menuVars, hRefresh, tableVars, listVars>>

-----------------------------------------------------------------------------
(* The scan thread up to the terminal call of ProcessSessionInfo.           *)

MoveTo(t, pc) == thread' = [thread EXCEPT ![t] = pc]

\* ScanThread clears the table it will fill.
ThreadStarts(t) ==
    /\ thread[t] = "start"
    /\ scan_count_servers' = 0
    /\ MoveTo(t, "parse")
    /\ UNCHANGED <<uiVars, scanVars, timerVars, dialogVars, menuVars, hRefresh,
                   gameinfo, listVars>>

\* Mutant: the test of MAX_SERVERS is off by one.
ServerBegins_OneTooMany(t) ==
    /\ thread[t] = "parse"
    /\ iContinueScan
    /\ scan_count_servers <= MAX_SERVERS
    /\ scan_count_servers' = scan_count_servers + 1
    /\ gameinfo' = [s \in Slots |-> IF s = scan_count_servers + 1 THEN "filling" ELSE gameinfo[s]]
    /\ UNCHANGED <<uiVars, threadVars, scanVars, timerVars, dialogVars, menuVars,
                   hRefresh, listVars>>

\* The first key of a server whose index is the next one.
ServerBegins(t) ==
    /\ thread[t] = "parse"
    /\ iContinueScan
    /\ scan_count_servers < MAX_SERVERS
    /\ scan_count_servers' = scan_count_servers + 1
    /\ gameinfo' = [gameinfo EXCEPT ![scan_count_servers + 1] = "filling"]
    /\ UNCHANGED <<uiVars, threadVars, scanVars, timerVars, dialogVars, menuVars,
                   hRefresh, listVars>>

\* The key marked KVI_STATUS_LAST; a server may end without one.
ServerLast(t) ==
    /\ thread[t] = "parse"
    /\ iContinueScan
    /\ scan_count_servers > 0
    /\ gameinfo[scan_count_servers] = "filling"
    /\ gameinfo' = [gameinfo EXCEPT ![scan_count_servers] = "done"]
    /\ MoveTo(t, "row")
    /\ UNCHANGED <<uiVars, scanVars, timerVars, dialogVars, menuVars, hRefresh,
                   scan_count_servers, listVars>>

\* GameInfoToRow and SetGeneralStatus send messages to the UI thread.
RowInserted(t) ==
    /\ thread[t] = "row"
    /\ UiPumps
    /\ hGameList' = hGameList \cup {scan_count_servers}
    /\ MoveTo(t, "parse")
    /\ UNCHANGED <<uiVars, scanVars, timerVars, dialogVars, menuVars, hRefresh,
                   tableVars, pSelectedGameInfo, pSelectedPlayerInfo>>

\* The callback sees iContinueScan = 0 and returns 1, which ends the parse with
\* KVI_STATUS_ERROR and no box.
ScanCancelled(t) ==
    /\ thread[t] = "parse"
    /\ ~iContinueScan
    /\ MoveTo(t, "end")
    /\ UNCHANGED <<uiVars, scanVars, timerVars, dialogVars, menuVars, hRefresh,
                   tableVars, listVars>>

\* KVI_STATUS_COMPLETE.
ScanCompletes(t) ==
    /\ thread[t] = "parse"
    /\ EmptyScans \/ hGameList # {}
    /\ MoveTo(t, "end")
    /\ UNCHANGED <<uiVars, scanVars, timerVars, dialogVars, menuVars, hRefresh,
                   tableVars, listVars>>

\* A network, file, syntax or index error: KVI_STATUS_ERROR and a MessageBox
\* owned by the main window.
ScanFails(t) ==
    /\ thread[t] = "parse"
    /\ iContinueScan
    /\ MoveTo(t, "errbox")
    /\ UNCHANGED <<uiVars, scanVars, timerVars, dialogVars, menuVars, hRefresh,
                   tableVars, listVars>>

\* The box needs its owner's thread to open and to close.
DismissError(t) ==
    /\ thread[t] = "errbox"
    /\ UiPumps
    /\ MoveTo(t, "end")
    /\ UNCHANGED <<uiVars, scanVars, timerVars, dialogVars, menuVars, hRefresh,
                   tableVars, listVars>>

-----------------------------------------------------------------------------
(* EndScan, on the scan thread.                                             *)

\* if (hScan) CloseHandle(hScan)
EndClosesHandle(t) ==
    /\ thread[t] = "end"
    /\ MoveTo(t, IF hScan # NULL THEN "null" ELSE "quitcheck")
    /\ UNCHANGED <<uiVars, scanVars, timerVars, dialogVars, menuVars, hRefresh,
                   tableVars, listVars>>

\* Mutant: the handle is closed but hScan not reset.
EndNullsHandle_KeepsHandle(t) ==
    /\ thread[t] = "null"
    /\ MoveTo(t, "quitcheck")
    /\ UNCHANGED <<uiVars, scanVars, timerVars, dialogVars, menuVars, hRefresh,
                   tableVars, listVars>>

\* hScan = NULL: from here a new scan may begin while this thread goes on.
EndNullsHandle(t) ==
    /\ thread[t] = "null"
    /\ hScan' = NULL
    /\ MoveTo(t, "quitcheck")
    /\ UNCHANGED <<uiVars, iContinueScan, quitting, timerVars, dialogVars,
                   menuVars, hRefresh, tableVars, listVars>>

\* "User tried to quit during scan"
EndTestsQuitting(t) ==
    /\ thread[t] = "quitcheck"
    /\ MoveTo(t, IF quitting THEN "sendclose" ELSE "menu")
    /\ UNCHANGED <<uiVars, scanVars, timerVars, dialogVars, menuVars, hRefresh,
                   tableVars, listVars>>

\* SendMessage(WM_CLOSE): the handler runs on the UI thread.
EndSendsClose(t) ==
    /\ thread[t] = "sendclose"
    /\ UiPumps
    /\ CloseHandler
    /\ MoveTo(t, "free")
    /\ UNCHANGED <<scanVars, timerVars, dialogVars, menuVars, hRefresh,
                   tableVars, listVars>>

\* UpdateContextMenu on the scan thread, as UiReadsMenu and UiAppendsMenu.
EndReadsMenu(t) ==
    /\ thread[t] = "menu"
    /\ hMenu' = {}
    /\ item' = [item EXCEPT ![t] = MenuChoice]
    /\ MoveTo(t, "append")
    /\ UNCHANGED <<uiVars, scanVars, timerVars, dialogVars, uiItem, hRefresh,
                   tableVars, listVars>>

EndAppendsMenu(t) ==
    /\ thread[t] = "append"
    /\ hMenu' = hMenu \cup {item[t]}
    /\ item' = [item EXCEPT ![t] = "none"]
    /\ MoveTo(t, "settext")
    /\ UNCHANGED <<uiVars, scanVars, timerVars, dialogVars, uiItem, hRefresh,
                   tableVars, listVars>>

\* Button_SetText and Button_Enable send messages to the button.
EndSetsText(t) ==
    /\ thread[t] = "settext"
    /\ UiPumps
    /\ hRefresh' = [hRefresh EXCEPT !.text = "Refresh"]
    /\ MoveTo(t, "enable")
    /\ UNCHANGED <<uiVars, scanVars, timerVars, dialogVars, menuVars, tableVars, listVars>>

\* Mutant: the button is not enabled again.
EndEnablesButton_Forgets(t) ==
    /\ thread[t] = "enable"
    /\ UiPumps
    /\ MoveTo(t, "rearm")
    /\ UNCHANGED <<uiVars, scanVars, timerVars, dialogVars, menuVars, hRefresh,
                   tableVars, listVars>>

EndEnablesButton(t) ==
    /\ thread[t] = "enable"
    /\ UiPumps
    /\ hRefresh' = [hRefresh EXCEPT !.enabled = TRUE]
    /\ MoveTo(t, "rearm")
    /\ UNCHANGED <<uiVars, scanVars, timerVars, dialogVars, menuVars, tableVars, listVars>>

\* Mutant: a stopped scan does not set the timer again.
EndTestsAutoScan_UnlessStopped(t) ==
    /\ thread[t] = "rearm"
    /\ MoveTo(t, IF auto_scan /\ iContinueScan THEN "settimer" ELSE "free")
    /\ UNCHANGED <<uiVars, scanVars, timerVars, dialogVars, menuVars, hRefresh,
                   tableVars, listVars>>

\* Mutant: auto_scan is not tested.
EndTestsAutoScan_Always(t) ==
    /\ thread[t] = "rearm"
    /\ MoveTo(t, "settimer")
    /\ UNCHANGED <<uiVars, scanVars, timerVars, dialogVars, menuVars, hRefresh,
                   tableVars, listVars>>

EndTestsAutoScan(t) ==
    /\ thread[t] = "rearm"
    /\ MoveTo(t, IF auto_scan THEN "settimer" ELSE "free")
    /\ UNCHANGED <<uiVars, scanVars, timerVars, dialogVars, menuVars, hRefresh,
                   tableVars, listVars>>

\* timer_id = SetTimer(...): the timer runs before timer_id is assigned.
EndSetsTimer(t) ==
    /\ thread[t] = "settimer"
    /\ armed' = TRUE
    /\ MoveTo(t, "setid")
    /\ UNCHANGED <<uiVars, scanVars, timer_id, auto_scan,
                   auto_scan_request_while_busy, dialogVars, menuVars, hRefresh,
                   tableVars, listVars>>

EndSetsTimerId(t) ==
    /\ thread[t] = "setid"
    /\ timer_id' = TRUE
    /\ MoveTo(t, "free")
    /\ UNCHANGED <<uiVars, scanVars, armed, auto_scan,
                   auto_scan_request_while_busy, dialogVars, menuVars, hRefresh,
                   tableVars, listVars>>

-----------------------------------------------------------------------------
(* The specification.                                                       *)

\* WinMain: every field zeroed, the settings loaded, the menu built and, with
\* the AUTO_SCAN setting, WM_APP_REFRESH sent before the message loop.
Init ==
    /\ auto_scan \in BOOLEAN
    /\ ui = IF auto_scan THEN "create" ELSE "loop"
    /\ hRefresh = [text |-> IF auto_scan THEN "Stop" ELSE "Refresh", enabled |-> TRUE]
    /\ iContinueScan = auto_scan
    /\ hLocal = NULL /\ uiItem = "none" /\ quit_posted = FALSE
    /\ thread = [t \in Threads |-> "free"] /\ item = [t \in Threads |-> "none"]
    /\ hScan = NULL /\ quitting = FALSE
    /\ armed = FALSE /\ timer_id = FALSE /\ auto_scan_request_while_busy = FALSE
    /\ hInDlg = FALSE /\ pPlayer = NULL /\ security_box = FALSE
    /\ hMenu = {"Refresh"}
    /\ gameinfo = [s \in Slots |-> "empty"] /\ scan_count_servers = 0
    /\ hGameList = {} /\ pSelectedGameInfo = NULL /\ pSelectedPlayerInfo = NULL

\* What the UI thread does on its own account once it is in a handler.
UiStep ==
    \/ BeginForgetsTimer
    \/ \E t \in Threads : ThreadCreated(t)
    \/ ThreadNotCreated
    \/ AssignHandle
    \/ TimerForgotten
    \/ UiReadsMenu
    \/ UiAppendsMenu
    \/ StopDisablesButton
    \/ CloseStopsScan
    \/ CloseSetsQuitting
    \/ CloseWaits
    \/ WaitSignalled
    \/ WaitTimesOut
    \/ ExitLoop

UserStep ==
    \/ UserRefreshes
    \/ ToggleAutoScan
    \/ ApplyDelay
    \/ \E s \in Slots : SelectGame(s)
    \/ SelectPlayer
    \/ OpenRename
    \/ \E invalid_id \in BOOLEAN : CloseRename(invalid_id)
    \/ DismissSecurityBox
    \/ UserCloses

\* The steps a scan thread takes by itself ...
ThreadRuns(t) ==
    \/ ThreadStarts(t)
    \/ ServerBegins(t)
    \/ ServerLast(t)
    \/ ScanCancelled(t)
    \/ ScanCompletes(t)
    \/ ScanFails(t)
    \/ EndClosesHandle(t)
    \/ EndNullsHandle(t)
    \/ EndTestsQuitting(t)
    \/ EndReadsMenu(t)
    \/ EndAppendsMenu(t)
    \/ EndTestsAutoScan(t)
    \/ EndSetsTimer(t)
    \/ EndSetsTimerId(t)

\* ... and those that wait for the UI thread to deliver a message.
ThreadSends(t) ==
    \/ RowInserted(t)
    \/ EndSendsClose(t)
    \/ EndSetsText(t)
    \/ EndEnablesButton(t)

ThreadStep(t) == ThreadRuns(t) \/ ThreadSends(t) \/ DismissError(t)

\* The process ends when WinMain returns, and its threads with it.
Terminated == ui = "exited" /\ UNCHANGED vars

Next ==
    \/ UiStep
    \/ UserStep
    \/ TimerFires
    \/ ui # "exited" /\ \E t \in Threads : ThreadStep(t)
    \/ Terminated

Spec == Init /\ [][Next]_vars

\* The scheduler runs every thread that can run, GetMessage dispatches a sent
\* message before anything else, and the window manager keeps posting WM_TIMER
\* while the timer is set. Waits and network calls end by their timeouts; the
\* timeout of recv is one for each call, so this also assumes a host that does
\* not send bytes for ever without completing a pair, the only place where a
\* scan looks at iContinueScan. Nothing is assumed of the user, except that the
\* security box does not outlive the quit message.
Fairness ==
    /\ WF_vars(UiStep)
    /\ WF_vars(quit_posted /\ DismissSecurityBox)
    /\ \A t \in Threads : WF_vars(ui # "exited" /\ ThreadRuns(t))
    /\ \A t \in Threads : SF_vars(ui # "exited" /\ ThreadSends(t))
    /\ SF_vars(TimerFires)

FairSpec == Spec /\ Fairness

-----------------------------------------------------------------------------
(* Properties.                                                              *)

\* The steps up to hScan = NULL in EndScan: the thread owns the game table.
Scanning == {"start", "parse", "row", "errbox", "end", "null"}
\* No two threads ever scan at once: hScan is the only guard of gameinfo, the
\* scan counters and the list view, and it is tested on the UI thread but
\* cleared on the scan thread.
SingleScanner ==
    \A t1, t2 \in Threads :
        thread[t1] \in Scanning /\ thread[t2] \in Scanning => t1 = t2

\* hScan tells the handlers "Already scanning" (WM_APP_REFRESH): when it is set
\* and the UI thread is idle, a thread is scanning that will reset it.
HScanMeansScanning ==
    ui = "loop" /\ hScan # NULL => thread[hScan] \in Scanning

\* The game and player pointers the handlers dereference always designate a
\* game that is listed and that the scan thread has finished, also while a
\* scan is filling the table they point into.
SelectionListed ==
    /\ \A s \in hGameList : gameinfo[s] = "done"
    /\ pSelectedGameInfo # NULL => pSelectedGameInfo \in hGameList
    /\ pSelectedPlayerInfo # NULL => pSelectedPlayerInfo = pSelectedGameInfo

\* "List of games and players assumed not to change by the time user submits
\* new value" (WM_APP_RENAME_DLG): no step of any thread rewrites the game
\* whose player an open rename dialog edits.
DialogTargetStable ==
    [][hInDlg => gameinfo'[pPlayer] = gameinfo[pPlayer]]_vars

\* The threads that will still reach the test of auto_scan in EndScan.
WillRearm == Scanning \cup {"quitcheck", "menu", "append", "settext", "enable",
                            "rearm", "settimer"}

\* With Auto Scan on, something will scan again: the timer is set, or it waits
\* for the rename dialog, or a scan is about to begin, or a thread is still to
\* set the timer at the end of EndScan.
AutoScanNotLost ==
    auto_scan /\ ~quitting /\ ~quit_posted /\ ui # "exited" =>
        \/ armed
        \/ auto_scan_request_while_busy /\ hInDlg
        \/ ui \in {"begin", "create"}
        \/ \E t \in Threads : thread[t] \in WillRearm

\* When nothing is going on any more the button and the tray menu offer
\* Refresh, whatever the ends of overlapping scans did to them.
QuiescentUi ==
    ui = "loop" /\ hScan = NULL /\ ~quitting /\ (\A t \in Threads : thread[t] = "free") =>
        /\ hRefresh = [text |-> "Refresh", enabled |-> TRUE]
        /\ "Refresh" \in hMenu

\* "User tried to quit during scan" (EndScan): while a quit has been asked for
\* and not carried out, someone is still going to carry it out.
QuitHonoured ==
    quitting /\ ~quit_posted /\ ui # "exited" =>
        \/ ui \in {"closing", "wait"}
        \/ \E t \in Threads : thread[t] \in Scanning \cup {"quitcheck", "sendclose"}

\* A submitted rename ends with UpdatePlayerList, which dereferences
\* pSelectedGameInfo: the list it was opened from is still there, also when the
\* security box kept the handler waiting.
RenameListStays == security_box => pSelectedGameInfo # NULL

\* A scan the user or a close has stopped ends, unless an error box is already
\* up and waits for the user (or the host drips, see Fairness).
StopEnds ==
    hScan # NULL /\ ~iContinueScan
        ~> \/ hScan = NULL \/ ui = "exited" \/ \E t \in Threads : thread[t] = "errbox"

\* Once the user leaves Auto Scan on, the rename dialog closed and every box
\* dismissed, and does not quit, scans begin again and again.
AutoScanRecurs ==
    /\ <>[](auto_scan /\ ~hInDlg /\ ~quitting /\ ~quit_posted)
    /\ []<>(\A t \in Threads : thread[t] # "errbox")
    => []<>(ui = "create")

AutoScanLeftOff ==
    /\ <>[](~auto_scan /\ ui # "exited")
    /\ []<>(\A t \in Threads : thread[t] # "errbox")

\* "Automatically Scan Every" (the label of the check box): once the user leaves
\* it off, the timer is off in the end too.
AutoScanStops == AutoScanLeftOff => <>[]~armed

\* Once the user leaves Auto Scan off, it is settled in the end: the timer is
\* off, also when EndScan had read auto_scan before and set it once more, or it
\* runs for good because its id was lost to an overlapping EndScan, the one way
\* in which AutoScanStops fails.
AutoScanSettles == AutoScanLeftOff => <>[]~armed \/ <>[](armed /\ ~timer_id)

\* A second close ends the program, whatever the scan thread does.
SecondCloseExits == (ui = "closing" /\ quitting) ~> ui = "exited"
=============================================================================

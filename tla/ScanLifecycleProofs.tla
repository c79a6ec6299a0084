------------------------- MODULE ScanLifecycleProofs -------------------------
(***************************************************************************)
(* What ScanLifecycle guarantees for any number of threads and slots. The  *)
(* central fact is HandleInv: a thread that may touch the table is the one *)
(* whose handle hScan holds, or is about to hold. It gives SingleScanner,  *)
(* and that gives every later invariant the right to reason about one      *)
(* scanning thread.                                                        *)
(***************************************************************************)
EXTENDS ScanLifecycle, TLAPS

\* The threads other than the scanner's handle-holder keep out of the table.
HandleInv ==
    /\ \A t \in Threads :
         thread[t] \in Scanning => hScan = t \/ (ui = "assign" /\ hLocal = t)
    /\ \A t \in Threads : thread[t] = "null" => hScan = t
    /\ ui \in {"begin", "create", "assign"} => hScan = NULL

\* The list is empty when a scan begins to fill gameinfo from its first slot,
\* and runs behind the slot being filled from then on.
ListInv ==
    /\ SelectionListed
    /\ ui = "create" => hGameList = {}
    /\ ui = "begin" => ~hInDlg
    /\ \A t \in Threads :
         /\ thread[t] = "start" => hGameList = {}
         /\ thread[t] \in {"parse", "row"} => \A s \in hGameList : s <= scan_count_servers
         /\ thread[t] = "row" =>
              scan_count_servers \in Slots /\ gameinfo[scan_count_servers] = "done"
    /\ hInDlg => pPlayer \in hGameList

USE ThreadsAssumption, ServersAssumption, OptionsAssumption
    DEF ThreadsAssumption, ServersAssumption, OptionsAssumption

-----------------------------------------------------------------------------
(* Type correctness.                                                        *)

LEMMA MenuChoiceType == MenuChoice \in MenuItems
  BY DEF MenuChoice, MenuItems

LEMMA TypeInit == Init => TypeOK
<1> SUFFICES ASSUME Init PROVE TypeOK
  OBVIOUS
<1>1. /\ quit_posted \in BOOLEAN /\ quitting \in BOOLEAN /\ armed \in BOOLEAN
      /\ timer_id \in BOOLEAN /\ auto_scan_request_while_busy \in BOOLEAN
      /\ hInDlg \in BOOLEAN /\ security_box \in BOOLEAN
      /\ iContinueScan \in BOOLEAN /\ auto_scan \in BOOLEAN
  BY Zenon DEF Init
<1>2. hRefresh \in [text : {"Refresh", "Stop"}, enabled : BOOLEAN]
  BY DEF Init
<1>3. QED
  BY <1>1, <1>2 DEF Init, TypeOK, Slots, MenuItems

LEMMA UiStepType == TypeOK /\ UiStep => TypeOK'
<1> SUFFICES ASSUME TypeOK, UiStep PROVE TypeOK'
  OBVIOUS
<1> USE MenuChoiceType DEF TypeOK, vars, uiVars, threadVars, scanVars, timerVars,
        dialogVars, menuVars, tableVars, listVars
<1>1. CASE \E t \in Threads : ThreadCreated(t)
  BY <1>1 DEF ThreadCreated
<1>2. CASE ThreadNotCreated
  BY <1>2 DEF ThreadNotCreated
<1>3. CASE AssignHandle
  BY <1>3 DEF AssignHandle
<1>4. CASE UiReadsMenu
  BY <1>4 DEF UiReadsMenu, MenuItems
<1>5. CASE UiAppendsMenu
  BY <1>5 DEF UiAppendsMenu
<1>6. CASE StopDisablesButton
  <2>1. FALSE \in BOOLEAN
    BY Zenon
  <2>2. hRefresh' \in [text : {"Refresh", "Stop"}, enabled : BOOLEAN]
    BY <1>6, <2>1 DEF StopDisablesButton
  <2> QED
    BY <1>6, <2>2 DEF StopDisablesButton
<1>7. CASE CloseStopsScan
  <2>1. iContinueScan' \in BOOLEAN
    BY <1>7, Zenon DEF CloseStopsScan
  <2> QED
    BY <1>7, <2>1 DEF CloseStopsScan
<1>8. CASE CloseSetsQuitting
  BY <1>8 DEF CloseSetsQuitting
<1>9. CASE CloseWaits
  BY <1>9 DEF CloseWaits
<1>10. CASE WaitReturns
  BY <1>10 DEF WaitReturns
<1>11. CASE ExitLoop
  BY <1>11 DEF ExitLoop
<1>12. CASE BeginForgetsTimer
  <2>1. timer_id' \in BOOLEAN /\ iContinueScan' \in BOOLEAN
    BY <1>12, Zenon DEF BeginForgetsTimer, ClearList
  <2> QED
    BY <1>12, <2>1 DEF BeginForgetsTimer, ClearList
<1>13. CASE TimerForgotten
  <2>1. timer_id' \in BOOLEAN
    BY <1>13, Zenon DEF TimerForgotten
  <2> QED
    BY <1>13, <2>1 DEF TimerForgotten
<1>14. QED
  BY <1>1, <1>2, <1>3, <1>4, <1>5, <1>6, <1>7, <1>8, <1>9, <1>10, <1>11, <1>12, <1>13
     DEF UiStep, WaitSignalled, WaitTimesOut

LEMMA BeginScanType == TypeOK /\ BeginScan => TypeOK'
<1> SUFFICES ASSUME TypeOK, BeginScan PROVE TypeOK'
  OBVIOUS
<1>1. armed' \in BOOLEAN /\ timer_id' \in BOOLEAN /\ iContinueScan' \in BOOLEAN
  BY Zenon DEF BeginScan, ClearList, KillTimer, TypeOK, scanVars
<1>2. CASE ClearList
  BY <1>1, <1>2 DEF ClearList, TypeOK, threadVars, dialogVars, menuVars, tableVars
<1>3. CASE /\ ui' = "begin"
           /\ UNCHANGED <<hLocal, quit_posted, threadVars, scanVars, auto_scan,
                          auto_scan_request_while_busy, dialogVars, menuVars,
                          hRefresh, tableVars, listVars>>
  BY <1>1, <1>3 DEF TypeOK, threadVars, scanVars, dialogVars, menuVars, tableVars, listVars
<1>4. QED
  BY <1>2, <1>3 DEF BeginScan

LEMMA StopScanType == TypeOK /\ StopScan => TypeOK'
<1> SUFFICES ASSUME TypeOK, StopScan PROVE TypeOK'
  OBVIOUS
<1>1. iContinueScan' \in BOOLEAN
  BY Zenon DEF StopScan
<1>2. QED
  BY <1>1 DEF StopScan, TypeOK, threadVars, timerVars, dialogVars, menuVars,
              tableVars, listVars

LEMMA UserStepType == TypeOK /\ (UserStep \/ TimerFires) => TypeOK'
<1> SUFFICES ASSUME TypeOK, UserStep \/ TimerFires PROVE TypeOK'
  OBVIOUS
<1> USE DEF uiVars, threadVars, scanVars, timerVars, dialogVars, menuVars,
            tableVars, listVars
<1>1. CASE Refresh
  BY <1>1, BeginScanType, StopScanType DEF Refresh
<1>2. CASE TimerDeferred
  <2>1. /\ armed' \in BOOLEAN /\ timer_id' \in BOOLEAN
        /\ auto_scan_request_while_busy' \in BOOLEAN
    BY <1>2, Zenon DEF TimerDeferred, KillTimer, TypeOK
  <2>2. QED
    BY <1>2, <2>1 DEF TimerDeferred, TypeOK
<1>3. CASE ToggleAutoScan
  <2>1. armed' \in BOOLEAN /\ timer_id' \in BOOLEAN /\ auto_scan' \in BOOLEAN
    BY <1>3, Zenon DEF ToggleAutoScan, KillTimer, SetTimer, TypeOK
  <2>2. QED
    BY <1>3, <2>1 DEF ToggleAutoScan, TypeOK
<1>4. CASE ApplyDelay
  <2>1. armed' \in BOOLEAN /\ timer_id' \in BOOLEAN
    BY <1>4, Zenon DEF ApplyDelay, SetTimer
  <2>2. QED
    BY <1>4, <2>1 DEF ApplyDelay, TypeOK
<1>5. CASE \E s \in Slots : SelectGame(s)
  BY <1>5 DEF SelectGame, TypeOK
<1>6. CASE SelectPlayer
  BY <1>6 DEF SelectPlayer, TypeOK
<1>7. CASE OpenRename
  <2>1. hInDlg' \in BOOLEAN
    BY <1>7, Zenon DEF OpenRename
  <2>2. QED
    BY <1>7, <2>1 DEF OpenRename, TypeOK
<1>8. CASE \E invalid_id \in BOOLEAN : CloseRename(invalid_id)
  <2>1. /\ hInDlg' \in BOOLEAN /\ armed' \in BOOLEAN /\ timer_id' \in BOOLEAN
        /\ auto_scan_request_while_busy' \in BOOLEAN /\ security_box' \in BOOLEAN
    BY <1>8, Zenon DEF CloseRename, SetTimer, TypeOK
  <2>2. QED
    BY <1>8, <2>1 DEF CloseRename, TypeOK
<1>9. CASE DismissSecurityBox
  <2>1. security_box' \in BOOLEAN
    BY <1>9, Zenon DEF DismissSecurityBox
  <2>2. QED
    BY <1>9, <2>1 DEF DismissSecurityBox, TypeOK
<1>10. CASE UserCloses
  <2>1. quit_posted' \in BOOLEAN
    BY <1>10, Zenon DEF UserCloses, CloseHandler, TypeOK
  <2>2. QED
    BY <1>10, <2>1 DEF UserCloses, CloseHandler, TypeOK
<1>11. QED
  BY <1>1, <1>2, <1>3, <1>4, <1>5, <1>6, <1>7, <1>8, <1>9, <1>10
     DEF UserStep, UserRefreshes, TimerFires

LEMMA ThreadStepType ==
  ASSUME TypeOK, ListInv, NEW t \in Threads, ThreadStep(t)
  PROVE  TypeOK'
<1> USE DEF TypeOK, uiVars, scanVars, timerVars, dialogVars, menuVars,
            tableVars, listVars, MoveTo
<1>1. CASE ThreadStarts(t)
  BY <1>1 DEF ThreadStarts
<1>2. CASE ServerBegins(t)
  BY <1>2 DEF ServerBegins, threadVars, Slots
<1>3. CASE ServerLast(t)
  BY <1>3 DEF ServerLast, Slots
<1>4. CASE RowInserted(t)
  BY <1>4 DEF RowInserted, ListInv
<1>5. CASE ScanCancelled(t) \/ ScanCompletes(t) \/ ScanFails(t) \/ DismissError(t)
  BY <1>5 DEF ScanCancelled, ScanCompletes, ScanFails, DismissError
<1>6. CASE EndClosesHandle(t) \/ EndNullsHandle(t) \/ EndTestsQuitting(t) \/ EndTestsAutoScan(t)
  BY <1>6 DEF EndClosesHandle, EndNullsHandle, EndTestsQuitting, EndTestsAutoScan
<1>7. CASE EndSendsClose(t)
  <2>1. quit_posted' \in BOOLEAN
    BY <1>7, Zenon DEF EndSendsClose, CloseHandler
  <2>2. QED
    BY <1>7, <2>1 DEF EndSendsClose, CloseHandler
<1>8. CASE EndReadsMenu(t)
  BY <1>8, MenuChoiceType DEF EndReadsMenu, MenuItems
<1>9. CASE EndAppendsMenu(t)
  BY <1>9 DEF EndAppendsMenu
<1>10. CASE EndSetsText(t)
  BY <1>10 DEF EndSetsText
<1>11. CASE EndEnablesButton(t)
  <2>1. TRUE \in BOOLEAN
    BY Zenon
  <2>2. hRefresh' \in [text : {"Refresh", "Stop"}, enabled : BOOLEAN]
    BY <1>11, <2>1 DEF EndEnablesButton
  <2>3. QED
    BY <1>11, <2>2 DEF EndEnablesButton
<1>12. CASE EndSetsTimer(t) \/ EndSetsTimerId(t)
  <2>1. armed' \in BOOLEAN /\ timer_id' \in BOOLEAN
    BY <1>12, Zenon DEF EndSetsTimer, EndSetsTimerId
  <2>2. QED
    BY <1>12, <2>1 DEF EndSetsTimer, EndSetsTimerId
<1>13. QED
  BY <1>1, <1>2, <1>3, <1>4, <1>5, <1>6, <1>7, <1>8, <1>9, <1>10, <1>11, <1>12
     DEF ThreadStep, ThreadRuns, ThreadSends

LEMMA TypeNext == TypeOK /\ ListInv /\ [Next]_vars => TypeOK'
<1> SUFFICES ASSUME TypeOK, ListInv, [Next]_vars PROVE TypeOK'
  OBVIOUS
<1>1. CASE UNCHANGED vars
  BY <1>1 DEF TypeOK, vars, uiVars, threadVars, scanVars, timerVars, dialogVars,
              menuVars, tableVars, listVars
<1>2. QED
  BY <1>1, UiStepType, UserStepType, ThreadStepType DEF Next, Terminated

-----------------------------------------------------------------------------
(* The handle of the scanning thread.                                       *)

LEMMA HandleInit == Init => HandleInv
  BY DEF Init, HandleInv, Scanning

LEMMA HandleUiStep == TypeOK /\ HandleInv /\ UiStep => HandleInv'
<1> SUFFICES ASSUME TypeOK, HandleInv, UiStep PROVE HandleInv'
  OBVIOUS
<1> USE DEF HandleInv, Scanning, TypeOK, threadVars, scanVars
<1>1. CASE \E t \in Threads : ThreadCreated(t)
  BY <1>1 DEF ThreadCreated
<1>2. CASE ThreadNotCreated
  BY <1>2 DEF ThreadNotCreated
<1>3. CASE AssignHandle
  BY <1>3 DEF AssignHandle
<1>4. CASE UiReadsMenu \/ UiAppendsMenu \/ StopDisablesButton
  BY <1>4 DEF UiReadsMenu, UiAppendsMenu, StopDisablesButton
<1>5. CASE CloseStopsScan \/ CloseSetsQuitting \/ CloseWaits
  BY <1>5 DEF CloseStopsScan, CloseSetsQuitting, CloseWaits
<1>6. CASE WaitReturns \/ ExitLoop
  BY <1>6 DEF WaitReturns, ExitLoop, UiPumps
<1>7. CASE BeginForgetsTimer \/ TimerForgotten
  BY <1>7 DEF BeginForgetsTimer, ClearList, TimerForgotten
<1>8. QED
  BY <1>1, <1>2, <1>3, <1>4, <1>5, <1>6, <1>7 DEF UiStep, WaitSignalled, WaitTimesOut

LEMMA HandleUserStep == TypeOK /\ HandleInv /\ (UserStep \/ TimerFires) => HandleInv'
<1> SUFFICES ASSUME TypeOK, HandleInv, UserStep \/ TimerFires PROVE HandleInv'
  OBVIOUS
<1>a. ui = "loop"
  BY DEF UserStep, TimerFires, UserRefreshes, ToggleAutoScan, ApplyDelay, SelectGame,
         SelectPlayer, OpenRename, CloseRename, DismissSecurityBox, UserCloses,
         UserMayAct, MainWindowEnabled, UiPumps
<1>1. CASE Refresh
  BY <1>1, <1>a DEF Refresh, BeginScan, ClearList, StopScan, HandleInv, Scanning, TypeOK,
                    threadVars, scanVars
<1>2. CASE UserCloses
  BY <1>2, <1>a DEF UserCloses, CloseHandler, HandleInv, Scanning, TypeOK, threadVars, scanVars
<1>3. CASE ui' \in {"loop", "forget"} /\ UNCHANGED <<hLocal, threadVars, scanVars>>
  BY <1>3, <1>a DEF HandleInv, threadVars, scanVars
<1>4. QED
  BY <1>a, <1>1, <1>2, <1>3
     DEF UserStep, TimerFires, TimerDeferred, UserRefreshes, ToggleAutoScan, ApplyDelay,
         SelectGame, SelectPlayer, OpenRename, CloseRename, DismissSecurityBox, uiVars

LEMMA HandleThreadStep ==
  ASSUME TypeOK, HandleInv, NEW t \in Threads, ThreadStep(t)
  PROVE  HandleInv'
<1> USE DEF HandleInv, Scanning, TypeOK, uiVars, scanVars, threadVars, MoveTo
<1>1. CASE ThreadStarts(t) \/ ServerBegins(t) \/ ServerLast(t) \/ RowInserted(t)
  BY <1>1 DEF ThreadStarts, ServerBegins, ServerLast, RowInserted
<1>2. CASE ScanCancelled(t) \/ ScanCompletes(t) \/ ScanFails(t) \/ DismissError(t)
  BY <1>2 DEF ScanCancelled, ScanCompletes, ScanFails, DismissError
<1>3. CASE EndClosesHandle(t)
  BY <1>3 DEF EndClosesHandle
<1>4. CASE EndNullsHandle(t)
  BY <1>4 DEF EndNullsHandle
<1>5. CASE EndTestsQuitting(t) \/ EndTestsAutoScan(t) \/ EndReadsMenu(t) \/ EndAppendsMenu(t)
  BY <1>5 DEF EndTestsQuitting, EndTestsAutoScan, EndReadsMenu, EndAppendsMenu
<1>6. CASE EndSendsClose(t)
  BY <1>6 DEF EndSendsClose, CloseHandler, UiPumps
<1>7. CASE EndSetsText(t) \/ EndEnablesButton(t) \/ EndSetsTimer(t) \/ EndSetsTimerId(t)
  BY <1>7 DEF EndSetsText, EndEnablesButton, EndSetsTimer, EndSetsTimerId
<1>8. QED
  BY <1>1, <1>2, <1>3, <1>4, <1>5, <1>6, <1>7 DEF ThreadStep, ThreadRuns, ThreadSends

LEMMA HandleNext == TypeOK /\ HandleInv /\ [Next]_vars => HandleInv'
<1> SUFFICES ASSUME TypeOK, HandleInv, [Next]_vars PROVE HandleInv'
  OBVIOUS
<1>1. CASE UNCHANGED vars
  BY <1>1 DEF HandleInv, vars, uiVars, threadVars, scanVars
<1>2. QED
  BY <1>1, HandleUiStep, HandleUserStep, HandleThreadStep DEF Next, Terminated

LEMMA HandleSingle == TypeOK /\ HandleInv => SingleScanner
  BY DEF TypeOK, HandleInv, SingleScanner

-----------------------------------------------------------------------------
(* The list, the selection and the rename dialog.                           *)

LEMMA ListInit == Init => ListInv
  BY DEF Init, ListInv, SelectionListed, Slots

\* Only these fields matter to ListInv, and a step that keeps them and starts
\* no scan keeps it.
LEMMA ListFrame ==
  ASSUME ListInv, UNCHANGED <<tableVars, listVars, hInDlg, pPlayer>>,
         ui' \in {"begin", "create"} => ui' = ui,
         \A t \in Threads :
             thread'[t] \in {"start", "parse", "row"} => thread'[t] = thread[t]
  PROVE  ListInv'
  BY DEF ListInv, SelectionListed, tableVars, listVars, Slots

LEMMA ListUiStep == TypeOK /\ HandleInv /\ ListInv /\ UiStep => ListInv'
<1> SUFFICES ASSUME TypeOK, HandleInv, ListInv, UiStep PROVE ListInv'
  OBVIOUS
<1>1. CASE \E t \in Threads : ThreadCreated(t)
  BY <1>1 DEF ThreadCreated, ListInv, SelectionListed, TypeOK, tableVars, listVars, dialogVars
<1>2. CASE /\ UNCHANGED <<threadVars, dialogVars, tableVars, listVars>>
           /\ ui' \notin {"begin", "create"}
  BY <1>2, ListFrame DEF threadVars, dialogVars
<1>3. CASE BeginForgetsTimer
  BY <1>3 DEF BeginForgetsTimer, ClearList, HandleInv, Scanning, ListInv, SelectionListed,
              TypeOK, threadVars, dialogVars, tableVars
<1>4. QED
  BY <1>1, <1>2, <1>3
     DEF UiStep, TimerForgotten, ThreadNotCreated, AssignHandle, UiReadsMenu, UiAppendsMenu,
         StopDisablesButton, CloseStopsScan, CloseSetsQuitting, CloseWaits, WaitReturns,
         WaitSignalled, WaitTimesOut, ExitLoop

LEMMA ListUserStep == TypeOK /\ HandleInv /\ ListInv /\ (UserStep \/ TimerFires) => ListInv'
<1> SUFFICES ASSUME TypeOK, HandleInv, ListInv, UserStep \/ TimerFires PROVE ListInv'
  OBVIOUS
<1> USE DEF uiVars, threadVars, dialogVars, tableVars, listVars
<1>1. CASE Refresh
  <2>1. CASE StopScan
    BY <2>1, ListFrame DEF StopScan
  <2>2. CASE hScan = NULL /\ ~hInDlg /\ ClearList
    BY <2>2 DEF ClearList, ListInv, SelectionListed, HandleInv, Scanning, TypeOK
  <2>3. CASE /\ ~hInDlg /\ ui' = "begin"
             /\ UNCHANGED <<threadVars, dialogVars, tableVars, listVars>>
    BY <2>3 DEF ListInv, SelectionListed, Slots
  <2>4. QED
    BY <1>1, <2>1, <2>2, <2>3 DEF Refresh, BeginScan
<1>2. CASE TimerDeferred \/ ToggleAutoScan \/ ApplyDelay \/ DismissSecurityBox
  BY <1>2, ListFrame DEF TimerDeferred, ToggleAutoScan, ApplyDelay, DismissSecurityBox
<1>3. CASE \E s \in Slots : SelectGame(s)
  BY <1>3 DEF SelectGame, ListInv, SelectionListed
<1>4. CASE SelectPlayer
  BY <1>4 DEF SelectPlayer, ListInv, SelectionListed
<1>5. CASE OpenRename
  BY <1>5 DEF OpenRename, MainWindowEnabled, UserMayAct, ListInv, SelectionListed
<1>6. CASE \E invalid_id \in BOOLEAN : CloseRename(invalid_id)
  BY <1>6 DEF CloseRename, ListInv, SelectionListed
<1>7. CASE UserCloses
  BY <1>7, ListFrame DEF UserCloses, CloseHandler
<1>8. QED
  BY <1>1, <1>2, <1>3, <1>4, <1>5, <1>6, <1>7 DEF UserStep, UserRefreshes, TimerFires

LEMMA ListThreadStep ==
  ASSUME TypeOK, HandleInv, ListInv, NEW t \in Threads, ThreadStep(t)
  PROVE  ListInv'
<1> USE DEF uiVars, threadVars, dialogVars, tableVars, listVars, MoveTo
<1>a. \A u \in Threads : thread[u] \in Scanning /\ thread[t] \in Scanning => u = t
  BY HandleSingle DEF SingleScanner
<1>1. CASE ThreadStarts(t)
  BY <1>1, <1>a DEF ThreadStarts, ListInv, SelectionListed, TypeOK, Scanning
<1>2. CASE ServerBegins(t)
  BY <1>2, <1>a DEF ServerBegins, ListInv, SelectionListed, TypeOK, Scanning, Slots
<1>3. CASE ServerLast(t)
  BY <1>3, <1>a DEF ServerLast, ListInv, SelectionListed, TypeOK, Scanning, Slots
<1>4. CASE RowInserted(t)
  BY <1>4, <1>a DEF RowInserted, ListInv, SelectionListed, TypeOK, Scanning, Slots, UiPumps
<1>5. CASE EndSendsClose(t)
  BY <1>5, ListFrame DEF EndSendsClose, CloseHandler, TypeOK
<1>6. CASE /\ UNCHANGED <<uiVars, dialogVars, tableVars, listVars>>
           /\ \A u \in Threads :
                thread'[u] \in {"start", "parse", "row"} => thread'[u] = thread[u]
  BY <1>6, ListFrame
<1>7. ASSUME \/ ScanCancelled(t) \/ ScanCompletes(t) \/ ScanFails(t) \/ DismissError(t)
             \/ EndClosesHandle(t) \/ EndNullsHandle(t) \/ EndTestsQuitting(t)
             \/ EndReadsMenu(t) \/ EndAppendsMenu(t) \/ EndSetsText(t) \/ EndEnablesButton(t)
             \/ EndTestsAutoScan(t) \/ EndSetsTimer(t) \/ EndSetsTimerId(t)
      PROVE  ListInv'
  <2>1. UNCHANGED <<uiVars, dialogVars, tableVars, listVars>>
    BY <1>7 DEF ScanCancelled, ScanCompletes, ScanFails, DismissError, EndClosesHandle,
         EndNullsHandle, EndTestsQuitting, EndReadsMenu, EndAppendsMenu, EndSetsText,
         EndEnablesButton, EndTestsAutoScan, EndSetsTimer, EndSetsTimerId
  <2>2. \E pc : /\ pc \notin {"start", "parse", "row"}
                /\ thread' = [thread EXCEPT ![t] = pc]
    BY <1>7 DEF ScanCancelled, ScanCompletes, ScanFails, DismissError, EndClosesHandle,
         EndNullsHandle, EndTestsQuitting, EndReadsMenu, EndAppendsMenu, EndSetsText,
         EndEnablesButton, EndTestsAutoScan, EndSetsTimer, EndSetsTimerId
  <2>3. QED
    BY <2>1, <2>2, <1>6 DEF TypeOK
<1>8. QED
  BY <1>1, <1>2, <1>3, <1>4, <1>5, <1>7 DEF ThreadStep, ThreadRuns, ThreadSends

LEMMA ListNext == TypeOK /\ HandleInv /\ ListInv /\ [Next]_vars => ListInv'
<1> SUFFICES ASSUME TypeOK, HandleInv, ListInv, [Next]_vars PROVE ListInv'
  OBVIOUS
<1>1. CASE UNCHANGED vars
  BY <1>1, ListFrame DEF vars, uiVars, threadVars, dialogVars
<1>2. QED
  BY <1>1, ListUiStep, ListUserStep, ListThreadStep DEF Next, Terminated

-----------------------------------------------------------------------------
(* The theorems.                                                            *)

IndInv == TypeOK /\ HandleInv /\ ListInv

LEMMA Induction == Spec => []IndInv
<1>1. Init => IndInv
  BY TypeInit, HandleInit, ListInit DEF IndInv
<1>2. IndInv /\ [Next]_vars => IndInv'
  BY TypeNext, HandleNext, ListNext DEF IndInv
<1>3. QED
  BY <1>1, <1>2, PTL DEF Spec

\* Every variable keeps its type; in particular the menu entry about to be
\* appended has been chosen, and no index leaves gameinfo.
THEOREM TypeCorrect == Spec => []TypeOK
<1>1. IndInv => TypeOK
  BY DEF IndInv
<1>2. QED
  BY <1>1, Induction, PTL

\* At most one thread scans, however many are still in the tail of EndScan:
\* the test of hScan in WM_APP_REFRESH suffices to keep a new scan off the
\* table of a running one.
THEOREM OneScanAtATime == Spec => []SingleScanner
<1>1. IndInv => SingleScanner
  BY HandleSingle DEF IndInv
<1>2. QED
  BY <1>1, Induction, PTL

\* The pointers the handlers of the list boxes and of the rename dialog
\* dereference designate a listed, completely read game.
THEOREM SelectionIsListed == Spec => []SelectionListed
<1>1. IndInv => SelectionListed
  BY DEF IndInv, ListInv
<1>2. QED
  BY <1>1, Induction, PTL

\* The assumption stated in WM_APP_RENAME_DLG holds while the dialog is open.
THEOREM DialogTargetIsStable == Spec => DialogTargetStable
<1>1. IndInv /\ [Next]_vars => [hInDlg => gameinfo'[pPlayer] = gameinfo[pPlayer]]_vars
  <2> SUFFICES ASSUME IndInv, Next, hInDlg, gameinfo' # gameinfo
               PROVE  gameinfo'[pPlayer] = gameinfo[pPlayer]
    OBVIOUS
  <2>1. pPlayer \in hGameList /\ pPlayer \in Slots /\ gameinfo[pPlayer] = "done"
    BY DEF IndInv, ListInv, SelectionListed, TypeOK
  <2>2. PICK t \in Threads : ServerBegins(t) \/ ServerLast(t)
    BY DEF Next, UiStep, ThreadCreated, ThreadNotCreated, AssignHandle, UiReadsMenu,
         UiAppendsMenu, StopDisablesButton, CloseStopsScan, CloseSetsQuitting, CloseWaits,
         WaitReturns, WaitSignalled, WaitTimesOut, ExitLoop, UserStep, UserRefreshes,
         Refresh, BeginScan, ClearList, BeginForgetsTimer, TimerForgotten, StopScan,
         TimerFires, TimerDeferred, ToggleAutoScan,
         ApplyDelay, SelectGame, SelectPlayer, OpenRename, CloseRename,
         DismissSecurityBox, UserCloses, ThreadStep, ThreadRuns, ThreadSends,
         ThreadStarts, RowInserted, ScanCancelled, ScanCompletes, ScanFails,
         DismissError, EndClosesHandle, EndNullsHandle, EndTestsQuitting, EndReadsMenu,
         EndAppendsMenu, EndSetsText, EndEnablesButton, EndTestsAutoScan, EndSetsTimer,
         EndSetsTimerId, EndSendsClose, Terminated, vars, tableVars
  <2>3. CASE ServerBegins(t)
    <3>1. pPlayer # scan_count_servers + 1
      BY <2>1, <2>3 DEF ServerBegins, IndInv, ListInv, TypeOK, Slots
    <3>2. QED
      BY <3>1, <2>1, <2>3 DEF ServerBegins, IndInv, TypeOK
  <2>4. CASE ServerLast(t)
    BY <2>1, <2>4 DEF ServerLast, IndInv, TypeOK
  <2>5. QED
    BY <2>2, <2>3, <2>4
<1>2. QED
  BY <1>1, Induction, PTL DEF Spec, DialogTargetStable

-----------------------------------------------------------------------------
(* Auto Scan, when CreateThread does not fail.                              *)

LEMMA AutoScanInit == Init => AutoScanNotLost
  BY DEF Init, AutoScanNotLost

LEMMA AutoScanUiStep ==
  ASSUME CreateThreadFails = FALSE, TypeOK, AutoScanNotLost, UiStep
  PROVE  AutoScanNotLost'
<1> USE DEF AutoScanNotLost, threadVars, scanVars, timerVars, dialogVars
<1>1. CASE \E t \in Threads : ThreadCreated(t)
  BY <1>1 DEF ThreadCreated, WillRearm, Scanning, TypeOK
<1>2. CASE ThreadNotCreated
  BY <1>2 DEF ThreadNotCreated
<1>3. CASE AssignHandle \/ UiReadsMenu \/ UiAppendsMenu \/ StopDisablesButton
  BY <1>3 DEF AssignHandle, UiReadsMenu, UiAppendsMenu, StopDisablesButton
<1>6. CASE BeginForgetsTimer
  BY <1>6, Zenon DEF BeginForgetsTimer, ClearList
<1>7. CASE TimerForgotten
  BY <1>7 DEF TimerForgotten
<1>4. CASE CloseStopsScan \/ CloseSetsQuitting \/ CloseWaits
  BY <1>4 DEF CloseStopsScan, CloseSetsQuitting, CloseWaits
<1>5. CASE WaitReturns \/ ExitLoop
  BY <1>5 DEF WaitReturns, ExitLoop
<1>8. QED
  BY <1>1, <1>2, <1>3, <1>4, <1>5, <1>6, <1>7 DEF UiStep, WaitSignalled, WaitTimesOut

LEMMA AutoScanUserStep ==
  ASSUME TypeOK, AutoScanNotLost, UserStep \/ TimerFires
  PROVE  AutoScanNotLost'
<1> USE DEF AutoScanNotLost, uiVars, threadVars, scanVars, timerVars, dialogVars
<1>a. ui = "loop"
  BY DEF UserStep, TimerFires, UserRefreshes, ToggleAutoScan, ApplyDelay, SelectGame,
         SelectPlayer, OpenRename, CloseRename, DismissSecurityBox, UserCloses,
         UserMayAct, MainWindowEnabled, UiPumps
<1>1. CASE Refresh
  <2>1. CASE BeginScan
    BY <2>1, Zenon DEF BeginScan, ClearList
  <2>2. CASE StopScan
    BY <2>2, <1>a DEF StopScan
  <2>3. QED
    BY <1>1, <2>1, <2>2 DEF Refresh
<1>2. CASE TimerDeferred
  BY <1>2 DEF TimerDeferred
<1>3. CASE ToggleAutoScan \/ ApplyDelay
  BY <1>3 DEF ToggleAutoScan, ApplyDelay, SetTimer, KillTimer
<1>4. CASE \/ \E s \in Slots : SelectGame(s)
           \/ SelectPlayer \/ OpenRename \/ DismissSecurityBox
  BY <1>4 DEF SelectGame, SelectPlayer, OpenRename, DismissSecurityBox
<1>5. CASE \E invalid_id \in BOOLEAN : CloseRename(invalid_id)
  BY <1>5 DEF CloseRename, SetTimer
<1>6. CASE UserCloses
  BY <1>6 DEF UserCloses, CloseHandler, UserMayAct
<1>7. QED
  BY <1>1, <1>2, <1>3, <1>4, <1>5, <1>6 DEF UserStep, UserRefreshes, TimerFires

\* A thread stays among those that will set the timer until it has done so or
\* has seen auto_scan off or quitting on.
LEMMA AutoScanThreadStep ==
  ASSUME TypeOK, AutoScanNotLost, NEW t \in Threads, ThreadStep(t), ui # "exited"
  PROVE  AutoScanNotLost'
<1> USE DEF AutoScanNotLost, TypeOK, uiVars, threadVars, scanVars, timerVars,
            dialogVars, MoveTo, WillRearm, Scanning
<1>1. CASE ThreadStarts(t) \/ ServerBegins(t) \/ ServerLast(t) \/ RowInserted(t)
  BY <1>1 DEF ThreadStarts, ServerBegins, ServerLast, RowInserted
<1>2. CASE ScanCancelled(t) \/ ScanCompletes(t) \/ ScanFails(t) \/ DismissError(t)
  BY <1>2 DEF ScanCancelled, ScanCompletes, ScanFails, DismissError
<1>3. CASE EndClosesHandle(t) \/ EndNullsHandle(t) \/ EndTestsQuitting(t)
  BY <1>3 DEF EndClosesHandle, EndNullsHandle, EndTestsQuitting
<1>4. CASE EndReadsMenu(t) \/ EndAppendsMenu(t) \/ EndSetsText(t) \/ EndEnablesButton(t)
  BY <1>4 DEF EndReadsMenu, EndAppendsMenu, EndSetsText, EndEnablesButton
<1>5. CASE EndSendsClose(t)
  BY <1>5 DEF EndSendsClose, CloseHandler, UiPumps
<1>6. CASE EndTestsAutoScan(t) \/ EndSetsTimer(t) \/ EndSetsTimerId(t)
  BY <1>6 DEF EndTestsAutoScan, EndSetsTimer, EndSetsTimerId
<1>7. QED
  BY <1>1, <1>2, <1>3, <1>4, <1>5, <1>6 DEF ThreadStep, ThreadRuns, ThreadSends

\* With Auto Scan on, the timer chain is never broken: not by the rename
\* dialog, not by Stop, not by an error, not by overlapping scans.
THEOREM AutoScanIsNotLost ==
  CreateThreadFails = FALSE => (Spec => []AutoScanNotLost)
<1> SUFFICES ASSUME CreateThreadFails = FALSE PROVE Spec => []AutoScanNotLost
  OBVIOUS
<1>1. IndInv /\ AutoScanNotLost /\ [Next]_vars => AutoScanNotLost'
  <2> SUFFICES ASSUME TypeOK, AutoScanNotLost, [Next]_vars PROVE AutoScanNotLost'
    BY DEF IndInv
  <2>1. CASE UNCHANGED vars
    BY <2>1 DEF AutoScanNotLost, vars, uiVars, threadVars, scanVars, timerVars, dialogVars
  <2>2. QED
    BY <2>1, AutoScanUiStep, AutoScanUserStep, AutoScanThreadStep DEF Next, Terminated
<1>2. QED
  BY <1>1, AutoScanInit, Induction, PTL DEF Spec

-----------------------------------------------------------------------------
(* hScan, when every scan that completes has listed a game.                 *)

\* Until its handle is assigned a thread gets no further than its first
\* message to the UI thread, which is busy in BeginScan.
AssignInv ==
    /\ ui \in {"create", "assign"} => iContinueScan /\ hGameList = {}
    /\ ui = "assign" /\ hLocal # NULL =>
         thread[hLocal] \in {"start", "parse", "row", "errbox"}
    /\ hScan # NULL => thread[hScan] \in Scanning

LEMMA AssignInit == Init => AssignInv
  BY DEF Init, AssignInv

LEMMA AssignUiStep ==
  ASSUME TypeOK, HandleInv, AssignInv, UiStep
  PROVE  AssignInv'
<1> USE DEF AssignInv, HandleInv, TypeOK, Scanning, threadVars, scanVars, listVars
<1>1. CASE \E t \in Threads : ThreadCreated(t)
  BY <1>1 DEF ThreadCreated
<1>2. CASE ThreadNotCreated
  BY <1>2 DEF ThreadNotCreated
<1>3. CASE AssignHandle
  BY <1>3 DEF AssignHandle
<1>4. CASE UiReadsMenu \/ UiAppendsMenu \/ StopDisablesButton
  BY <1>4 DEF UiReadsMenu, UiAppendsMenu, StopDisablesButton
<1>5. CASE CloseStopsScan \/ CloseSetsQuitting \/ CloseWaits
  BY <1>5 DEF CloseStopsScan, CloseSetsQuitting, CloseWaits
<1>6. CASE WaitReturns \/ ExitLoop
  BY <1>6 DEF WaitReturns, ExitLoop
<1>7. CASE BeginForgetsTimer \/ TimerForgotten
  BY <1>7 DEF BeginForgetsTimer, ClearList, TimerForgotten
<1>8. QED
  BY <1>1, <1>2, <1>3, <1>4, <1>5, <1>6, <1>7 DEF UiStep, WaitSignalled, WaitTimesOut

LEMMA AssignUserStep ==
  ASSUME TypeOK, AssignInv, UserStep \/ TimerFires
  PROVE  AssignInv'
<1> USE DEF AssignInv, uiVars, threadVars, scanVars, listVars
<1>a. ui = "loop"
  BY DEF UserStep, TimerFires, UserRefreshes, ToggleAutoScan, ApplyDelay, SelectGame,
         SelectPlayer, OpenRename, CloseRename, DismissSecurityBox, UserCloses,
         UserMayAct, MainWindowEnabled, UiPumps
<1>1. CASE Refresh
  BY <1>1, <1>a DEF Refresh, BeginScan, ClearList, StopScan
<1>2. CASE UserCloses
  BY <1>2, <1>a DEF UserCloses, CloseHandler
<1>3. CASE ui' \in {"loop", "forget"} /\ UNCHANGED <<hLocal, threadVars, scanVars>>
  BY <1>3, <1>a
<1>4. QED
  BY <1>a, <1>1, <1>2, <1>3
     DEF UserStep, TimerFires, TimerDeferred, UserRefreshes, ToggleAutoScan, ApplyDelay,
         SelectGame, SelectPlayer, OpenRename, CloseRename, DismissSecurityBox

LEMMA AssignThreadStep ==
  ASSUME EmptyScans = FALSE, TypeOK, HandleInv, AssignInv, NEW t \in Threads, ThreadStep(t)
  PROVE  AssignInv'
<1> USE DEF AssignInv, HandleInv, TypeOK, Scanning, uiVars, scanVars, threadVars,
            listVars, MoveTo
<1>1. CASE ThreadStarts(t) \/ ServerBegins(t) \/ ServerLast(t)
  BY <1>1 DEF ThreadStarts, ServerBegins, ServerLast
<1>2. CASE RowInserted(t) \/ DismissError(t)
  BY <1>2 DEF RowInserted, DismissError, UiPumps
<1>3. CASE ScanCancelled(t) \/ ScanCompletes(t) \/ ScanFails(t)
  BY <1>3 DEF ScanCancelled, ScanCompletes, ScanFails
<1>4. CASE EndClosesHandle(t)
  BY <1>4 DEF EndClosesHandle
<1>5. CASE EndNullsHandle(t)
  BY <1>5 DEF EndNullsHandle
<1>6. CASE EndTestsQuitting(t) \/ EndTestsAutoScan(t) \/ EndReadsMenu(t) \/ EndAppendsMenu(t)
  BY <1>6 DEF EndTestsQuitting, EndTestsAutoScan, EndReadsMenu, EndAppendsMenu
<1>7. CASE EndSendsClose(t)
  BY <1>7 DEF EndSendsClose, CloseHandler, UiPumps
<1>8. CASE EndSetsText(t) \/ EndEnablesButton(t) \/ EndSetsTimer(t) \/ EndSetsTimerId(t)
  BY <1>8 DEF EndSetsText, EndEnablesButton, EndSetsTimer, EndSetsTimerId
<1>9. QED
  BY <1>1, <1>2, <1>3, <1>4, <1>5, <1>6, <1>7, <1>8 DEF ThreadStep, ThreadRuns, ThreadSends

\* hScan is never left over from a scan that has ended, provided no scan
\* completes without a message to the UI thread: the assignment of hScan in
\* BeginScan then always comes before the test of hScan in EndScan.
THEOREM HandleIsLive == EmptyScans = FALSE => (Spec => []HScanMeansScanning)
<1> SUFFICES ASSUME EmptyScans = FALSE PROVE Spec => []HScanMeansScanning
  OBVIOUS
<1>1. IndInv /\ AssignInv /\ [Next]_vars => AssignInv'
  <2> SUFFICES ASSUME TypeOK, HandleInv, AssignInv, [Next]_vars PROVE AssignInv'
    BY DEF IndInv
  <2>1. CASE UNCHANGED vars
    BY <2>1 DEF AssignInv, vars, uiVars, threadVars, scanVars, listVars
  <2>2. QED
    BY <2>1, AssignUiStep, AssignUserStep, AssignThreadStep DEF Next, Terminated
<1>2. AssignInv => HScanMeansScanning
  BY DEF AssignInv, HScanMeansScanning
<1>3. QED
  BY <1>1, <1>2, AssignInit, Induction, PTL DEF Spec

-----------------------------------------------------------------------------
(* The button and the tray menu, when nothing is going on any more.         *)

\* The threads in EndScan that are still to set the text of the button.
WillSetText == {"quitcheck", "menu", "append", "settext"}

\* Whoever puts the user interface into a state other than that of Refresh
\* leaves someone behind who will undo it: a scan in hScan, or a thread of a
\* scan in the tail of EndScan. A thread does not get from one to the other
\* unseen, and a quit is final.
ButtonInv ==
    /\ \/ hRefresh.text = "Refresh" \/ quitting \/ hScan # NULL
       \/ ui \in {"create", "assign"}
       \/ \E t \in Threads : thread[t] \in WillSetText
    /\ \/ hRefresh.enabled = TRUE \/ quitting \/ hScan # NULL
       \/ \E t \in Threads : thread[t] \in WillSetText \cup {"enable"}
    /\ ui \in {"stop_menu", "stop_append", "stop_disable"} =>
         \/ quitting \/ hScan # NULL
         \/ \E t \in Threads : thread[t] \in WillSetText

\* Between the new menu of one thread and its entry another thread may have
\* made a newer one: the entry counts where it arrives.
MenuInv ==
    \/ "Refresh" \in hMenu \/ quitting \/ hScan # NULL
    \/ ui \in {"append", "stop_append"} /\ uiItem = "Refresh"
    \/ \E t \in Threads : \/ thread[t] \in {"quitcheck", "menu"}
                          \/ thread[t] = "append" /\ item[t] = "Refresh"

UiInv == ButtonInv /\ MenuInv

LEMMA UiInvInit == Init => UiInv
  BY DEF Init, UiInv, ButtonInv, MenuInv

\* Most steps touch nothing of this.
LEMMA UiInvFrame ==
  ASSUME UiInv, UNCHANGED <<hScan, uiItem, item, hMenu, hRefresh>>, quitting => quitting',
         ui' = ui \/ (ui \notin {"create", "assign", "append", "stop_append"}
                        /\ ui' \notin {"stop_menu", "stop_append", "stop_disable"}),
         \A t \in Threads : thread[t] \in WillSetText \cup {"enable"} => thread'[t] = thread[t]
  PROVE  UiInv'
<1>1. ButtonInv'
  BY DEF UiInv, ButtonInv, WillSetText
<1>2. MenuInv'
  BY DEF UiInv, MenuInv, WillSetText
<1>3. QED
  BY <1>1, <1>2 DEF UiInv

LEMMA UiInvUiStep == TypeOK /\ HandleInv /\ UiInv /\ UiStep => UiInv'
<1> SUFFICES ASSUME TypeOK, HandleInv, UiInv, UiStep PROVE UiInv'
  OBVIOUS
<1> USE DEF threadVars, scanVars, menuVars
<1>1. CASE \E t \in Threads : ThreadCreated(t)
  <2>1. PICK t \in Threads : ThreadCreated(t)
    BY <1>1
  <2>2. \A u \in Threads : thread[u] # "free" => thread'[u] = thread[u]
    BY <2>1 DEF ThreadCreated, TypeOK
  <2>3. QED
    BY <2>1, <2>2 DEF ThreadCreated, UiInv, ButtonInv, MenuInv, WillSetText
<1>2. CASE ThreadNotCreated
  BY <1>2 DEF ThreadNotCreated, UiInv, ButtonInv, MenuInv, WillSetText
<1>3. CASE AssignHandle
  BY <1>3 DEF AssignHandle, HandleInv, TypeOK, UiInv, ButtonInv, MenuInv, WillSetText
<1>4. CASE UiReadsMenu
  BY <1>4 DEF UiReadsMenu, MenuChoice, UiInv, ButtonInv, MenuInv, WillSetText
<1>5. CASE UiAppendsMenu
  BY <1>5 DEF UiAppendsMenu, UiInv, ButtonInv, MenuInv, WillSetText
<1>6. CASE StopDisablesButton
  BY <1>6 DEF StopDisablesButton, TypeOK, UiInv, ButtonInv, MenuInv, WillSetText
<1>7. CASE CloseStopsScan \/ CloseSetsQuitting \/ CloseWaits \/ WaitReturns \/ ExitLoop
  BY <1>7, UiInvFrame
     DEF CloseStopsScan, CloseSetsQuitting, CloseWaits, WaitReturns, ExitLoop, UiPumps
<1>8. CASE BeginForgetsTimer
  BY <1>8 DEF BeginForgetsTimer, ClearList, TypeOK, UiInv, ButtonInv, MenuInv, WillSetText
<1>9. CASE TimerForgotten
  BY <1>9, UiInvFrame DEF TimerForgotten
<1>10. QED
  BY <1>1, <1>2, <1>3, <1>4, <1>5, <1>6, <1>7, <1>8, <1>9 DEF UiStep, WaitSignalled, WaitTimesOut

LEMMA UiInvUserStep == TypeOK /\ UiInv /\ (UserStep \/ TimerFires) => UiInv'
<1> SUFFICES ASSUME TypeOK, UiInv, UserStep \/ TimerFires PROVE UiInv'
  OBVIOUS
<1> USE DEF uiVars, threadVars, scanVars, menuVars
<1>a. ui = "loop"
  BY DEF UserStep, TimerFires, UserRefreshes, ToggleAutoScan, ApplyDelay, SelectGame,
         SelectPlayer, OpenRename, CloseRename, DismissSecurityBox, UserCloses,
         UserMayAct, MainWindowEnabled, UiPumps
<1>1. CASE BeginScan
  <2>1. CASE ClearList
    BY <2>1, <1>a DEF ClearList, TypeOK, UiInv, ButtonInv, MenuInv, WillSetText
  <2>2. CASE ui' = "begin" /\ UNCHANGED <<threadVars, scanVars, menuVars, hRefresh>>
    BY <2>2, <1>a, UiInvFrame
  <2>3. QED
    BY <1>1, <2>1, <2>2 DEF BeginScan
<1>2. CASE StopScan
  BY <1>2, <1>a DEF StopScan, UiInv, ButtonInv, MenuInv, WillSetText
<1>3. CASE UserCloses
  BY <1>3, <1>a, UiInvFrame DEF UserCloses, CloseHandler
<1>4. CASE /\ ui' \in {"loop", "forget"}
           /\ UNCHANGED <<threadVars, scanVars, menuVars, hRefresh>>
  BY <1>4, <1>a, UiInvFrame
<1>5. QED
  BY <1>a, <1>1, <1>2, <1>3, <1>4
     DEF UserStep, TimerFires, TimerDeferred, UserRefreshes, Refresh, ToggleAutoScan,
         ApplyDelay, SelectGame, SelectPlayer, OpenRename, CloseRename, DismissSecurityBox

LEMMA UiInvThreadStep ==
  ASSUME TypeOK, HandleInv, UiInv, NEW t \in Threads, ThreadStep(t)
  PROVE  UiInv'
<1> USE DEF uiVars, scanVars, menuVars, MoveTo
<1>1. CASE ThreadStarts(t) \/ ServerBegins(t) \/ ServerLast(t) \/ RowInserted(t)
  BY <1>1, UiInvFrame
     DEF ThreadStarts, ServerBegins, ServerLast, RowInserted, TypeOK, WillSetText, threadVars
<1>2. CASE ScanCancelled(t) \/ ScanCompletes(t) \/ ScanFails(t) \/ DismissError(t)
  BY <1>2, UiInvFrame
     DEF ScanCancelled, ScanCompletes, ScanFails, DismissError, TypeOK, WillSetText
<1>3. CASE EndClosesHandle(t)
  BY <1>3 DEF EndClosesHandle, TypeOK, UiInv, ButtonInv, MenuInv, WillSetText
<1>4. CASE EndNullsHandle(t)
  <2>1. thread'[t] = "quitcheck" /\ hRefresh' = hRefresh
    BY <1>4 DEF EndNullsHandle, TypeOK
  <2>2. QED
    BY <1>4, <2>1 DEF EndNullsHandle, UiInv, ButtonInv, MenuInv, WillSetText
<1>5. CASE EndTestsQuitting(t)
  BY <1>5 DEF EndTestsQuitting, TypeOK, UiInv, ButtonInv, MenuInv, WillSetText
<1>6. CASE EndSendsClose(t)
  BY <1>6, UiInvFrame DEF EndSendsClose, CloseHandler, UiPumps, TypeOK, WillSetText
<1>7. CASE EndReadsMenu(t)
  BY <1>7 DEF EndReadsMenu, MenuChoice, TypeOK, UiInv, ButtonInv, MenuInv, WillSetText
<1>8. CASE EndAppendsMenu(t)
  BY <1>8 DEF EndAppendsMenu, TypeOK, UiInv, ButtonInv, MenuInv, WillSetText
<1>9. CASE EndSetsText(t)
  BY <1>9 DEF EndSetsText, UiPumps, TypeOK, UiInv, ButtonInv, MenuInv, WillSetText
<1>10. CASE EndEnablesButton(t)
  BY <1>10 DEF EndEnablesButton, UiPumps, TypeOK, UiInv, ButtonInv, MenuInv, WillSetText
<1>11. CASE EndTestsAutoScan(t) \/ EndSetsTimer(t) \/ EndSetsTimerId(t)
  BY <1>11, UiInvFrame DEF EndTestsAutoScan, EndSetsTimer, EndSetsTimerId, TypeOK, WillSetText
<1>12. QED
  BY <1>1, <1>2, <1>3, <1>4, <1>5, <1>6, <1>7, <1>8, <1>9, <1>10, <1>11
     DEF ThreadStep, ThreadRuns, ThreadSends

\* Whatever the ends of overlapping scans, the Stop branch, failed threads and
\* stale handles did to the button and the menu, with no scan and no thread left
\* both offer Refresh.
THEOREM QuiescentUiIsRight == Spec => []QuiescentUi
<1>1. IndInv /\ UiInv /\ [Next]_vars => UiInv'
  <2> SUFFICES ASSUME TypeOK, HandleInv, UiInv, [Next]_vars PROVE UiInv'
    BY DEF IndInv
  <2>1. CASE UNCHANGED vars
    BY <2>1, UiInvFrame DEF vars, uiVars, threadVars, scanVars, menuVars
  <2>2. QED
    BY <2>1, UiInvUiStep, UiInvUserStep, UiInvThreadStep DEF Next, Terminated
<1>2. TypeOK /\ UiInv => QuiescentUi
  <2> SUFFICES ASSUME TypeOK, UiInv, ui = "loop", hScan = NULL, ~quitting,
                      \A t \in Threads : thread[t] = "free"
               PROVE  hRefresh = [text |-> "Refresh", enabled |-> TRUE] /\ "Refresh" \in hMenu
    BY DEF QuiescentUi
  <2>1. hRefresh.text = "Refresh" /\ hRefresh.enabled = TRUE
    BY DEF UiInv, ButtonInv, WillSetText
  <2>2. "Refresh" \in hMenu
    BY DEF UiInv, MenuInv
  <2>3. QED
    BY <2>1, <2>2 DEF TypeOK
<1>3. QED
  BY <1>1, <1>2, UiInvInit, Induction, PTL DEF Spec, IndInv
=============================================================================

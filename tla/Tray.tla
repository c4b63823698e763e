---------------------------------- MODULE Tray ----------------------------------
(***************************************************************************)
(* Where the window of the XBT Client is (src/Client/XBT ClientDlg.cpp,      *)
(* src/Client/XBT Client.cpp): shown or hidden, and how it is reached: by    *)
(* its icon in the tray, by its hot key, or by starting the program once     *)
(* more.  It starts hidden when the user wants that, hides when it is        *)
(* minimised, by the Escape key, and 30 seconds after another program was     *)
(* activated.  Its server runs in a thread from the start to the end.        *)
(*                                                                         *)
(* The shell is outside: it keeps the icon while it runs, forgets it when    *)
(* it crashes, and tells all windows when it is back.  A modal dialog (the   *)
(* options, a question) does not keep timers from running.                  *)
(***************************************************************************)
EXTENDS Naturals

CONSTANTS
  IdleTime,  \* the time of timer 2: 30 s
  MaxStarts  \* bound: starts of the program, and of the shell

VARIABLES
  is_up,                   \* the program runs
  visible, iconic, active,
  m_initial_hide, m_hide_on_deactivate, m_show_tray_icon,
  timer,                \* time left of timer 2, or None
  profile,              \* the options saved: start_minimized, hide_on_deactivate, show_tray_icon
  hot_key,              \* the hot key is registered
  options,              \* the options dialog is open
  shell, icon,          \* the shell runs; the icon it shows is there
  server,               \* the server's thread runs
  starts

vars == <<is_up, visible, iconic, active, m_initial_hide, m_hide_on_deactivate, m_show_tray_icon, timer,
          profile, hot_key, options, shell, icon, server, starts>>
place == <<visible, iconic>>
settings == <<m_hide_on_deactivate, m_show_tray_icon, profile>>
outside == <<shell, starts>>

None == IdleTime + 1
Choices == [start_minimized : BOOLEAN, hide_on_deactivate : BOOLEAN, show_tray_icon : BOOLEAN]

-----------------------------------------------------------------------------
(* Start and end.                                                          *)

\* NIM_ADD: there is one icon for the window, however often it is added.
register_tray(wanted) == icon' = (icon \/ (wanted /\ shell))
unregister_tray == icon' = FALSE
update_icon(wanted) == IF wanted THEN register_tray(wanted) ELSE unregister_tray

\* The system asks for the window to be shown once the dialog has been set up; OnWindowPosChanging
\* refuses that until the first timer.
OnInitDialog ==
  /\ ~is_up /\ starts < MaxStarts /\ starts' = starts + 1 /\ is_up' = TRUE /\ server' = TRUE
  /\ m_initial_hide' = profile.start_minimized /\ visible' = ~m_initial_hide'
  /\ iconic' = FALSE /\ active' = ~m_initial_hide' /\ timer' = None /\ options' = FALSE
  /\ m_hide_on_deactivate' = profile.hide_on_deactivate
  /\ m_show_tray_icon' = profile.show_tray_icon /\ register_tray(m_show_tray_icon')
  /\ hot_key' = TRUE /\ UNCHANGED <<profile, shell>>

OnDestroy ==
  /\ is_up /\ ~options /\ is_up' = FALSE /\ server' = FALSE /\ unregister_tray
  /\ visible' = FALSE /\ hot_key' = FALSE /\ timer' = None /\ active' = FALSE
  /\ UNCHANGED <<iconic, m_initial_hide, settings, options, outside>>
\* The end of the user's session stops the server, also when the session goes on after all.
OnEndSession(ending) ==
  /\ is_up /\ server' = FALSE /\ is_up' = ~ending
  /\ IF ending THEN /\ visible' = FALSE /\ icon' = FALSE /\ hot_key' = FALSE /\ timer' = None
                    /\ active' = FALSE /\ options' = FALSE
     ELSE UNCHANGED <<visible, icon, hot_key, timer, active, options>>
  /\ UNCHANGED <<iconic, m_initial_hide, settings, outside>>

\* While the window is to start hidden a request to show it is refused.
ShowWindow == visible' = ~m_initial_hide
HideWindow == visible' = FALSE

-----------------------------------------------------------------------------
(* Timers, and other programs.                                             *)

\* Timers 0 and 1 run all the time.
OnTimer ==
  /\ is_up /\ m_initial_hide /\ m_initial_hide' = FALSE
  /\ UNCHANGED <<is_up, visible, iconic, active, settings, timer, hot_key, options, icon, server, outside>>
Second ==
  /\ is_up /\ timer \in 1..IdleTime /\ timer' = timer - 1
  /\ UNCHANGED <<is_up, place, active, m_initial_hide, settings, hot_key, options, icon, server, outside>>
OnTimer2 ==
  /\ is_up /\ timer = 0 /\ timer' = None /\ HideWindow /\ m_initial_hide' = FALSE
  /\ UNCHANGED <<is_up, iconic, active, settings, hot_key, options, icon, server, outside>>

\* SetTimer starts a timer that runs already anew.
activated == IF m_hide_on_deactivate THEN None ELSE timer
left_alone == IF m_hide_on_deactivate THEN IdleTime ELSE timer
OnActivateApp(a) ==
  /\ is_up /\ a # active /\ active' = a /\ (a => visible)
  /\ timer' = IF a THEN activated ELSE left_alone
  /\ UNCHANGED <<is_up, place, m_initial_hide, settings, hot_key, options, icon, server, outside>>
\* A window that is shown is brought to the front.
to_front ==
  IF visible' THEN active' = TRUE /\ timer' = IF active THEN timer ELSE activated
  ELSE UNCHANGED <<active, timer>>

-----------------------------------------------------------------------------
(* The user.                                                               *)

toggled ==
  /\ IF visible THEN HideWindow ELSE ShowWindow
  /\ to_front /\ UNCHANGED <<is_up, iconic, m_initial_hide, settings, hot_key, options, icon, server, outside>>
OnHotKey == is_up /\ hot_key /\ toggled
OnTray == is_up /\ icon /\ shell /\ toggled

\* A second program finds the first one's window, shows it and ends.
SecondStart ==
  /\ is_up /\ ShowWindow /\ iconic' = (iconic /\ m_initial_hide) /\ to_front
  /\ UNCHANGED <<is_up, m_initial_hide, settings, hot_key, options, icon, server, outside>>

Escape ==
  /\ is_up /\ visible /\ active /\ ~options /\ HideWindow
  /\ UNCHANGED <<is_up, iconic, active, m_initial_hide, settings, timer, hot_key, options, icon, server, outside>>
\* Without an icon a window is minimised as others are.
OnSysCommandMinimize ==
  /\ is_up /\ visible /\ ~iconic /\ ~options
  /\ IF m_show_tray_icon THEN HideWindow /\ UNCHANGED iconic ELSE iconic' = TRUE /\ UNCHANGED visible
  /\ UNCHANGED <<is_up, active, m_initial_hide, settings, timer, hot_key, options, icon, server, outside>>
Restore ==
  /\ is_up /\ visible /\ iconic /\ iconic' = FALSE
  /\ UNCHANGED <<is_up, visible, active, m_initial_hide, settings, timer, hot_key, options, icon, server, outside>>

OnPopupViewTrayIcon ==
  /\ is_up /\ visible /\ ~options
  /\ m_show_tray_icon' = ~profile.show_tray_icon
  /\ profile' = [profile EXCEPT !.show_tray_icon = m_show_tray_icon']
  /\ update_icon(m_show_tray_icon')
  /\ UNCHANGED <<is_up, place, active, m_initial_hide, m_hide_on_deactivate, timer, hot_key, options, server, outside>>

\* The hot key can be entered in the dialog, so it is given up as long as it is open.
OnToolsOptions ==
  /\ is_up /\ visible /\ active /\ ~options /\ options' = TRUE /\ hot_key' = FALSE
  /\ UNCHANGED <<is_up, place, active, m_initial_hide, settings, timer, icon, server, outside>>
OptionsCancel ==
  /\ options /\ active /\ options' = FALSE /\ hot_key' = TRUE
  /\ UNCHANGED <<is_up, place, active, m_initial_hide, settings, timer, icon, server, outside>>
OptionsOK(c) ==
  /\ options /\ active /\ options' = FALSE /\ hot_key' = TRUE /\ profile' = c
  /\ m_hide_on_deactivate' = c.hide_on_deactivate /\ m_show_tray_icon' = c.show_tray_icon
  /\ update_icon(c.show_tray_icon)
  /\ UNCHANGED <<is_up, place, active, m_initial_hide, timer, server, outside>>

-----------------------------------------------------------------------------
(* The shell.                                                              *)

ShellCrash ==
  /\ shell /\ shell' = FALSE /\ icon' = FALSE
  /\ UNCHANGED <<is_up, place, active, m_initial_hide, settings, timer, hot_key, options, server, starts>>
OnTaskbarCreated ==
  /\ ~shell /\ starts < MaxStarts /\ starts' = starts + 1 /\ shell' = TRUE
  /\ icon' = (is_up /\ m_show_tray_icon)
  /\ UNCHANGED <<is_up, place, active, m_initial_hide, settings, timer, hot_key, options, server>>

Init ==
  /\ is_up = FALSE /\ visible = FALSE /\ iconic = FALSE /\ active = FALSE /\ m_initial_hide = FALSE
  /\ m_hide_on_deactivate = FALSE /\ m_show_tray_icon = FALSE /\ timer = None
  /\ profile \in Choices /\ hot_key = FALSE /\ options = FALSE
  /\ shell = TRUE /\ icon = FALSE /\ server = FALSE /\ starts = 0
Next ==
  \/ OnInitDialog \/ OnDestroy \/ OnTimer \/ Second \/ OnTimer2 \/ OnHotKey \/ OnTray \/ SecondStart
  \/ Escape \/ OnSysCommandMinimize \/ Restore \/ OnPopupViewTrayIcon \/ OnToolsOptions \/ OptionsCancel
  \/ ShellCrash \/ OnTaskbarCreated
  \/ \E b \in BOOLEAN : OnEndSession(b) \/ OnActivateApp(b)
  \/ \E c \in Choices : OptionsOK(c)
Spec == Init /\ [][Next]_vars

-----------------------------------------------------------------------------
(* Properties.                                                             *)

\* The icon is there when the user wants it, whatever became of the shell and wherever the wish was
\* changed; and a window without an icon can be brought back by its hot key, which is given up only
\* while the options are open.
IconAsWanted ==
  /\ is_up /\ shell => (icon <=> m_show_tray_icon)
  /\ is_up => hot_key \/ options
  /\ ~is_up => ~icon

\* The window never hides by itself under the hands of the user: the timer that does so runs only
\* after another program was activated, and never for a user who has turned it off; and a window
\* that is to start hidden is not seen before the first timer.
HidesWhenLeft == is_up =>
  /\ timer # None => ~active /\ m_hide_on_deactivate
  /\ m_initial_hide => ~visible
  /\ m_show_tray_icon = profile.show_tray_icon /\ m_hide_on_deactivate = profile.hide_on_deactivate
===============================================================================

---------------------------- MODULE AppSettings ----------------------------
(***************************************************************************)
(* Settings that follow the system.  The notification permission: offered  *)
(* once when playback first starts, asked of the system, changed behind    *)
(* the app's back in the phone's settings.  The screen that stays on while *)
(* something is practised: a flag of the activity's window, which a        *)
(* recreated activity loses, derived from stores and from the mixer, which *)
(* has no store and is polled.  The night mode, which a recreated activity *)
(* resets.                                                                 *)
(***************************************************************************)
EXTENDS Naturals, Sequences

CONSTANTS MaxChanges, MaxRuns   \* bounds: changes from outside, processes

VARIABLES
  active,     \* the app is in the foreground and its listeners have heard so
  settings,   \* the Settings screen has the focus
  os,         \* the phone's permission: "granted", "denied" or "blocked"
  granted,    \* the store's: "unknown", "yes" or "no"
  ask, stored,      \* the store's, and the preference
  prompting, offered,
  checks,     \* permission checks under way, first asked first
  asking,     \* a request under way: "none", "dialog" or "answered"
  away,       \* the phone's own settings page is open
  practised,  \* what the stores say: a running metronome, a listening tuner
  open, playing,    \* a player's song is ready; the mixer plays
  wanted,     \* "keep the screen awake"
  kept,       \* what was last asked of the window
  flag,       \* the window's flag
  night, theme,     \* the window's night mode and the chosen one
  dirty,      \* ghost: the mixer started or stopped and no poll has seen it
  offers,     \* ghost: prompts shown by this process
  overtaken,    \* ghost: the offer's check was answered over the row's request
  changes, runs     \* what is left of the bounds

askVars   == <<os, granted, ask, stored, prompting, offered, checks, asking, away, offers, overtaken>>
awakeVars == <<practised, open, playing, wanted, kept, flag, dirty>>
nightVars == <<night, theme>>
lifeVars  == <<active, settings>>
appVars == <<askVars, awakeVars, nightVars, lifeVars, changes, runs>>

-----------------------------------------------------------------------------
(* The notification permission.                                            *)

\* What the row's press would do: nothing until the answer is known.
notificationAction ==
  IF granted # "no" THEN "none"
    ELSE IF ask = "asked" THEN "openSettings" ELSE "request"

\* The row is drawn with what is known.
notificationRow == [value |-> granted, action |-> notificationAction]

Check(why) == checks' = Append(checks, why)

\* Mutant: the row keeps what was last answered.
refreshNot == checks' = IF granted = "unknown" THEN <<"refresh">> ELSE checks
refresh == Check("refresh")

remember(value) == ask' = value /\ stored' = value

\* Playback starts: the offer is made once, and never after an answer.
\* Mutant: what was declined before is offered again.
offerableAgain == ~offered
offerable == ~offered /\ ask = "never"

playbackStarted ==
  /\ offerable /\ Len(checks) < 2
  /\ offered' = TRUE
  /\ Check("offer")
  /\ overtaken' = (asking # "none")
  /\ UNCHANGED <<os, granted, ask, stored, prompting, asking, away, offers>>

\* A check is answered with what the phone says.
Checked ==
  /\ checks # <<>>
  /\ checks' = Tail(checks)
  /\ granted' = IF os = "granted" THEN "yes" ELSE "no"
  /\ IF Head(checks) = "offer" /\ os # "granted"
       THEN prompting' = TRUE /\ offers' = offers + 1
       ELSE prompting' = (prompting /\ Head(checks) # "offer") /\ UNCHANGED offers
  /\ IF Head(checks) = "offer" /\ os = "granted"
       THEN remember("asked") ELSE UNCHANGED <<ask, stored>>
  /\ UNCHANGED <<os, offered, asking, away, overtaken>>

\* The system's dialog takes the app out of the foreground; a blocked
\* permission is answered at once.
request == asking' = IF os = "denied" THEN "dialog" ELSE "answered"

NotificationPromptSheet ==
  /\ prompting /\ active
  /\ prompting' = FALSE
  /\ \/ request /\ UNCHANGED <<ask, stored>>
     \/ remember("declined") /\ UNCHANGED asking
  /\ UNCHANGED <<os, granted, offered, checks, away, offers, overtaken>>

openNotificationSettings == away' = TRUE

NotificationsRow ==
  /\ settings /\ active /\ ~prompting /\ asking = "none"
  /\ CASE notificationRow.action = "request" -> request /\ UNCHANGED away
       [] notificationRow.action = "openSettings" ->
            openNotificationSettings /\ UNCHANGED asking
       [] OTHER -> FALSE
  /\ overtaken' = (overtaken \/ \E i \in 1..Len(checks) : checks[i] = "offer")
  /\ UNCHANGED <<os, granted, ask, stored, prompting, offered, checks, offers>>

\* The user answers the dialog.
Dialog ==
  /\ asking = "dialog" /\ asking' = "answered"
  /\ os' \in {"granted", "denied", "blocked"}
  /\ UNCHANGED <<granted, ask, stored, prompting, offered, checks, away, offers, overtaken>>

permissionFromRequest == os

Answered ==
  /\ asking = "answered" /\ asking' = "none"
  /\ remember("asked")
  /\ granted' = IF permissionFromRequest = "granted" THEN "yes" ELSE "no"
  /\ IF permissionFromRequest = "blocked"
       THEN openNotificationSettings ELSE UNCHANGED away
  /\ UNCHANGED <<os, prompting, offered, checks, offers, overtaken>>

-----------------------------------------------------------------------------
(* The screen that stays on.                                               *)

screenStaysOn(p, o, m) == p \/ (o /\ m)

\* The window is told when the answer changes, and only then.
apply(w, p, o, m) ==
  LET on == w /\ screenStaysOn(p, o, m)
  IN  /\ kept' = on
      /\ flag' = IF on = kept THEN flag ELSE on

\* A store changes: metronome, tuner or the setting itself.
StoreChanged ==
  /\ \/ practised' = ~practised /\ UNCHANGED wanted
     \/ settings /\ wanted' = ~wanted /\ UNCHANGED practised
  /\ apply(wanted', practised', open, playing)
  /\ dirty' = FALSE
  /\ UNCHANGED <<open, playing>>

\* A song is opened or closed; while one is, the mixer is polled.
followSong ==
  /\ open' = ~open
  /\ apply(wanted, practised, open', playing)
  /\ dirty' = FALSE
  /\ UNCHANGED <<practised, playing, wanted>>

Poll ==
  /\ open
  /\ apply(wanted, practised, open, playing)
  /\ dirty' = FALSE
  /\ UNCHANGED <<practised, open, playing, wanted>>

\* The engine plays or stops on its own or by the notification's keys.
Mixer ==
  /\ open \/ playing
  /\ playing' = ~playing /\ dirty' = TRUE
  /\ UNCHANGED <<practised, open, wanted, kept, flag>>

-----------------------------------------------------------------------------
(* The app and its activity.                                               *)

\* A recreated activity starts without the window's flag.
\* Mutant: it is left without.
reapplyNothing == flag
reapply == IF kept THEN TRUE ELSE flag

keepNightMode(choice) == night' = choice

setTheme ==
  /\ settings /\ active
  /\ theme' \in {"system", "dark", "light"} \ {theme}
  /\ keepNightMode(theme')

\* Back in the foreground every listener hears so: the row while Settings
\* is mounted (under another screen too), the flag and the night mode always.
onAppForeground ==
  /\ ~active /\ asking # "dialog" /\ Len(checks) < 2
  /\ active' = TRUE /\ away' = FALSE
  /\ refresh \/ (~settings /\ UNCHANGED checks)
  /\ flag' = reapply
  /\ keepNightMode(theme)
  /\ UNCHANGED <<os, granted, ask, stored, prompting, offered, asking, offers, overtaken,
                 practised, open, playing, wanted, kept, dirty, theme, settings>>

\* It leaves by itself for a dialog or the phone's settings, or by the user.
Background ==
  /\ active /\ active' = FALSE
  /\ UNCHANGED <<askVars, awakeVars, nightVars, settings>>

\* In the background the activity may be recreated, and the user may change
\* the permission.
Outside ==
  /\ ~active
  /\ \/ /\ flag' = FALSE /\ night' = "system" /\ UNCHANGED os
     \/ /\ asking = "none"
        /\ os' \in {"granted", "denied", "blocked"} \ {os} /\ UNCHANGED <<flag, night>>
  /\ UNCHANGED <<granted, ask, stored, prompting, offered, checks, asking, away, offers, overtaken,
                 practised, open, playing, wanted, kept, dirty, theme, lifeVars>>

\* The Settings screen gets the focus: the row is read anew.
useNotificationRow ==
  /\ active /\ Len(checks) < 2
  /\ settings' = ~settings
  /\ IF settings' THEN refresh ELSE UNCHANGED checks
  /\ UNCHANGED <<os, granted, ask, stored, prompting, offered, asking, away, offers, overtaken,
                 awakeVars, nightVars, active>>

\* A new process reads the preference.
Start ==
  /\ runs < MaxRuns /\ runs' = runs + 1
  /\ ask' = stored
  /\ active' = TRUE /\ settings' = FALSE
  /\ granted' = "unknown" /\ prompting' = FALSE /\ offered' = FALSE
  /\ checks' = <<>> /\ asking' = "none" /\ away' = FALSE /\ offers' = 0 /\ overtaken' = FALSE
  /\ practised' = FALSE /\ open' = FALSE /\ playing' = FALSE
  /\ kept' = FALSE /\ flag' = FALSE /\ dirty' = FALSE
  /\ keepNightMode(theme)
  /\ UNCHANGED <<os, stored, wanted, theme, changes>>

AppInit ==
  /\ active = TRUE /\ settings = FALSE
  /\ os \in {"granted", "denied"}
  /\ granted = "unknown" /\ ask = "never" /\ stored = "never"
  /\ prompting = FALSE /\ offered = FALSE /\ checks = <<>> /\ asking = "none"
  /\ away = FALSE /\ offers = 0 /\ overtaken = FALSE
  /\ practised = FALSE /\ open = FALSE /\ playing = FALSE
  /\ wanted = TRUE /\ kept = FALSE /\ flag = FALSE /\ dirty = FALSE
  /\ night = "system" /\ theme = "system"
  /\ changes = 0 /\ runs = 1

Permission == playbackStarted \/ Checked \/ NotificationPromptSheet
                \/ NotificationsRow \/ Dialog \/ Answered
Awake == StoreChanged \/ followSong \/ Poll \/ Mixer

AppNext ==
  \/ Permission /\ UNCHANGED <<awakeVars, nightVars, lifeVars, changes, runs>>
  \/ /\ changes < MaxChanges /\ changes' = changes + 1
     /\ \/ Awake /\ UNCHANGED <<askVars, nightVars, lifeVars, runs>>
        \/ setTheme /\ UNCHANGED <<askVars, awakeVars, lifeVars, runs>>
        \/ Outside /\ UNCHANGED runs
  \/ (onAppForeground \/ Background \/ useNotificationRow) /\ UNCHANGED <<changes, runs>>
  \/ Start

AppSpec == AppInit /\ [][AppNext]_appVars

-----------------------------------------------------------------------------
(* Properties.                                                             *)

\* One offer a process, and none that stands over an answer already given,
\* but for the check that the row's own request crossed.
OfferedOnce == offers <= 1 /\ (prompting /\ ~overtaken => ask = "never")

\* With nothing under way, the row of a Settings screen in the foreground
\* says what the phone says, and its press leads somewhere when that is no.
RowTells ==
  settings /\ active /\ checks = <<>> /\ asking = "none" =>
    /\ granted = (IF os = "granted" THEN "yes" ELSE "no")
    /\ os # "granted" => notificationRow.action # "none"

\* In the foreground the window's flag and night mode are what the settings
\* and the practice ask for, but for what the next poll will see.
WindowFollows ==
  active =>
    /\ flag = kept /\ night = theme
    /\ dirty \/ kept = (wanted /\ screenStaysOn(practised, open, playing))

\* The permission is asked for once on the app's own account, its row tells
\* what the phone says, and the window is kept awake while something sounds or
\* listens (core-state notifications/, keepAwake.ts, theme).
PhoneIsFollowed == OfferedOnce /\ RowTells /\ WindowFollows
=============================================================================

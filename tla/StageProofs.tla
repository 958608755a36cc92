---------------------------- MODULE StageProofs ----------------------------
(***************************************************************************)
(* Proofs about the parts that MCStage runs in variables of their own: the *)
(* settings that follow the system, the sheets and the step keys, the      *)
(* tuner's readout, what the rig keeps and the playback card.  Each holds  *)
(* for every value of the constants the assumptions of its module allow,   *)
(* however many steps, faults and restarts there are.                      *)
(***************************************************************************)
EXTENDS AppSettings, Sheets, TunerReadout, RigRoutes, TransportCard, Integers,
        SequenceTheorems, WellFoundedInduction, TLAPS

-----------------------------------------------------------------------------
(* The app's settings. *)

AppTypes ==
  /\ os \in {"granted", "denied", "blocked"} /\ granted \in {"unknown", "yes", "no"}
  /\ asking \in {"none", "dialog", "answered"}
  /\ checks \in Seq({"offer", "refresh"}) /\ offers \in Nat
  /\ kept \in BOOLEAN /\ flag \in BOOLEAN

\* The offer is under way while its check is, or its prompt is shown.
OfferAsked == \E i \in DOMAIN checks : checks[i] = "offer"

\* It is made once, and while it is under way there is no answer yet, nor a
\* request that would bring one.
OfferInv ==
  /\ \A i, j \in DOMAIN checks : checks[i] = "offer" /\ checks[j] = "offer" => i = j
  /\ OfferAsked => offered /\ offers = 0
  /\ offers > 0 => offered /\ offers = 1
  /\ prompting => offers = 1
  /\ (OfferAsked \/ prompting) /\ ~overtaken => ask = "never" /\ asking = "none"

RowInv ==
  settings /\ active /\ checks = <<>> /\ asking = "none" =>
    granted = (IF os = "granted" THEN "yes" ELSE "no")

\* Whatever a recreated activity lost, the flag is never set for a window that is
\* not kept.
WindowInv ==
  /\ flag => kept
  /\ active => flag = kept /\ night = theme
  /\ dirty \/ kept = (wanted /\ screenStaysOn(practised, open, playing))

AppInv == AppTypes /\ OfferInv /\ RowInv /\ WindowInv

LEMMA NoChecks == <<>> \in Seq({"offer", "refresh"})
OBVIOUS

LEMMA AppInvInit == AppInit => AppInv
<1> SUFFICES ASSUME AppInit PROVE AppInv
  OBVIOUS
<1>1. checks = <<>> /\ DOMAIN checks = {}
  BY DEF AppInit
<1>2. AppTypes
  BY NoChecks DEF AppInit, AppTypes
<1>3. OfferInv
  BY <1>1 DEF AppInit, OfferInv, OfferAsked
<1>4. RowInv
  BY DEF AppInit, RowInv
<1>5. WindowInv
  BY DEF AppInit, WindowInv, screenStaysOn
<1> QED BY <1>2, <1>3, <1>4, <1>5 DEF AppInv

LEMMA AppTypesStep ==
  ASSUME AppTypes, [AppNext]_appVars
  PROVE  AppTypes'
<1> USE DEF AppTypes, appVars, askVars, awakeVars, nightVars, lifeVars
<1>1. CASE Permission /\ UNCHANGED <<awakeVars, nightVars, lifeVars, changes, runs>>
  <2>1. CASE playbackStarted
    BY <1>1, <2>1 DEF playbackStarted, Check
  <2>2. CASE Checked
    BY <1>1, <2>2 DEF Checked, remember
  <2>3. CASE NotificationPromptSheet
    BY <1>1, <2>3 DEF NotificationPromptSheet, request, remember
  <2>4. CASE NotificationsRow
    BY <1>1, <2>4 DEF NotificationsRow, request, openNotificationSettings
  <2>5. CASE Dialog
    BY <1>1, <2>5 DEF Dialog
  <2>6. CASE Answered
    BY <1>1, <2>6 DEF Answered
  <2> QED BY <1>1, <2>1, <2>2, <2>3, <2>4, <2>5, <2>6 DEF Permission
<1>2. CASE Awake /\ UNCHANGED <<askVars, nightVars, lifeVars, runs>>
  BY <1>2 DEF Awake, StoreChanged, followSong, Poll, Mixer, apply
<1>3. CASE setTheme /\ UNCHANGED <<askVars, awakeVars, lifeVars, runs>>
  BY <1>3 DEF setTheme
<1>4. CASE Outside
  BY <1>4 DEF Outside
<1>5. CASE onAppForeground
  <2>1. flag' \in BOOLEAN
    BY <1>5, Zenon DEF onAppForeground, reapply
  <2> QED BY <1>5, <2>1 DEF onAppForeground, refresh, Check
<1>6. CASE Background
  BY <1>6 DEF Background
<1>7. CASE useNotificationRow
  BY <1>7 DEF useNotificationRow, refresh, Check
<1>8. CASE Start
  BY <1>8, NoChecks DEF Start
<1>9. CASE UNCHANGED appVars
  BY <1>9
<1> QED
  BY <1>1, <1>2, <1>3, <1>4, <1>5, <1>6, <1>7, <1>8, <1>9 DEF AppNext

\* How the checks under way change: one more, one answered, or none at all.
LEMMA ChecksAsked ==
  ASSUME AppTypes, NEW why \in {"offer", "refresh"}, checks' = Append(checks, why)
  PROVE  /\ DOMAIN checks' = 1..(Len(checks) + 1) /\ DOMAIN checks = 1..Len(checks)
         /\ \A i \in DOMAIN checks : checks'[i] = checks[i]
         /\ checks'[Len(checks) + 1] = why
         /\ Len(checks) \in Nat /\ checks' # <<>>
BY DEF AppTypes

LEMMA CheckAnswered ==
  ASSUME AppTypes, checks # <<>>, checks' = Tail(checks)
  PROVE  /\ DOMAIN checks' = 1..(Len(checks) - 1) /\ DOMAIN checks = 1..Len(checks)
         /\ \A i \in DOMAIN checks' : checks'[i] = checks[i + 1]
         /\ Len(checks) \in Nat \ {0} /\ Head(checks) = checks[1]
         /\ Head(checks) \in {"offer", "refresh"}
BY DEF AppTypes

LEMMA OfferStep ==
  ASSUME AppTypes, OfferInv, [AppNext]_appVars
  PROVE  OfferInv'
<1> USE DEF appVars, askVars
<1>1. ASSUME UNCHANGED <<checks, offered, offers, prompting, overtaken, ask, asking>>
      PROVE  OfferInv'
  BY <1>1 DEF OfferInv, OfferAsked
<1>2. ASSUME UNCHANGED <<offered, offers, prompting, overtaken, ask, asking>>,
             checks' = Append(checks, "refresh")
      PROVE  OfferInv'
  <2>1. /\ DOMAIN checks' = 1..(Len(checks) + 1) /\ DOMAIN checks = 1..Len(checks)
        /\ \A i \in DOMAIN checks : checks'[i] = checks[i]
        /\ checks'[Len(checks) + 1] = "refresh" /\ Len(checks) \in Nat
    BY <1>2, ChecksAsked
  <2>2. \A i \in DOMAIN checks' :
          checks'[i] = "offer" => i \in DOMAIN checks /\ checks[i] = "offer"
    BY <2>1
  <2>3. OfferAsked' => OfferAsked
    BY <2>2 DEF OfferAsked
  <2> QED BY <1>2, <2>2, <2>3 DEF OfferInv
<1>3. CASE playbackStarted
  <2>1. ~offered /\ ~OfferAsked /\ ~(offers > 0) /\ ~prompting
    BY <1>3 DEF OfferInv, playbackStarted, offerable, AppTypes
  <2>2. checks' = Append(checks, "offer") /\ offered' = TRUE
    BY <1>3 DEF playbackStarted, Check
  <2>5. /\ DOMAIN checks' = 1..(Len(checks) + 1) /\ DOMAIN checks = 1..Len(checks)
        /\ \A i \in DOMAIN checks : checks'[i] = checks[i] /\ checks[i] # "offer"
        /\ Len(checks) \in Nat
    BY <2>1, <2>2, ChecksAsked DEF OfferAsked
  <2>6. \A i \in DOMAIN checks' : checks'[i] = "offer" => i = Len(checks) + 1
    BY <2>5
  <2>3. \A i, j \in DOMAIN checks' : checks'[i] = "offer" /\ checks'[j] = "offer" => i = j
    BY <2>6
  <2>4. /\ UNCHANGED <<offers, prompting, ask, asking>>
        /\ overtaken' = (asking # "none") /\ ask = "never"
    BY <1>3 DEF playbackStarted, offerable
  <2>7. offers' = 0
    BY <2>1, <2>4 DEF AppTypes
  <2>8. ~overtaken' => asking' = "none"
    BY <2>4
  <2> QED BY <2>1, <2>2, <2>3, <2>4, <2>7, <2>8 DEF OfferInv
<1>4. CASE Checked
  <2>1. /\ checks # <<>> /\ checks' = Tail(checks)
        /\ UNCHANGED <<offered, asking, overtaken>>
    BY <1>4 DEF Checked
  <2>6. /\ DOMAIN checks' = 1..(Len(checks) - 1) /\ DOMAIN checks = 1..Len(checks)
        /\ \A i \in DOMAIN checks' : checks'[i] = checks[i + 1]
        /\ Len(checks) \in Nat \ {0} /\ Head(checks) = checks[1]
    BY <2>1, CheckAnswered
  <2>7. /\ 1 \in DOMAIN checks
        /\ \A i \in DOMAIN checks' :
             /\ i \in Nat /\ i # 0 /\ i + 1 \in DOMAIN checks
             /\ checks'[i] = "offer" => checks[i + 1] = "offer"
    BY <2>6
  <2>2. \A i, j \in DOMAIN checks' : checks'[i] = "offer" /\ checks'[j] = "offer" => i = j
    <3> SUFFICES ASSUME NEW i \in DOMAIN checks', NEW j \in DOMAIN checks',
                        checks'[i] = "offer", checks'[j] = "offer"
                 PROVE  i = j
      OBVIOUS
    <3>1. i + 1 = j + 1
      BY <2>7 DEF OfferInv
    <3> QED BY <2>7, <3>1
  <2>3. OfferAsked' => OfferAsked
    BY <2>7 DEF OfferAsked
  <2>4. CASE Head(checks) = "offer"
    <3>5. OfferAsked
      BY <2>4, <2>6, <2>7 DEF OfferAsked
    <3>6. ASSUME NEW i \in DOMAIN checks', checks'[i] = "offer" PROVE FALSE
      <4>1. i + 1 = 1
        BY <2>4, <2>6, <2>7, <3>6 DEF OfferInv
      <4> QED BY <2>7, <4>1
    <3>1. OfferAsked /\ ~OfferAsked'
      BY <3>5, <3>6 DEF OfferAsked
    <3>2. offered /\ offers = 0 /\ ~prompting
      BY <3>1 DEF OfferInv
    <3>3. CASE os # "granted"
      <4>1. prompting' = TRUE /\ offers' = 1 /\ UNCHANGED ask
        BY <1>4, <2>4, <3>2, <3>3 DEF Checked
      <4> QED BY <2>1, <2>2, <3>1, <3>2, <4>1 DEF OfferInv
    <3>4. CASE os = "granted"
      <4>1. ~prompting' /\ offers' = 0
        BY <1>4, <2>4, <3>2, <3>4 DEF Checked
      <4> QED BY <2>1, <2>2, <3>1, <3>2, <4>1 DEF OfferInv
    <3> QED BY <3>3, <3>4
  <2>5. CASE Head(checks) # "offer"
    <3>1. UNCHANGED <<offers, ask>> /\ (prompting' <=> prompting)
      BY <1>4, <2>5 DEF Checked
    <3> QED BY <2>1, <2>2, <2>3, <3>1 DEF OfferInv
  <2> QED BY <2>4, <2>5
<1>5. CASE NotificationPromptSheet
  <2>1. ~OfferAsked /\ prompting /\ prompting' = FALSE
    BY <1>5 DEF NotificationPromptSheet, OfferInv
  <2>2. UNCHANGED <<checks, offered, offers>>
    BY <1>5 DEF NotificationPromptSheet
  <2>3. ~OfferAsked'
    BY <2>1, <2>2 DEF OfferAsked
  <2> QED BY <2>1, <2>2, <2>3 DEF OfferInv
<1>6. CASE NotificationsRow
  <2>1. /\ ~prompting /\ UNCHANGED <<checks, offered, offers, prompting, ask>>
        /\ overtaken' = (overtaken \/ \E i \in 1..Len(checks) : checks[i] = "offer")
    BY <1>6 DEF NotificationsRow
  <2>3. DOMAIN checks = 1..Len(checks)
    BY DEF AppTypes
  <2>2. OfferAsked' => overtaken'
    BY <2>1, <2>3, Zenon DEF OfferAsked
  <2> QED BY <2>1, <2>2 DEF OfferInv, OfferAsked
<1>7. CASE Dialog
  <2>1. asking # "none" /\ UNCHANGED <<checks, offered, offers, prompting, overtaken>>
    BY <1>7 DEF Dialog
  <2> QED BY <2>1 DEF OfferInv, OfferAsked
<1>8. CASE Answered
  <2>1. asking # "none" /\ UNCHANGED <<checks, offered, offers, prompting, overtaken>>
    BY <1>8 DEF Answered
  <2> QED BY <2>1 DEF OfferInv, OfferAsked
<1>9. CASE Outside
  BY <1>1, <1>9 DEF Outside
<1>10. CASE onAppForeground
  BY <1>1, <1>2, <1>10 DEF onAppForeground, refresh, Check
<1>11. CASE Background
  BY <1>1, <1>11 DEF Background
<1>12. CASE useNotificationRow
  BY <1>1, <1>2, <1>12 DEF useNotificationRow, refresh, Check
<1>13. CASE Start
  <2>1. /\ checks' = <<>> /\ DOMAIN checks' = {}
        /\ offers' = 0 /\ prompting' = FALSE
    BY <1>13 DEF Start
  <2> QED BY <2>1 DEF OfferInv, OfferAsked
<1> QED
  BY <1>1, <1>3, <1>4, <1>5, <1>6, <1>7, <1>8, <1>9, <1>10, <1>11, <1>12, <1>13
  DEF AppNext, Permission

LEMMA RowStep ==
  ASSUME AppTypes, RowInv, [AppNext]_appVars
  PROVE  RowInv'
<1> USE DEF appVars, askVars, lifeVars
<1>1. ASSUME UNCHANGED <<settings, active, checks, asking, granted, os>>
      PROVE  RowInv'
  BY <1>1 DEF RowInv
<1>2. CASE playbackStarted
  BY <1>2, ChecksAsked DEF playbackStarted, Check, RowInv
<1>3. CASE Checked
  BY <1>3 DEF Checked, RowInv
<1>4. CASE NotificationPromptSheet /\ UNCHANGED lifeVars
  BY <1>4 DEF NotificationPromptSheet, request, RowInv
<1>5. CASE NotificationsRow /\ UNCHANGED lifeVars
  BY <1>5 DEF NotificationsRow, request, RowInv
<1>6. CASE Dialog
  BY <1>6 DEF Dialog, RowInv
<1>7. CASE Answered
  BY <1>7 DEF Answered, permissionFromRequest, RowInv
<1>8. CASE Outside
  BY <1>8 DEF Outside, RowInv
<1>9. CASE onAppForeground
  BY <1>9, ChecksAsked DEF onAppForeground, refresh, Check, RowInv
<1>10. CASE Background
  BY <1>10 DEF Background, RowInv
<1>11. CASE useNotificationRow
  BY <1>11, ChecksAsked DEF useNotificationRow, refresh, Check, RowInv
<1>12. CASE Start
  BY <1>12 DEF Start, RowInv
<1> QED
  BY <1>1, <1>2, <1>3, <1>4, <1>5, <1>6, <1>7, <1>8, <1>9, <1>10, <1>11, <1>12
  DEF AppNext, Permission

LEMMA WindowStep ==
  ASSUME AppTypes, WindowInv, [AppNext]_appVars
  PROVE  WindowInv'
<1> USE DEF appVars, awakeVars, nightVars, lifeVars
<1>1. ASSUME UNCHANGED <<active, awakeVars, nightVars>>
      PROVE  WindowInv'
  BY <1>1 DEF WindowInv
<1>2. ASSUME UNCHANGED <<active, nightVars>>, apply(wanted', practised', open', playing')
      PROVE  WindowInv'
  <2>1. kept' = (wanted' /\ screenStaysOn(practised', open', playing'))
    BY <1>2, Zenon DEF apply
  <2>2. flag' = IF kept' = kept THEN flag ELSE kept'
    BY <1>2, Zenon DEF apply
  <2>3. kept' \in BOOLEAN
    BY <2>1, Zenon
  <2>4. (flag' => kept') /\ (active => flag' = kept')
    BY <2>2, <2>3 DEF WindowInv, AppTypes
  <2> QED BY <1>2, <2>1, <2>4, Zenon DEF WindowInv
<1>3. CASE Awake /\ UNCHANGED <<nightVars, lifeVars>>
  <2>1. CASE StoreChanged
    BY <1>2, <1>3, <2>1 DEF StoreChanged
  <2>2. CASE followSong
    BY <1>2, <1>3, <2>2 DEF followSong
  <2>3. CASE Poll
    BY <1>2, <1>3, <2>3 DEF Poll
  <2>4. CASE Mixer
    BY <1>3, <2>4, Zenon DEF Mixer, WindowInv
  <2> QED BY <1>3, <2>1, <2>2, <2>3, <2>4 DEF Awake
<1>4. CASE setTheme /\ UNCHANGED <<awakeVars, lifeVars>>
  BY <1>4, Zenon DEF setTheme, keepNightMode, WindowInv
<1>5. CASE Outside
  <2>1. ~active' /\ UNCHANGED <<kept, dirty, wanted, practised, open, playing>>
    BY <1>5 DEF Outside
  <2>2. flag' = FALSE \/ flag' = flag
    BY <1>5 DEF Outside
  <2>3. flag' => kept'
    BY <2>1, <2>2 DEF WindowInv
  <2>4. dirty' \/ kept' = (wanted' /\ screenStaysOn(practised', open', playing'))
    BY <2>1, Zenon DEF WindowInv
  <2> QED BY <2>1, <2>3, <2>4, Zenon DEF WindowInv
<1>6. CASE onAppForeground
  <2>1. /\ UNCHANGED <<kept, dirty, wanted, practised, open, playing>>
        /\ flag' = reapply /\ night' = theme' 
    BY <1>6 DEF onAppForeground, keepNightMode
  <2>2. flag' = kept
    BY <2>1 DEF reapply, WindowInv, AppTypes
  <2>3. flag' = kept'
    BY <2>1, <2>2
  <2>4. dirty' \/ kept' = (wanted' /\ screenStaysOn(practised', open', playing'))
    BY <2>1, Zenon DEF WindowInv
  <2>5. flag' => kept'
    BY <2>3
  <2> QED BY <2>1, <2>3, <2>4, <2>5, Zenon DEF WindowInv
<1>7. CASE Background
  BY <1>7, Zenon DEF Background, WindowInv
<1>8. CASE useNotificationRow
  BY <1>1, <1>8 DEF useNotificationRow
<1>9. CASE Start
  BY <1>9 DEF Start, WindowInv, screenStaysOn, keepNightMode
<1> QED
  BY <1>1, <1>3, <1>4, <1>5, <1>6, <1>7, <1>8, <1>9 DEF AppNext

LEMMA AppInvStep == AppInv /\ [AppNext]_appVars => AppInv'
BY AppTypesStep, OfferStep, RowStep, WindowStep DEF AppInv

LEMMA AppInvImplies == AppInv => PhoneIsFollowed
<1> SUFFICES ASSUME AppInv PROVE OfferedOnce /\ RowTells /\ WindowFollows
  BY DEF PhoneIsFollowed
<1>1. OfferedOnce
  BY DEF AppInv, OfferInv, AppTypes, OfferedOnce
<1>2. RowTells
  BY DEF AppInv, RowInv, AppTypes, RowTells, notificationRow, notificationAction
<1>3. WindowFollows
  BY Zenon DEF AppInv, WindowInv, WindowFollows
<1> QED BY <1>1, <1>2, <1>3

\* However stops, rotations, dialogs and the phone's own settings cross the app's
\* checks, the permission is offered once, its row tells what the phone says, and
\* the window follows what is practised (AppSettings's PhoneIsFollowed).
THEOREM ThePhoneIsFollowed == AppSpec => []PhoneIsFollowed
BY AppInvInit, AppInvStep, AppInvImplies, PTL DEF AppSpec

-----------------------------------------------------------------------------
(* The sheets and the step control. *)

\* No sheet lies in the stack twice.
Distinct(s) == \A i, j \in 1..Len(s) : s[i] = s[j] => i = j

SheetTypes ==
  /\ mounted \subseteq Ids /\ items \in [Ids -> Nat]
  /\ visible \in [Ids -> BOOLEAN] /\ drag \in [Ids -> Nat]
  /\ sheetSlots \in Seq(Ids) /\ timers \in Seq(Keys)

\* What is not drawn is not visible, so that no dismissal finds it open.
StackInv ==
  /\ back = sheetSlots /\ Distinct(sheetSlots)
  /\ \A id \in Ids : Contains(sheetSlots, id) <=> visible[id]
  /\ \A id \in Ids : visible[id] => id \in mounted

SheetsInv == SheetTypes /\ StackInv /\ SheetLiesFlat /\ RepeatIsHeld

LEMMA AppendContains ==
  ASSUME NEW S, NEW s \in Seq(S), NEW e \in S
  PROVE  /\ Append(s, e) \in Seq(S)
         /\ \A x : Contains(Append(s, e), x) <=> Contains(s, x) \/ x = e
         /\ Distinct(s) /\ ~Contains(s, e) => Distinct(Append(s, e))
<1>1. /\ Append(s, e) \in Seq(S) /\ Len(Append(s, e)) = Len(s) + 1 /\ Len(s) \in Nat
      /\ Append(s, e)[Len(s) + 1] = e
      /\ \A i \in 1..Len(s) : Append(s, e)[i] = s[i]
  OBVIOUS
<1>2. \A i \in 1..(Len(s) + 1) : i \in 1..Len(s) \/ i = Len(s) + 1
  BY <1>1
<1>3. \A i \in 1..Len(s) : i \in 1..(Len(s) + 1)
  BY <1>1
<1>4. Len(s) + 1 \in 1..(Len(s) + 1)
  BY <1>1
<1>5. ASSUME NEW x PROVE Contains(Append(s, e), x) <=> Contains(s, x) \/ x = e
  BY <1>1, <1>2, <1>3, <1>4, Zenon DEF Contains
<1>6. ASSUME Distinct(s), ~Contains(s, e) PROVE Distinct(Append(s, e))
  <2> SUFFICES ASSUME NEW i \in 1..(Len(s) + 1), NEW j \in 1..(Len(s) + 1),
                      Append(s, e)[i] = Append(s, e)[j]
               PROVE  i = j
    BY <1>1 DEF Distinct
  <2>1. CASE i \in 1..Len(s) /\ j \in 1..Len(s)
    BY <1>1, <1>6, <2>1 DEF Distinct
  <2>2. CASE i = Len(s) + 1 /\ j \in 1..Len(s)
    BY <1>1, <1>6, <2>2 DEF Contains
  <2>3. CASE i \in 1..Len(s) /\ j = Len(s) + 1
    BY <1>1, <1>6, <2>3 DEF Contains
  <2> QED BY <1>2, <2>1, <2>2, <2>3
<1> QED BY <1>1, <1>5, <1>6

LEMMA RemoveAtIndex ==
  ASSUME NEW S, NEW s \in Seq(S), NEW n \in 1..Len(s)
  PROVE  /\ RemoveAt(s, n) \in Seq(S) /\ Len(RemoveAt(s, n)) = Len(s) - 1
         /\ \A i \in 1..(Len(s) - 1) :
              RemoveAt(s, n)[i] = IF i < n THEN s[i] ELSE s[i + 1]
<1> DEFINE p == SubSeq(s, 1, n - 1)
           q == SubSeq(s, n + 1, Len(s))
<1>1. Len(s) \in Nat /\ \A i \in 1..Len(s) : s[i] \in S
  OBVIOUS
<1>2. /\ p \in Seq(S) /\ Len(p) = n - 1
      /\ \A i \in 1..(n - 1) : p[i] = s[i]
  BY <1>1, SubSeqProperties
<1>3. /\ q \in Seq(S) /\ Len(q) = Len(s) - n
      /\ \A i \in 1..(Len(s) - n) : q[i] = s[n + i]
  BY <1>1, SubSeqProperties
<1> HIDE DEF p, q
<1>4. /\ p \o q \in Seq(S) /\ Len(p \o q) = Len(s) - 1
      /\ \A i \in 1..(Len(s) - 1) :
           (p \o q)[i] = IF i <= n - 1 THEN p[i] ELSE q[i - (n - 1)]
  BY <1>1, <1>2, <1>3, ConcatProperties
<1>5. \A i \in 1..(Len(s) - 1) : (p \o q)[i] = IF i < n THEN s[i] ELSE s[i + 1]
  <2> SUFFICES ASSUME NEW i \in 1..(Len(s) - 1)
               PROVE  (p \o q)[i] = IF i < n THEN s[i] ELSE s[i + 1]
    OBVIOUS
  <2>1. CASE i < n
    BY <1>1, <1>2, <1>4, <2>1
  <2>2. CASE ~(i < n)
    <3>1. i - (n - 1) \in 1..(Len(s) - n) /\ n + (i - (n - 1)) = i + 1
      BY <1>1, <2>2
    <3> QED BY <1>1, <1>3, <1>4, <2>2, <3>1
  <2> QED BY <2>1, <2>2
<1> QED BY <1>4, <1>5 DEF RemoveAt, p, q

\* In a stack without duplicates the first occurrence is the only one.
LEMMA RemoveFirstContains ==
  ASSUME NEW S, NEW s \in Seq(S), NEW e, Distinct(s)
  PROVE  /\ RemoveFirst(s, e) \in Seq(S)
         /\ \A x : Contains(RemoveFirst(s, e), x) <=> Contains(s, x) /\ x # e
         /\ Distinct(RemoveFirst(s, e))
<1>1. CASE ~Contains(s, e)
  <2>1. RemoveFirst(s, e) = s
    BY <1>1 DEF RemoveFirst, Contains
  <2> QED BY <1>1, <2>1 DEF Contains
<1>2. CASE Contains(s, e)
  <2>1. PICK n \in 1..Len(s) : s[n] = e
    BY <1>2 DEF Contains
  <2>2. {i \in 1..Len(s) : s[i] = e} = {n}
    BY <2>1 DEF Distinct
  <2>3. Min({n}) = n
    BY <2>1 DEF Min
  <2>4. SelectInSeq(s, LAMBDA v : v = e) = n
    BY <2>2, <2>3 DEF SelectInSeq
  <2> DEFINE t == RemoveFirst(s, e)
  <2>5. t = RemoveAt(s, n)
    BY <2>1, <2>4 DEF RemoveFirst
  <2> HIDE DEF t
  <2>10. Len(s) \in Nat
    OBVIOUS
  <2>11. /\ RemoveAt(s, n) \in Seq(S) /\ Len(RemoveAt(s, n)) = Len(s) - 1
         /\ \A i \in 1..(Len(s) - 1) :
              RemoveAt(s, n)[i] = IF i < n THEN s[i] ELSE s[i + 1]
    BY RemoveAtIndex
  <2>6. /\ t \in Seq(S) /\ Len(t) = Len(s) - 1 /\ Len(s) \in Nat
        /\ \A i \in 1..Len(t) : t[i] = IF i < n THEN s[i] ELSE s[i + 1]
    BY <2>5, <2>10, <2>11
  <2>7. ASSUME NEW x, Contains(t, x) PROVE Contains(s, x) /\ x # e
    <3>1. PICK i \in 1..Len(t) : t[i] = x
      BY <2>7 DEF Contains
    <3>2. PICK j \in 1..Len(s) : j # n /\ s[j] = x
      <4>1. CASE i < n
        BY <2>6, <3>1, <4>1
      <4>2. CASE ~(i < n)
        <5>1. i + 1 \in 1..Len(s) /\ i + 1 # n /\ s[i + 1] = x
          BY <2>6, <3>1, <4>2
        <5> QED BY <5>1
      <4> QED BY <4>1, <4>2
    <3> QED BY <2>1, <3>2 DEF Contains, Distinct
  <2>8. ASSUME NEW x, Contains(s, x), x # e PROVE Contains(t, x)
    <3>1. PICK j \in 1..Len(s) : s[j] = x
      BY <2>8 DEF Contains
    <3>2. j # n
      BY <2>1, <2>8, <3>1
    <3>3. CASE j < n
      <4>1. j \in 1..Len(t) /\ t[j] = x
        BY <2>6, <3>1, <3>3
      <4> QED BY <4>1 DEF Contains
    <3>4. CASE j > n
      <4>1. j - 1 \in 1..Len(t) /\ ~(j - 1 < n) /\ (j - 1) + 1 = j
        BY <2>6, <3>4
      <4>2. t[j - 1] = x
        BY <2>6, <3>1, <4>1
      <4> QED BY <4>1, <4>2 DEF Contains
    <3> QED BY <2>6, <3>2, <3>3, <3>4
  <2>9. Distinct(t)
    <3> SUFFICES ASSUME NEW i \in 1..Len(t), NEW j \in 1..Len(t), t[i] = t[j]
                 PROVE  i = j
      BY DEF Distinct
    <3> DEFINE at(k) == IF k < n THEN k ELSE k + 1
    <3>1. at(i) \in 1..Len(s) /\ at(j) \in 1..Len(s)
      BY <2>6
    <3>2. t[i] = s[at(i)] /\ t[j] = s[at(j)]
      BY <2>6
    <3>3. at(i) = at(j)
      <4> HIDE DEF at
      <4> QED BY <3>1, <3>2 DEF Distinct
    <3> QED BY <2>6, <3>3
  <2> QED BY <2>6, <2>7, <2>8, <2>9 DEF t
<1> QED BY <1>1, <1>2

LEMMA SheetsInvInit == SheetsInit => SheetsInv
<1> SUFFICES ASSUME SheetsInit PROVE SheetsInv
  OBVIOUS
<1>1. <<>> \in Seq(Ids) /\ <<>> \in Seq(Keys) /\ Len(<<>>) = 0
  OBVIOUS
<1>2. SheetTypes
  BY <1>1 DEF SheetsInit, SheetTypes
<1>3. StackInv
  BY <1>1 DEF SheetsInit, StackInv, Distinct, Contains
<1>4. SheetLiesFlat
  BY DEF SheetsInit, SheetLiesFlat
<1>5. RepeatIsHeld
  BY <1>1 DEF SheetsInit, RepeatIsHeld
<1> QED BY <1>2, <1>3, <1>4, <1>5 DEF SheetsInv

\* A commit keeps the stack and Back together, whatever it commits.
LEMMA CommitKeepsStack ==
  ASSUME SheetTypes, StackInv, NEW id \in Ids, NEW count \in Nat,
         Commit(id, count), count > 0 => id \in mounted',
         mounted' = mounted \/ (mounted' = mounted \ {id} /\ count = 0)
  PROVE  /\ sheetSlots' \in Seq(Ids) /\ items' \in [Ids -> Nat]
         /\ visible' \in [Ids -> BOOLEAN] /\ drag' \in [Ids -> Nat]
         /\ StackInv'
<1> DEFINE on == count > 0
<1>1. /\ items' \in [Ids -> Nat] /\ visible' \in [Ids -> BOOLEAN]
      /\ drag' \in [Ids -> Nat]
  BY DEF Commit, Effects, SheetTypes
<1>2. /\ visible'[id] <=> on
      /\ \A k \in Ids \ {id} : visible'[k] = visible[k]
  BY DEF Commit, Effects, SheetTypes
<1>3. \A k \in Ids : visible'[k] => k \in mounted'
  BY <1>2 DEF StackInv
<1>4. /\ back' = sheetSlots' /\ sheetSlots' \in Seq(Ids) /\ Distinct(sheetSlots')
      /\ \A k \in Ids : Contains(sheetSlots', k) <=>
            IF k = id THEN on ELSE Contains(sheetSlots, k)
  <2>1. CASE on /\ ~visible[id]
    <3>1. ~Contains(sheetSlots, id)
      BY <2>1 DEF StackInv
    <3>2. sheetSlots' = Append(sheetSlots, id) /\ back' = Append(sheetSlots, id)
      BY <2>1, <3>1 DEF Commit, Effects, upsertSheet, StackInv
    <3> QED BY <2>1, <3>1, <3>2, AppendContains DEF SheetTypes, StackInv
  <2>2. CASE on /\ visible[id]
    <3>1. Contains(sheetSlots, id)
      BY <2>2 DEF StackInv
    <3>2. sheetSlots' = sheetSlots /\ back' = sheetSlots
      BY <2>2, <3>1 DEF Commit, Effects, upsertSheet, StackInv
    <3> QED BY <2>2, <3>1, <3>2 DEF SheetTypes, StackInv, Distinct, Contains
  <2>3. CASE ~on
    <3>1. sheetSlots' = RemoveFirst(sheetSlots, id)
      BY <2>3 DEF Commit, Effects, removeSheet
    <3>2. back' = RemoveFirst(sheetSlots, id)
      <4>1. CASE visible[id]
        BY <2>3, <4>1 DEF Commit, Effects, StackInv
      <4>2. CASE ~visible[id]
        <5>1. ~Contains(sheetSlots, id)
          BY <4>2 DEF StackInv
        <5> QED BY <2>3, <4>2, <5>1 DEF Commit, Effects, StackInv, RemoveFirst, Contains
      <4> QED BY <4>1, <4>2
    <3> QED BY <2>3, <3>1, <3>2, RemoveFirstContains DEF SheetTypes, StackInv
  <2> QED BY <2>1, <2>2, <2>3
<1> QED BY <1>1, <1>2, <1>3, <1>4 DEF StackInv

\* Nor does it leave a sheet hanging that nobody holds: one that opens lies
\* flat, and a prompt that goes on to its next item while it hangs is carried.
LEMMA CommitLiesFlat ==
  ASSUME SheetTypes, SheetLiesFlat, NEW id \in Ids, NEW count \in Nat,
         Commit(id, count),
         \/ ended' = ended
         \/ ended' = ended \ {id} /\ (count < items[id] \/ count = 0)
  PROVE  SheetLiesFlat'
<1>1. /\ visible'[id] <=> count > 0
      /\ \A k \in Ids \ {id} : visible'[k] = visible[k] /\ drag'[k] = drag[k]
      /\ drag'[id] = IF count > 0 /\ ~visible[id] THEN 0 ELSE drag[id]
      /\ drag[id] \in Nat
  BY DEF Commit, Effects, SheetTypes
<1> SUFFICES ASSUME NEW k \in Ids, visible'[k], held' # k
             PROVE  drag'[k] = 0 \/ k \in ended' \/ k \in carried'
  BY DEF SheetLiesFlat
<1>2. CASE k # id
  <2>1. visible[k] /\ held # k
    BY <1>1, <1>2 DEF Commit
  <2>2. k \in carried => k \in carried'
    BY <1>2 DEF Commit
  <2> QED BY <1>1, <1>2, <2>1, <2>2 DEF SheetLiesFlat
<1>3. CASE k = id
  <2>1. count > 0 /\ count # 0
    BY <1>1, <1>3
  <2>2. held # id
    BY <1>3, <2>1 DEF Commit
  <2>3. CASE ~visible[id]
    BY <1>1, <1>3, <2>1, <2>3
  <2>4. CASE visible[id]
    <3>1. id \in carried => id \in carried'
      BY <2>1 DEF Commit
    <3>2. drag[id] = 0 \/ id \in ended \/ id \in carried
      BY <2>2, <2>4 DEF SheetLiesFlat
    <3>3. CASE ended' = ended
      BY <1>1, <1>3, <2>4, <3>1, <3>2, <3>3
    <3>4. CASE count < items[id]
      <4>1. drag[id] > 0 => id \in carried'
        BY <2>1, <2>4, <3>4 DEF Commit
      <4> QED BY <1>1, <1>3, <2>4, <4>1
    <3> QED BY <2>1, <3>3, <3>4
  <2> QED BY <2>3, <2>4
<1> QED BY <1>2, <1>3

LEMMA LastOfStack ==
  ASSUME SheetTypes, StackInv, sheetSlots # <<>>
  PROVE  Last(sheetSlots) \in Ids /\ Last(sheetSlots) \in mounted
<1>1. Len(sheetSlots) \in 1..Len(sheetSlots) /\ Last(sheetSlots) \in Ids
  BY DEF SheetTypes, Last
<1>2. Contains(sheetSlots, Last(sheetSlots))
  BY <1>1 DEF Contains, Last
<1> QED BY <1>1, <1>2 DEF StackInv

\* A dismissal commits an item less.
LEMMA DismissCommits ==
  ASSUME SheetTypes, NEW id \in Ids, onDismiss(id)
  PROVE  \E count \in Nat : Commit(id, count) /\ (count < items[id] \/ count = 0)
<1>1. items[id] \in Nat
  BY DEF SheetTypes
<1>2. (IF items[id] > 0 THEN items[id] - 1 ELSE 0) \in Nat
  BY <1>1
<1>3. \/ (IF items[id] > 0 THEN items[id] - 1 ELSE 0) < items[id]
      \/ (IF items[id] > 0 THEN items[id] - 1 ELSE 0) = 0
  BY <1>1
<1> QED BY <1>2, <1>3, Zenon DEF onDismiss

LEMMA SheetStepKeeps ==
  ASSUME SheetTypes, StackInv, SheetLiesFlat, NEW id \in Ids, SheetStep(id),
         UNCHANGED timers
  PROVE  SheetTypes' /\ StackInv' /\ SheetLiesFlat'
<1>1. ASSUME NEW count \in Nat, Commit(id, count), UNCHANGED <<mounted, ended>>,
             id \in mounted
      PROVE  SheetTypes' /\ StackInv' /\ SheetLiesFlat'
  BY <1>1, CommitKeepsStack, CommitLiesFlat DEF SheetTypes
<1>2. CASE Open(id)
  <2>1. \E count \in Nat : Commit(id, count)
    BY <1>2 DEF Open, SheetTypes
  <2> QED BY <1>1, <1>2, <2>1 DEF Open
<1>3. CASE Rendered(id)
  BY <1>1, <1>3 DEF Rendered, SheetTypes
<1>4. CASE Unmount(id)
  <2>1. Commit(id, 0) /\ mounted' = mounted \ {id} /\ ended' = ended
    BY <1>4 DEF Unmount
  <2> QED BY <2>1, CommitKeepsStack, CommitLiesFlat DEF SheetTypes
<1>5. CASE Mount(id)
  BY <1>5 DEF Mount, SheetTypes, StackInv, SheetLiesFlat, Distinct, Contains
<1>6. CASE Scrim(id)
  <2>1. id \in mounted
    BY <1>6, LastOfStack DEF Scrim, OnTop
  <2> QED BY <1>1, <1>6, <2>1, DismissCommits DEF Scrim
<1>7. CASE DragUpdate(id)
  <2>1. /\ UNCHANGED <<mounted, items, visible, sheetSlots, back, ended, carried>>
        /\ held' = id /\ held \in {NoId, id}
        /\ \E y \in 0..Height : drag' = [drag EXCEPT ![id] = y]
    BY <1>7 DEF DragUpdate
  <2>2. PICK y \in 0..Height : drag' = [drag EXCEPT ![id] = y]
    BY <2>1
  <2>3. drag' \in [Ids -> Nat] /\ \A k \in Ids \ {id} : drag'[k] = drag[k]
    BY <2>2 DEF SheetTypes
  <2>4. StackInv'
    BY <2>1 DEF StackInv, Distinct, Contains
  <2>5. SheetLiesFlat'
    <3> SUFFICES ASSUME NEW k \in Ids, visible'[k], held' # k
                 PROVE  drag'[k] = 0 \/ k \in ended' \/ k \in carried'
      BY DEF SheetLiesFlat
    <3>1. k # id
      BY <2>1
    <3>2. held # k \/ k = NoId
      BY <2>1, <3>1
    <3>3. held # k
      BY <3>2, SheetAssumption DEF NoId
    <3>4. visible[k] /\ drag'[k] = drag[k] /\ ended' = ended /\ carried' = carried
      BY <2>1, <2>3, <3>1
    <3> QED BY <3>3, <3>4 DEF SheetLiesFlat
  <2> QED BY <2>1, <2>3, <2>4, <2>5 DEF SheetTypes
<1>8. CASE DragEnd(id)
  <2>1. /\ UNCHANGED <<mounted, items, visible, sheetSlots, back, carried>>
        /\ held = id /\ held' = NoId
        /\ \/ ended' = ended \union {id} /\ drag' = drag
           \/ drag' = [drag EXCEPT ![id] = 0] /\ ended' = ended
    BY <1>8 DEF DragEnd, dragEnd
  <2>2. StackInv' /\ SheetTypes'
    BY <2>1 DEF StackInv, Distinct, Contains, SheetTypes
  <2>3. SheetLiesFlat'
    BY <2>1 DEF SheetLiesFlat, SheetTypes
  <2> QED BY <2>2, <2>3
<1>9. CASE DismissScheduled(id)
  <2>1. CASE id \in mounted
    <3>1. PICK count \in Nat : Commit(id, count) /\ (count < items[id] \/ count = 0)
      BY <1>9, <2>1, DismissCommits DEF DismissScheduled
    <3>2. ended' = ended \ {id} /\ mounted' = mounted
      BY <1>9 DEF DismissScheduled
    <3> QED BY <2>1, <3>1, <3>2, CommitKeepsStack, CommitLiesFlat DEF SheetTypes
  <2>2. CASE id \notin mounted
    <3>1. /\ UNCHANGED <<mounted, items, visible, sheetSlots, back, drag, held, carried>>
          /\ ended' = ended \ {id} /\ ~visible[id]
      BY <1>9, <2>2 DEF DismissScheduled, StackInv
    <3>2. StackInv' /\ SheetTypes'
      BY <3>1 DEF StackInv, Distinct, Contains, SheetTypes
    <3>3. SheetLiesFlat'
      BY <3>1 DEF SheetLiesFlat
    <3> QED BY <3>2, <3>3
  <2> QED BY <2>1, <2>2
<1> QED BY <1>2, <1>3, <1>4, <1>5, <1>6, <1>7, <1>8, <1>9 DEF SheetStep

LEMMA KeyStepKeeps ==
  ASSUME timers \in Seq(Keys), RepeatIsHeld,
         (\E key \in Keys : KeyStep(key)) \/ StepControl
  PROVE  timers' \in Seq(Keys) /\ RepeatIsHeld'
<1>1. ASSUME timers' = <<>> PROVE timers' \in Seq(Keys) /\ RepeatIsHeld'
  BY <1>1 DEF RepeatIsHeld
<1>2. ASSUME NEW key \in Keys, PressIn(key)
      PROVE  timers' \in Seq(Keys) /\ RepeatIsHeld'
  BY <1>2 DEF PressIn, RepeatIsHeld
<1>3. ASSUME NEW key \in Keys, LongPress(key)
      PROVE  timers' \in Seq(Keys) /\ RepeatIsHeld'
  <2>1. timers' = <<key>> /\ drawn' /\ key \in down'
    BY <1>3 DEF LongPress, hold
  <2>2. <<key>> \in Seq(Keys) /\ Len(<<key>>) = 1 /\ DOMAIN <<key>> = {1}
    OBVIOUS
  <2> QED BY <2>1, <2>2 DEF RepeatIsHeld
<1>4. ASSUME NEW key \in Keys, PressOut(key)
      PROVE  timers' \in Seq(Keys) /\ RepeatIsHeld'
  BY <1>1, <1>4 DEF PressOut, release
<1>5. ASSUME StepControl PROVE timers' \in Seq(Keys) /\ RepeatIsHeld'
  BY <1>1, <1>5 DEF StepControl, release
<1> QED BY <1>2, <1>3, <1>4, <1>5 DEF KeyStep

LEMMA SheetsInvStep == SheetsInv /\ [SheetsNext]_hostVars => SheetsInv'
<1> SUFFICES ASSUME SheetsInv, [SheetsNext]_hostVars PROVE SheetsInv'
  OBVIOUS
<1> USE DEF hostVars, sheetVars, keyVars, SheetsInv
<1>1. CASE (\E id \in Ids : SheetStep(id)) /\ UNCHANGED keyVars
  BY <1>1, SheetStepKeeps DEF RepeatIsHeld
<1>2. CASE HardwareBack /\ UNCHANGED keyVars
  <2>1. Last(sheetSlots) \in Ids /\ Last(sheetSlots) \in mounted
    BY <1>2, LastOfStack DEF HardwareBack, StackInv
  <2>2. PICK count \in Nat : Commit(Last(sheetSlots), count)
    BY <1>2, <2>1, DismissCommits DEF HardwareBack, StackInv
  <2>3. SheetTypes' /\ StackInv' /\ SheetLiesFlat'
    BY <1>2, <2>1, <2>2, CommitKeepsStack, CommitLiesFlat DEF SheetTypes, HardwareBack
  <2> QED BY <1>2, <2>3 DEF RepeatIsHeld
<1>3. CASE ((\E key \in Keys : KeyStep(key)) \/ StepControl) /\ UNCHANGED <<sheetVars, opens>>
  <2>1. timers' \in Seq(Keys) /\ RepeatIsHeld'
    BY <1>3, KeyStepKeeps DEF SheetTypes
  <2> QED BY <1>3, <2>1 DEF SheetTypes, StackInv, SheetLiesFlat, Distinct, Contains
<1>4. CASE UNCHANGED hostVars
  BY <1>4 DEF SheetTypes, StackInv, SheetLiesFlat, RepeatIsHeld, Distinct, Contains
<1> QED BY <1>1, <1>2, <1>3, <1>4 DEF SheetsNext

LEMMA SheetsInvImplies == SheetsInv => SheetsObey
BY DEF SheetsInv, StackInv, BackFollowsTheStack, SheetsObey

\* However sheets are opened, dragged, dismissed and taken away, and whatever the
\* fingers on the step keys do, Back closes the sheet on top, a sheet nobody holds
\* lies flat, and a key that repeats is held (Sheets's SheetsObey).
THEOREM SheetsAlwaysObey == SheetsSpec => []SheetsObey
BY SheetsInvInit, SheetsInvStep, SheetsInvImplies, PTL DEF SheetsSpec

-----------------------------------------------------------------------------
(* The tuner's readout. *)

LEMMA TailFacts ==
  ASSUME NEW S, NEW s \in Seq(S), s # <<>>
  PROVE  /\ Tail(s) \in Seq(S) /\ Len(Tail(s)) = Len(s) - 1
         /\ Len(s) \in Nat \ {0} /\ Head(s) = s[1]
         /\ \A i \in 1..Len(Tail(s)) : Tail(s)[i] = s[i + 1]
OBVIOUS

LEMMA LengthFacts ==
  ASSUME NEW S, NEW s \in Seq(S)
  PROVE  /\ Len(s) \in Nat /\ (s = <<>> <=> Len(s) = 0)
         /\ \A i \in 1..Len(s) : s[i] \in S
         /\ s # <<>> => 1 \in 1..Len(s) /\ Len(s) \in 1..Len(s)
OBVIOUS

LEMMA DivBounds ==
  ASSUME NEW a \in Int, NEW b \in Nat \ {0}
  PROVE  a \div b \in Int /\ (a \div b) * b <= a /\ a < (a \div b + 1) * b
OBVIOUS

LEMMA TimesMonotone ==
  ASSUME NEW x \in Int, NEW y \in Int, NEW b \in Nat, x <= y
  PROVE  x * b <= y * b
OBVIOUS

\* A quotient is at least n where the number is at least n times the divisor.
LEMMA DivAtLeast ==
  ASSUME NEW a \in Int, NEW b \in Nat \ {0}, NEW n \in Int
  PROVE  a \div b \in Int /\ (n <= a \div b <=> n * b <= a)
<1> DEFINE q == a \div b
<1>1. q \in Int /\ q * b <= a /\ a < (q + 1) * b
  BY DivBounds
<1> HIDE DEF q
<1>2. ASSUME n <= q PROVE n * b <= a
  <2>1. n * b <= q * b
    BY <1>1, <1>2, TimesMonotone
  <2>2. n * b \in Int /\ q * b \in Int
    BY <1>1
  <2> QED BY <1>1, <2>1, <2>2
<1>3. ASSUME n * b <= a PROVE n <= q
  <2> SUFFICES ASSUME ~(n <= q) PROVE FALSE
    OBVIOUS
  <2>1. q + 1 \in Int /\ q + 1 <= n
    BY <1>1
  <2>2. (q + 1) * b <= n * b
    BY <2>1, TimesMonotone
  <2>3. n * b \in Int /\ (q + 1) * b \in Int
    BY <2>1
  <2> QED BY <1>1, <1>3, <2>2, <2>3
<1> QED BY <1>1, <1>2, <1>3 DEF q

\* Cents round to at least n from half a cent below n on.
LEMMA RoundedAtLeast ==
  ASSUME NEW c \in Int, NEW n \in Int
  PROVE  Rounded(c) \in Int /\ (n <= Rounded(c) <=> n * (2 * Unit) <= 2 * c + Unit)
<1>1. 2 * c + Unit \in Int /\ 2 * Unit \in Nat \ {0}
  BY ReadoutAssumption
<1> QED BY <1>1, DivAtLeast DEF Rounded

\* Full scale itself is drawn at full scale.
LEMMA RoundedFullScale ==
  /\ FullScale * Unit \in Nat
  /\ Rounded(FullScale * Unit) = FullScale /\ Rounded(-(FullScale * Unit)) = -FullScale
<1>1. Unit \in Nat \ {0} /\ FullScale \in Nat
  BY ReadoutAssumption
<1> DEFINE f == FullScale * Unit
<1>2. /\ f \in Nat /\ FullScale * (2 * Unit) = 2 * f
      /\ (FullScale + 1) * (2 * Unit) = 2 * f + 2 * Unit
      /\ (-FullScale) * (2 * Unit) = -(2 * f)
      /\ (-FullScale + 1) * (2 * Unit) = -(2 * f) + 2 * Unit
  BY <1>1
<1> HIDE DEF f
<1>3. Rounded(f) = FullScale
  <2>1. Rounded(f) \in Int /\ FullScale <= Rounded(f)
    BY <1>1, <1>2, RoundedAtLeast
  <2>2. ~(FullScale + 1 <= Rounded(f))
    BY <1>1, <1>2, RoundedAtLeast
  <2> QED BY <1>1, <2>1, <2>2
<1>4. Rounded(-f) = -FullScale
  <2>1. -f \in Int /\ -FullScale \in Int /\ -FullScale + 1 \in Int
    BY <1>1, <1>2
  <2>2. Rounded(-f) \in Int /\ -FullScale <= Rounded(-f)
    BY <1>1, <1>2, <2>1, RoundedAtLeast
  <2>3. ~(-FullScale + 1 <= Rounded(-f))
    BY <1>1, <1>2, <2>1, RoundedAtLeast
  <2> QED BY <1>1, <2>2, <2>3
<1> QED BY <1>2, <1>3, <1>4 DEF f

\* The needle that is pinned points to the side the cents are on.
LEMMA NeedleSide ==
  ASSUME NEW c \in Int
  PROVE  /\ Rounded(c) \in Int /\ Rounded(needleFraction(c)) \in Int
         /\ Rounded(c) > Window => Rounded(needleFraction(c)) > Window
         /\ Rounded(c) < -Window => Rounded(needleFraction(c)) < -Window
         /\ Abs(Rounded(c)) <= Window => Abs(Rounded(needleFraction(c))) <= Window
<1> DEFINE f == FullScale * Unit
<1>1. /\ f \in Nat /\ Unit \in Nat \ {0} /\ FullScale \in Nat /\ Window \in Nat
      /\ Window < FullScale
      /\ Rounded(f) = FullScale /\ Rounded(-f) = -FullScale
      /\ Rounded(c) \in Int
  BY ReadoutAssumption, RoundedFullScale, RoundedAtLeast
<1>2. needleFraction(c) = IF c > f THEN f ELSE IF c < -f THEN -f ELSE c
  BY RoundedFullScale, ReadoutAssumption DEF needleFraction
<1>3. c > f => FullScale <= Rounded(c)
  <2>1. FullScale <= Rounded(f) <=> FullScale * (2 * Unit) <= 2 * f + Unit
    BY <1>1, RoundedAtLeast
  <2>2. FullScale <= Rounded(c) <=> FullScale * (2 * Unit) <= 2 * c + Unit
    BY <1>1, RoundedAtLeast
  <2>3. FullScale * (2 * Unit) \in Int
    BY <1>1
  <2> HIDE DEF f
  <2> QED BY <1>1, <2>1, <2>2, <2>3
<1>4. c < -f => Rounded(c) <= -FullScale
  <2>1. /\ -f \in Int /\ -FullScale + 1 \in Int
        /\ ~(-FullScale + 1 <= Rounded(-f))
    BY <1>1
  <2>2. -FullScale + 1 <= Rounded(-f) <=> (-FullScale + 1) * (2 * Unit) <= 2 * (-f) + Unit
    BY <2>1, RoundedAtLeast
  <2>3. -FullScale + 1 <= Rounded(c) <=> (-FullScale + 1) * (2 * Unit) <= 2 * c + Unit
    BY <2>1, RoundedAtLeast
  <2>4. (-FullScale + 1) * (2 * Unit) \in Int
    BY <1>1
  <2> HIDE DEF f
  <2> QED BY <1>1, <2>1, <2>2, <2>3, <2>4
<1> HIDE DEF f
<1> QED BY <1>1, <1>2, <1>3, <1>4 DEF Abs

Statuses == {"notMeasured", "inTune", "low", "high"}

Slices == [heard : BOOLEAN, status : Statuses, target : Notes \union {NoNote},
           noSound : BOOLEAN]

LEMMA FlightFacts ==
  ASSUME NEW s \in Seq([d : Slices, n : Nat])
  PROVE  \A i \in 1..Len(s) : s[i].n \in Nat
<1> SUFFICES ASSUME NEW i \in 1..Len(s) PROVE s[i].n \in Nat
  OBVIOUS
<1>1. s[i] \in [d : Slices, n : Nat]
  BY ElementOfSeq
<1> QED BY <1>1

ReadoutTypes ==
  /\ hop \in [id : Nat, canHear : BOOLEAN, paused : BOOLEAN, noSound : BOOLEAN,
              target : Notes \union {NoNote}, error : Int]
  /\ ui.displayed \in [cents : Int, target : Notes \union {NoNote}, status : Statuses]
  /\ ui.latest \in Slices
  /\ ui.dwell \in [shown : Slices, pending : Slices, since : Int]
  /\ flight \in Seq([d : Slices, n : Nat]) /\ posted \in Seq(Nat)
  /\ now \in Nat /\ steady \in Nat /\ changed \in Int /\ resets \in Nat

\* What waits to be told has waited less than the dwell, since after the last
\* announcement, and that is how long it has stood.
DwellInv ==
  /\ ~hasty /\ changed <= now
  /\ ui.dwell.pending = ui.latest
  /\ ui.dwell.pending # ui.dwell.shown =>
       /\ changed <= ui.dwell.since /\ ui.dwell.since <= now
       /\ now - ui.dwell.since < Dwell
       /\ steady = now - ui.dwell.since + 1

\* Resets the UI thread has made.
Done == resets - Len(posted)

\* Slices arrive in the order of the resets they follow.  The last one told
\* since the UI thread's last reset is the one that is shown; React draws it
\* when it has arrived, the quiet one while a reset is on its way, and
\* something else only where a slice crossed a reset.
FlightInv ==
  /\ Len(posted) <= resets
  /\ \A i \in 1..Len(flight) : flight[i].n <= Done
  /\ \A i, j \in 1..Len(flight) : i <= j => flight[i].n <= flight[j].n
  /\ flight # <<>> /\ flight[Len(flight)].n = Done =>
       flight[Len(flight)].d = ui.dwell.shown
  /\ ~crossed /\ posted # <<>> => react = QUIET_DISCRETE
  /\ ~crossed /\ posted = <<>> /\ (flight = <<>> \/ flight[Len(flight)].n < resets) =>
       react = ui.dwell.shown

ReadoutInv == ReadoutTypes /\ ChannelsAgree /\ DwellInv /\ FlightInv

LEMMA QuietTypes ==
  /\ QUIET_DISCRETE \in Slices
  /\ Cleared.displayed \in [cents : Int, target : Notes \union {NoNote}, status : Statuses]
  /\ Cleared.latest = QUIET_DISCRETE
  /\ Cleared.dwell = [shown |-> QUIET_DISCRETE, pending |-> QUIET_DISCRETE, since |-> 0]
  /\ Cleared.dwell \in [shown : Slices, pending : Slices, since : Int]
  /\ Cleared.last \in Nat
<1>1. QUIET_DISCRETE \in Slices
  BY DEF QUIET_DISCRETE, Slices, Statuses
<1>2. NO_READING \in [cents : Int, target : Notes \union {NoNote}, status : Statuses]
  BY DEF NO_READING, NoCents, Statuses
<1> QED BY <1>1, <1>2 DEF Cleared, dwellAt

LEMMA QuietChannels ==
  ASSUME ui' = Cleared
  PROVE  ChannelsAgree'
BY DEF ChannelsAgree, Cleared, QuietCaption, QUIET_DISCRETE

LEMMA ReadingTypes ==
  ASSUME ReadoutTypes
  PROVE  /\ nextReading(ui.displayed, hop) \in
              [cents : Int, target : Notes \union {NoNote}, status : Statuses]
         /\ isHeard(hop) =>
              nextReading(ui.displayed, hop).status =
                displayedStatus(nextReading(ui.displayed, hop).cents)
<1> DEFINE cents == smoothCents(averagedFrom(ui.displayed, hop), hop.error)
<1>1. cents \in Int
  BY DEF smoothCents, averagedFrom, NoCents, ReadoutTypes
<1>2. displayedStatus(cents) \in Statuses
  BY DEF displayedStatus, Statuses
<1>3. hop.target \in Notes \union {NoNote}
  BY DEF ReadoutTypes
<1>4. nextReading(ui.displayed, hop) =
        IF ~isHeard(hop) THEN NO_READING
        ELSE [cents |-> cents, target |-> hop.target, status |-> displayedStatus(cents)]
  BY DEF nextReading
<1> HIDE DEF cents
<1> QED BY <1>1, <1>2, <1>3, <1>4 DEF NO_READING, NoCents, Statuses

LEMMA SliceTypes ==
  ASSUME ReadoutTypes, NEW status \in Statuses
  PROVE  /\ discreteOf(hop, status) \in Slices
         /\ discreteOf(hop, status).status = status
<1>1. isHeard(hop) \in BOOLEAN
  BY DEF isHeard
<1>2. hop.target \in Notes \union {NoNote} /\ hop.noSound \in BOOLEAN
  BY DEF ReadoutTypes
<1> QED BY <1>1, <1>2 DEF discreteOf, Slices

Agree(d) ==
  /\ d.caption.words = "TUNE UP" <=> d.direction = "up"
  /\ d.caption.words = "TUNE DOWN" <=> d.direction = "down"
  /\ d.direction = "up" => Rounded(d.needle) < -Window /\ d.caption.amount < 0
  /\ d.direction = "down" => Rounded(d.needle) > Window /\ d.caption.amount > 0
  /\ d.direction = "inTune" => Abs(Rounded(d.needle)) <= Window

LEMMA CaptionFields ==
  ASSUME NEW c, NEW w, NEW n, c = [words |-> w, amount |-> n]
  PROVE  c.words = w /\ c.amount = n
OBVIOUS

\* What is drawn of a hop agrees with itself.
LEMMA DrawnAgrees ==
  ASSUME NEW r, NEW h, r.cents \in Int,
         isHeard(h) => r.status = displayedStatus(r.cents)
  PROVE  Agree(Drawn(r, h))
<1>1. CASE ~isHeard(h)
  BY <1>1 DEF Drawn, QuietCaption, Agree
<1>2. CASE isHeard(h)
  <2>1. /\ Drawn(r, h).caption = tunerCaption(r.status, r.cents)
        /\ Drawn(r, h).direction = tuneDirection(r.status)
        /\ Drawn(r, h).needle = needleFraction(r.cents)
    BY <1>2 DEF Drawn
  <2>2. Window \in Nat /\ r.status = displayedStatus(r.cents)
    BY <1>2, ReadoutAssumption
  <2>3. CASE Abs(Rounded(r.cents)) <= Window
    <3>1. r.status = "inTune"
      BY <2>2, <2>3 DEF displayedStatus
    <3>2. /\ Drawn(r, h).caption = [words |-> "IN TUNE", amount |-> 0]
          /\ Drawn(r, h).direction = "inTune"
      BY <2>1, <3>1 DEF tunerCaption, tuneDirection
    <3>3. Abs(Rounded(Drawn(r, h).needle)) <= Window
      BY <2>1, <2>3, NeedleSide
    <3>4. Drawn(r, h).caption.words = "IN TUNE"
      BY <3>2, CaptionFields
    <3> QED BY <3>2, <3>3, <3>4 DEF Agree
  <2>4. CASE ~(Abs(Rounded(r.cents)) <= Window) /\ Rounded(r.cents) < 0
    <3>1. r.status = "low"
      BY <2>2, <2>4 DEF displayedStatus
    <3>2. /\ Drawn(r, h).caption = [words |-> "TUNE UP", amount |-> Rounded(r.cents)]
          /\ Drawn(r, h).direction = "up"
      BY <2>1, <3>1 DEF tunerCaption, tuneDirection
    <3>3. Rounded(r.cents) < -Window
      BY <2>2, <2>4, NeedleSide DEF Abs
    <3>4. Rounded(Drawn(r, h).needle) < -Window
      BY <2>1, <3>3, NeedleSide
    <3>5. /\ Drawn(r, h).caption.words = "TUNE UP"
          /\ Drawn(r, h).caption.amount = Rounded(r.cents)
      BY <3>2, CaptionFields
    <3> QED BY <2>4, <3>2, <3>4, <3>5 DEF Agree
  <2>5. CASE ~(Abs(Rounded(r.cents)) <= Window) /\ ~(Rounded(r.cents) < 0)
    <3>1. r.status = "high"
      BY <2>2, <2>5 DEF displayedStatus
    <3>2. /\ Drawn(r, h).caption = [words |-> "TUNE DOWN", amount |-> Rounded(r.cents)]
          /\ Drawn(r, h).direction = "down"
      BY <2>1, <3>1 DEF tunerCaption, tuneDirection
    <3>3. Rounded(r.cents) > Window
      BY <2>2, <2>5, NeedleSide DEF Abs
    <3>4. Rounded(Drawn(r, h).needle) > Window
      BY <2>1, <3>3, NeedleSide
    <3>5. Rounded(r.cents) > 0
      BY <2>2, <3>3, NeedleSide
    <3>6. /\ Drawn(r, h).caption.words = "TUNE DOWN"
          /\ Drawn(r, h).caption.amount = Rounded(r.cents)
      BY <3>2, CaptionFields
    <3> QED BY <3>2, <3>4, <3>5, <3>6 DEF Agree
  <2> QED BY <2>3, <2>4, <2>5
<1> QED BY <1>1, <1>2

LEMMA ReadoutInvInit == ReadoutInit => ReadoutInv
<1> SUFFICES ASSUME ReadoutInit PROVE ReadoutInv
  OBVIOUS
<1>1. <<>> \in Seq([d : Slices, n : Nat]) /\ <<>> \in Seq(Nat) /\ Len(<<>>) = 0
  OBVIOUS
<1>2. ReadoutTypes
  BY <1>1, QuietTypes, ReadoutAssumption DEF ReadoutInit, ReadoutTypes, NoNote
<1>3. ChannelsAgree
  BY DEF ReadoutInit, ChannelsAgree, Cleared, QuietCaption, QUIET_DISCRETE
<1>4. DwellInv
  BY QuietTypes, ReadoutAssumption DEF ReadoutInit, DwellInv
<1>5. FlightInv
  BY <1>1, QuietTypes DEF ReadoutInit, FlightInv, Done
<1> QED BY <1>2, <1>3, <1>4, <1>5 DEF ReadoutInv

\* What a frame does to the dwell.
LEMMA FrameSettles ==
  ASSUME ReadoutTypes, ChannelsAgree, Frame
  PROVE  \E latest \in Slices :
           /\ ui'.latest = latest /\ ui'.dwell = settleDiscrete(ui.dwell, latest, now + 1)
           /\ flight' = IF ui'.dwell.shown # ui.dwell.shown
                        THEN Append(flight, [d |-> ui'.dwell.shown, n |-> Done])
                        ELSE flight
           /\ steady' = IF latest = ui.latest THEN steady + 1 ELSE 1
           /\ changed' = IF ui'.dwell.shown # ui.dwell.shown THEN now + 1 ELSE changed
           /\ hasty' = (hasty \/ (/\ ui'.dwell.shown # ui.dwell.shown
                                  /\ now + 1 - changed < Dwell))
           /\ ui'.displayed \in
                [cents : Int, target : Notes \union {NoNote}, status : Statuses]
           /\ ChannelsAgree'
<1> DEFINE fresh == hop.id # ui.last
           r == IF fresh THEN nextReading(ui.displayed, hop) ELSE ui.displayed
           latest == IF fresh THEN discreteOf(hop, r.status) ELSE ui.latest
           settled == settleDiscrete(ui.dwell, latest, now + 1)
<1>1. /\ ui' = [last |-> hop.id, displayed |-> r, latest |-> latest,
                drawn |-> IF fresh THEN Drawn(r, hop) ELSE ui.drawn, dwell |-> settled]
      /\ flight' = IF settled.shown # ui.dwell.shown
                   THEN Append(flight, [d |-> settled.shown, n |-> Done]) ELSE flight
      /\ steady' = IF latest = ui.latest THEN steady + 1 ELSE 1
      /\ changed' = IF settled.shown # ui.dwell.shown THEN now + 1 ELSE changed
      /\ hasty' = (hasty \/ (settled.shown # ui.dwell.shown /\ now + 1 - changed < Dwell))
  BY Zenon DEF Frame, Done
<1>2. r \in [cents : Int, target : Notes \union {NoNote}, status : Statuses]
  BY ReadingTypes DEF ReadoutTypes
<1>3. latest \in Slices
  <2>1. r.status \in Statuses
    BY <1>2
  <2> HIDE DEF r
  <2> QED BY <2>1, SliceTypes DEF ReadoutTypes
<1>4. ChannelsAgree'
  <2>1. CASE fresh
    <3>1. ui'.drawn = Drawn(r, hop) /\ ui'.latest.status = r.status /\ ui'.displayed = r
      <4>1. r.status \in Statuses
        BY <1>2
      <4>2. discreteOf(hop, r.status).status = r.status
        BY <4>1, SliceTypes
      <4> HIDE DEF r, settled
      <4> QED BY <1>1, <2>1, <4>2
    <3>2. r.cents \in Int /\ (isHeard(hop) => r.status = displayedStatus(r.cents))
      BY <1>2, <2>1, ReadingTypes
    <3> HIDE DEF r
    <3>3. Agree(ui'.drawn)
      BY <3>1, <3>2, DrawnAgrees
    <3> QED BY <3>1, <3>3 DEF ChannelsAgree, Agree
  <2>2. CASE ~fresh
    <3>1. ui'.drawn = ui.drawn /\ ui'.latest = ui.latest /\ ui'.displayed = ui.displayed
      BY <1>1, <2>2
    <3> QED BY <3>1 DEF ChannelsAgree
  <2> QED BY <2>1, <2>2
<1>5. ui'.latest = latest /\ ui'.dwell = settled /\ ui'.displayed = r
  <2> HIDE DEF r, latest, settled
  <2> QED BY <1>1
<1> HIDE DEF r, latest
<1> QED BY <1>1, <1>2, <1>3, <1>4, <1>5, Zenon DEF settled

\* The dwell tells its pending slice or does not, and the clock goes on.
LEMMA DwellMoves ==
  ASSUME ReadoutTypes, DwellInv, NEW latest \in Slices,
         ui'.latest = latest, ui'.dwell = settleDiscrete(ui.dwell, latest, now + 1),
         now' = now + 1,
         steady' = IF latest = ui.latest THEN steady + 1 ELSE 1,
         changed' = IF ui'.dwell.shown # ui.dwell.shown THEN now + 1 ELSE changed,
         hasty' = (hasty \/ (/\ ui'.dwell.shown # ui.dwell.shown
                             /\ now + 1 - changed < Dwell))
  PROVE  /\ ui'.dwell \in [shown : Slices, pending : Slices, since : Int]
         /\ DwellInv'
<1> DEFINE w == ui.dwell
<1>1. /\ w \in [shown : Slices, pending : Slices, since : Int] /\ now \in Nat
      /\ changed \in Int /\ changed <= now /\ w.pending = ui.latest
      /\ Dwell \in Nat \ {0} /\ steady \in Nat
  BY ReadoutAssumption DEF ReadoutTypes, DwellInv
<1>2. CASE latest # w.pending
  <2>1. /\ ui'.dwell = [w EXCEPT !.pending = latest, !.since = now + 1]
        /\ steady' = 1
    BY <1>1, <1>2 DEF settleDiscrete
  <2>2. /\ ui'.dwell \in [shown : Slices, pending : Slices, since : Int]
        /\ ui'.dwell.shown = w.shown /\ ui'.dwell.pending = latest
        /\ ui'.dwell.since = now + 1
    <3>1. w = [shown |-> w.shown, pending |-> w.pending, since |-> w.since]
      BY <1>1
    <3>2. w.shown \in Slices /\ now + 1 \in Int
      BY <1>1
    <3>3. ui'.dwell = [shown |-> w.shown, pending |-> latest, since |-> now + 1]
      BY <2>1, <3>1
    <3> QED BY <3>2, <3>3
  <2>3. changed' = changed /\ (hasty' <=> hasty)
    BY <2>2
  <2> QED BY <1>1, <2>1, <2>2, <2>3 DEF DwellInv
<1>3. CASE latest = w.pending /\ (w.pending = w.shown \/ now + 1 - w.since < Dwell)
  <2>1. ui'.dwell = w /\ steady' = steady + 1
    BY <1>1, <1>3 DEF settleDiscrete
  <2>2. changed' = changed /\ (hasty' <=> hasty)
    BY <2>1
  <2> QED BY <1>1, <1>3, <2>1, <2>2 DEF DwellInv
<1>4. CASE latest = w.pending /\ w.pending # w.shown /\ ~(now + 1 - w.since < Dwell)
  <2>1. ui'.dwell = [w EXCEPT !.shown = w.pending]
    BY <1>1, <1>4 DEF settleDiscrete
  <2>2. /\ ui'.dwell \in [shown : Slices, pending : Slices, since : Int]
        /\ ui'.dwell.shown = w.pending /\ ui'.dwell.pending = w.pending
    BY <1>1, <2>1
  <2>3. ~(now + 1 - changed < Dwell)
    BY <1>1, <1>4 DEF DwellInv
  <2>4. changed' = now + 1 /\ ~hasty'
    BY <1>4, <2>2, <2>3 DEF DwellInv
  <2> QED BY <1>1, <1>4, <2>2, <2>4 DEF DwellInv
<1> QED BY <1>2, <1>3, <1>4

LEMMA FrameKeeps ==
  ASSUME ReadoutTypes, ChannelsAgree, DwellInv, FlightInv, Frame
  PROVE  ReadoutInv'
<1>1. PICK latest \in Slices :
           /\ ui'.latest = latest /\ ui'.dwell = settleDiscrete(ui.dwell, latest, now + 1)
           /\ flight' = IF ui'.dwell.shown # ui.dwell.shown
                        THEN Append(flight, [d |-> ui'.dwell.shown, n |-> Done])
                        ELSE flight
           /\ steady' = IF latest = ui.latest THEN steady + 1 ELSE 1
           /\ changed' = IF ui'.dwell.shown # ui.dwell.shown THEN now + 1 ELSE changed
           /\ hasty' = (hasty \/ (/\ ui'.dwell.shown # ui.dwell.shown
                                  /\ now + 1 - changed < Dwell))
           /\ ui'.displayed \in
                [cents : Int, target : Notes \union {NoNote}, status : Statuses]
           /\ ChannelsAgree'
  BY FrameSettles
<1>2. now' = now + 1 /\ UNCHANGED <<hop, react, posted, crossed, resets>>
  BY DEF Frame
<1>3. /\ ui'.dwell \in [shown : Slices, pending : Slices, since : Int]
      /\ DwellInv'
  BY <1>1, <1>2, DwellMoves
<1>4. Done \in Nat /\ Done' = Done
  BY <1>2 DEF Done, FlightInv, ReadoutTypes
<1>5. CASE ui'.dwell.shown = ui.dwell.shown
  <2>1. flight' = flight
    BY <1>1, <1>5
  <2>2. FlightInv'
    BY <1>2, <1>4, <1>5, <2>1 DEF FlightInv
  <2>3. ReadoutTypes'
    BY <1>1, <1>2, <1>3, <2>1 DEF ReadoutTypes
  <2> QED BY <1>1, <1>3, <2>2, <2>3 DEF ReadoutInv
<1>6. CASE ui'.dwell.shown # ui.dwell.shown
  <2> DEFINE x == [d |-> ui'.dwell.shown, n |-> Done]
  <2>1. flight' = Append(flight, x) /\ x \in [d : Slices, n : Nat]
        /\ x.n = Done /\ x.d = ui'.dwell.shown
    BY <1>1, <1>3, <1>4, <1>6
  <2> HIDE DEF x
  <2>2. /\ flight' \in Seq([d : Slices, n : Nat]) /\ Len(flight') = Len(flight) + 1
        /\ Len(flight) \in Nat /\ flight' # <<>>
        /\ \A i \in 1..Len(flight) : flight'[i] = flight[i] /\ flight[i].n \in Nat
        /\ flight'[Len(flight) + 1] = x
    <3>1. flight \in Seq([d : Slices, n : Nat])
      BY DEF ReadoutTypes
    <3>2. \A i \in 1..Len(flight) : flight[i].n \in Nat
      BY <3>1, FlightFacts
    <3> QED BY <2>1, <3>1, <3>2, AppendProperties, LengthFacts
  <2>3. \A i \in 1..Len(flight') : flight'[i].n <= Done
    BY <1>4, <2>1, <2>2 DEF FlightInv
  <2>4. \A i, j \in 1..Len(flight') : i <= j => flight'[i].n <= flight'[j].n
    <3> SUFFICES ASSUME NEW i \in 1..Len(flight'), NEW j \in 1..Len(flight'), i <= j
                 PROVE  flight'[i].n <= flight'[j].n
      OBVIOUS
    <3>1. CASE j \in 1..Len(flight)
      <4>1. i \in 1..Len(flight)
        BY <2>2, <3>1
      <4> QED BY <2>2, <3>1, <4>1 DEF FlightInv
    <3>2. CASE j = Len(flight) + 1
      BY <2>1, <2>2, <2>3, <3>2
    <3> QED BY <2>2, <3>1, <3>2
  <2>5. ~(flight'[Len(flight')].n < resets) \/ posted # <<>>
    BY <2>1, <2>2 DEF Done, ReadoutTypes
  <2>6. FlightInv'
    BY <1>2, <1>4, <2>1, <2>2, <2>3, <2>4, <2>5 DEF FlightInv
  <2>7. ReadoutTypes'
    BY <1>1, <1>2, <1>3, <2>2 DEF ReadoutTypes
  <2> QED BY <1>1, <1>3, <2>6, <2>7 DEF ReadoutInv
<1> QED BY <1>5, <1>6

LEMMA ToldKeeps ==
  ASSUME ReadoutTypes, FlightInv, Told
  PROVE  flight' \in Seq([d : Slices, n : Nat]) /\ FlightInv'
<1>1. /\ flight # <<>> /\ react' = Head(flight).d /\ flight' = Tail(flight)
      /\ crossed' = (Head(flight).n < resets)
      /\ UNCHANGED <<hop, ui, posted, now, steady, changed, hasty, resets>>
  BY DEF Told
<1>2. /\ flight' \in Seq([d : Slices, n : Nat]) /\ Len(flight') = Len(flight) - 1
      /\ Len(flight) \in Nat \ {0} /\ Head(flight) = flight[1]
      /\ \A i \in 1..Len(flight') : flight'[i] = flight[i + 1]
      /\ \A i \in 1..Len(flight) : flight[i].n \in Nat
      /\ Len(posted) \in Nat /\ resets \in Nat /\ (posted = <<>> <=> Len(posted) = 0)
  <2>1. flight \in Seq([d : Slices, n : Nat]) /\ posted \in Seq(Nat) /\ resets \in Nat
    BY DEF ReadoutTypes
  <2>2. \A i \in 1..Len(flight) : flight[i].n \in Nat
    BY <2>1, FlightFacts
  <2> QED BY <1>1, <2>1, <2>2, TailFacts, LengthFacts
<1>3. /\ Done' = Done /\ Done \in Nat /\ Done <= resets
      /\ (Done = resets <=> posted = <<>>)
  BY <1>1, <1>2 DEF Done, FlightInv
<1>4. /\ \A i \in 1..Len(flight') : flight'[i].n <= Done
      /\ \A i, j \in 1..Len(flight') : i <= j => flight'[i].n <= flight'[j].n
  <2>1. \A i \in 1..Len(flight') : i \in Nat /\ i + 1 \in 1..Len(flight)
    BY <1>2
  <2>2. \A i, j \in 1..Len(flight') : i <= j => i + 1 <= j + 1
    BY <2>1
  <2> QED BY <1>2, <2>1, <2>2 DEF FlightInv
<1>5. flight' # <<>> => /\ flight'[Len(flight')] = flight[Len(flight)]
                        /\ Len(flight) > 1
  BY <1>2
<1>6. flight' # <<>> /\ flight'[Len(flight')].n = Done =>
        flight'[Len(flight')].d = ui.dwell.shown
  BY <1>1, <1>5 DEF FlightInv
<1>7. flight[1].n <= flight[Len(flight)].n /\ flight[1].n <= Done
  BY <1>2 DEF FlightInv
<1>8. ASSUME ~crossed'
      PROVE  posted = <<>> /\ flight[1].n = resets /\ flight[Len(flight)].n = resets
  <2>1. flight[1].n = resets /\ Done = resets
    <3>1. ~(flight[1].n < resets)
      BY <1>1, <1>2, <1>8
    <3>2. flight[1].n \in Nat
      BY <1>2
    <3> QED BY <1>2, <1>3, <1>7, <3>1, <3>2
  <2>2. flight[Len(flight)].n <= Done
    BY <1>2 DEF FlightInv
  <2> QED BY <1>2, <1>3, <1>7, <2>1, <2>2
<1>9. ASSUME ~crossed', flight' = <<>> \/ flight'[Len(flight')].n < resets
      PROVE  react' = ui.dwell.shown
  <2>1. flight' = <<>>
    BY <1>2, <1>5, <1>8, <1>9
  <2>2. Len(flight) = 1
    BY <1>2, <2>1
  <2> QED BY <1>1, <1>2, <1>3, <1>8, <1>9, <2>2 DEF FlightInv
<1> QED BY <1>1, <1>2, <1>3, <1>4, <1>6, <1>8, <1>9 DEF FlightInv

LEMMA ResetKeeps ==
  ASSUME ReadoutTypes, FlightInv, Reset
  PROVE  posted' \in Seq(Nat) /\ resets' \in Nat /\ FlightInv'
<1>1. /\ resets' = resets + 1 /\ react' = QUIET_DISCRETE
      /\ posted' = Append(posted, resets + 1) /\ crossed' = FALSE
      /\ UNCHANGED <<hop, ui, flight, now, steady, changed, hasty>>
  BY DEF Reset
<1>2. /\ posted' \in Seq(Nat) /\ resets' \in Nat /\ posted' # <<>>
      /\ Len(posted') = Len(posted) + 1 /\ Len(posted) \in Nat
  BY <1>1 DEF ReadoutTypes
<1>3. Done' = Done /\ Len(posted') <= resets'
  BY <1>1, <1>2 DEF Done, ReadoutTypes, FlightInv
<1> QED BY <1>1, <1>2, <1>3 DEF FlightInv

LEMMA ResetOnUiKeeps ==
  ASSUME ReadoutTypes, FlightInv, ResetOnUi
  PROVE  posted' \in Seq(Nat) /\ FlightInv'
<1>1. /\ posted # <<>> /\ posted' = Tail(posted) /\ ui' = Cleared
      /\ UNCHANGED <<hop, react, flight, now, hasty, crossed, resets>>
  BY DEF ResetOnUi
<1>2. /\ posted' \in Seq(Nat) /\ Len(posted') = Len(posted) - 1
      /\ Len(posted) \in Nat \ {0} /\ resets \in Nat
      /\ Len(flight) \in Nat /\ (flight # <<>> => Len(flight) # 0)
      /\ \A i \in 1..Len(flight) : flight[i].n \in Nat
  <2>1. flight \in Seq([d : Slices, n : Nat]) /\ posted \in Seq(Nat) /\ resets \in Nat
    BY DEF ReadoutTypes
  <2>2. \A i \in 1..Len(flight) : flight[i].n \in Nat
    BY <2>1, FlightFacts
  <2> QED BY <1>1, <2>1, <2>2, TailFacts, LengthFacts
<1>3. Done' = Done + 1 /\ Done \in Int /\ Len(posted') <= resets'
  BY <1>1, <1>2 DEF Done, FlightInv
<1>4. \A i \in 1..Len(flight) : flight[i].n <= Done' /\ flight[i].n # Done'
  BY <1>2, <1>3 DEF FlightInv
<1>5. flight # <<>> => flight[Len(flight)].n # Done'
  BY <1>2, <1>4
<1>6. ui'.dwell.shown = QUIET_DISCRETE
  BY <1>1, QuietTypes
<1> QED BY <1>1, <1>2, <1>3, <1>4, <1>5, <1>6 DEF FlightInv

LEMMA ReadoutInvStep == ReadoutInv /\ [ReadoutNext]_readoutVars => ReadoutInv'
<1> SUFFICES ASSUME ReadoutInv, [ReadoutNext]_readoutVars PROVE ReadoutInv'
  OBVIOUS
<1>0. ReadoutTypes /\ ChannelsAgree /\ DwellInv /\ FlightInv
  BY DEF ReadoutInv
<1>1. CASE Hop
  <2>1. UNCHANGED <<ui, react, flight, posted, now, steady, changed, hasty, crossed, resets>>
    BY <1>1 DEF Hop
  <2>2. hop' \in [id : Nat, canHear : BOOLEAN, paused : BOOLEAN, noSound : BOOLEAN,
                  target : Notes \union {NoNote}, error : Int]
    BY <1>0, <1>1, ReadoutAssumption DEF Hop, ReadoutTypes
  <2> QED BY <1>0, <2>1, <2>2
          DEF ReadoutInv, ReadoutTypes, ChannelsAgree, DwellInv, FlightInv, Done
<1>2. CASE Frame
  BY <1>0, <1>2, FrameKeeps
<1>3. CASE Told
  <2>1. flight' \in Seq([d : Slices, n : Nat]) /\ FlightInv'
    BY <1>0, <1>3, ToldKeeps
  <2>2. UNCHANGED <<hop, ui, posted, now, steady, changed, hasty, resets>>
    BY <1>3 DEF Told
  <2> QED BY <1>0, <2>1, <2>2 DEF ReadoutInv, ReadoutTypes, ChannelsAgree, DwellInv
<1>4. CASE Reset
  <2>1. posted' \in Seq(Nat) /\ resets' \in Nat /\ FlightInv'
    BY <1>0, <1>4, ResetKeeps
  <2>2. UNCHANGED <<hop, ui, flight, now, steady, changed, hasty>>
    BY <1>4 DEF Reset
  <2> QED BY <1>0, <2>1, <2>2 DEF ReadoutInv, ReadoutTypes, ChannelsAgree, DwellInv
<1>5. CASE ResetOnUi
  <2>1. posted' \in Seq(Nat) /\ FlightInv'
    BY <1>0, <1>5, ResetOnUiKeeps
  <2>2. /\ UNCHANGED <<hop, react, flight, now, hasty, crossed, resets>>
        /\ ui' = Cleared /\ steady' = 0 /\ changed' = -Dwell
    BY <1>5 DEF ResetOnUi
  <2>3. ReadoutTypes'
    BY <1>0, <2>1, <2>2, QuietTypes, ReadoutAssumption DEF ReadoutTypes
  <2>4. DwellInv'
    BY <1>0, <2>2, QuietTypes, ReadoutAssumption DEF DwellInv, ReadoutTypes
  <2> QED BY <2>1, <2>2, <2>3, <2>4, QuietChannels DEF ReadoutInv
<1>6. CASE UNCHANGED readoutVars
  <2>1. ReadoutTypes' /\ ChannelsAgree'
    BY <1>0, <1>6 DEF readoutVars, ReadoutTypes, ChannelsAgree
  <2>2. DwellInv'
    BY <1>0, <1>6 DEF readoutVars, DwellInv
  <2>3. FlightInv'
    BY <1>0, <1>6 DEF readoutVars, FlightInv, Done
  <2> QED BY <2>1, <2>2, <2>3 DEF ReadoutInv
<1> QED BY <1>1, <1>2, <1>3, <1>4, <1>5, <1>6 DEF ReadoutNext

LEMMA ReadoutInvImplies == ReadoutInv => ReadoutAgrees
<1> SUFFICES ASSUME ReadoutInv PROVE ToldSettled
  BY DEF ReadoutInv, ReadoutAgrees
<1>1. ~hasty
  BY DEF ReadoutInv, DwellInv
<1>2. ASSUME flight = <<>>, posted = <<>>, ~crossed PROVE react = ui.dwell.shown
  BY <1>2 DEF ReadoutInv, FlightInv
<1>3. ASSUME steady > Dwell PROVE ui.dwell.shown = ui.latest
  BY <1>3, ReadoutAssumption DEF ReadoutInv, DwellInv, ReadoutTypes
<1> QED BY <1>1, <1>2, <1>3 DEF ToldSettled

\* Whatever is heard and however frames, messages and resets cross, caption, arrow
\* and needle are of one hop, and the screen reader is told only what stood for the
\* dwell (TunerReadout's ReadoutAgrees).
THEOREM TheReadoutAgrees == ReadoutSpec => []ReadoutAgrees
BY ReadoutInvInit, ReadoutInvStep, ReadoutInvImplies, PTL DEF ReadoutSpec

-----------------------------------------------------------------------------
(* The rig. *)

Outputs == [id : Routes, certain : BOOLEAN]

\* Masks as the store keeps them: no slot on the beat, none past the count.
Masks == {m \in [Counts -> SUBSET Nat] :
            \A c \in Counts : \A slot \in m[c] : slot # OnBeat /\ slot < c}

LeastCount == CHOOSE c \in Counts : \A k \in Counts : c <= k

ListJobs == [what : {"list"}, key : {"none"}, value : {Unset}]
RouteJobs == [what : {"save"}, key : Routes, value : Int]
               \union [what : {"remove"}, key : Routes, value : {Unset}]
MasksJobs == [what : {"pref"}, key : {"masks"}, value : Masks]
CountJobs == [what : {"pref"}, key : {"count"}, value : Counts]
VolumeJobs == [what : {"pref"}, key : {"volume"}, value : Volumes]
RigJobs == ListJobs \union RouteJobs \union MasksJobs \union CountJobs \union VolumeJobs

RouteJobsOf(r) == {job \in RouteJobs : job.key = r}

RigTypes ==
  /\ device \in Outputs /\ news \in Seq(Outputs)
  /\ store \in [live : Outputs \union {Nobody}, stored : [Routes -> Int],
                pending : [route : Routes \union {"none"}, offset : Int],
                started : {"listing", "yes"}]
  /\ applied \in Int
  /\ accents \in [masks : Masks, lastCount : Counts \union {LeastCount}]
  /\ volume \in [held : BOOLEAN, store : Volumes \union {Unity},
                 engine : Volumes \union {Unity}]
  /\ (volume.held => volume.engine \in Volumes)
  /\ disk \in [offsets : [Routes -> Int], masks : Masks,
               count : Counts \union {LeastCount}, volume : Volumes \union {Unity}]
  /\ jobs \in Seq(RigJobs)

\* The list is read first and once, and until then no output's job is asked.
ListedFirst(js, listing) ==
  /\ \A i \in 1..Len(js) : js[i] \in ListJobs => i = 1 /\ listing
  /\ listing => /\ js # <<>> /\ js[1] \in ListJobs
                /\ \A i \in 1..Len(js) : js[i] \notin RouteJobs

ListInv ==
  /\ ListedFirst(jobs, store.started = "listing")
  /\ store.started = "listing" =>
       /\ store.live = Nobody /\ news = <<>> /\ store.pending = NothingPending
       /\ \A r \in Routes : store.stored[r] = Unset

\* A step that waits to be stored is of the output in use.
PendingInv ==
  store.pending # NothingPending =>
    /\ store.pending.route \in Routes /\ store.pending.route = store.live.id
    /\ store.pending.offset = store.stored[store.pending.route]

\* What the database will hold once it has done its jobs: of those in M the last
\* one's value, and what it holds (d) where there is none.
WillHold(js, M, d, v) ==
  /\ (\A i \in 1..Len(js) : js[i] \notin M) => d = v
  /\ \A i \in 1..Len(js) :
       js[i] \in M /\ (\A j \in (i + 1)..Len(js) : js[j] \notin M) => js[i].value = v

RoutesKept ==
  store.started = "yes" =>
    \A r \in Routes : store.pending.route # r =>
      WillHold(jobs, RouteJobsOf(r), disk.offsets[r], store.stored[r])

PrefsKept ==
  /\ WillHold(jobs, MasksJobs, disk.masks, accents.masks)
  /\ WillHold(jobs, CountJobs, disk.count, accents.lastCount)
  /\ WillHold(jobs, VolumeJobs, disk.volume, volume.store)

KeptInv == ~failed => RoutesKept /\ PrefsKept

RigInv == RigTypes /\ ListInv /\ PendingInv /\ OffsetFollowsRoute /\ EngineIsSet /\ KeptInv

\* A job asked last decides, if it is one of them.
LEMMA WillHoldAsked ==
  ASSUME NEW S, NEW js \in Seq(S), NEW M, NEW d, NEW v, NEW job \in S
  PROVE  /\ job \in M => WillHold(Append(js, job), M, d, job.value)
         /\ job \notin M /\ WillHold(js, M, d, v) => WillHold(Append(js, job), M, d, v)
<1> DEFINE t == Append(js, job)
<1>1. /\ Len(t) = Len(js) + 1 /\ Len(js) \in Nat /\ t[Len(js) + 1] = job
      /\ \A i \in 1..Len(js) : t[i] = js[i]
  OBVIOUS
<1> HIDE DEF t
<1>2. ASSUME job \in M PROVE WillHold(t, M, d, job.value)
  <2>1. ~(\A i \in 1..Len(t) : t[i] \notin M)
    <3>1. Len(js) + 1 \in 1..Len(t)
      BY <1>1
    <3> QED BY <1>1, <1>2, <3>1
  <2>2. ASSUME NEW i \in 1..Len(t), \A j \in (i + 1)..Len(t) : t[j] \notin M
        PROVE  t[i] = job
    <3>1. i = Len(js) + 1
      <4>1. i <= Len(js) => Len(js) + 1 \in (i + 1)..Len(t)
        BY <1>1
      <4> QED BY <1>1, <1>2, <2>2, <4>1
    <3> QED BY <1>1, <3>1
  <2> QED BY <2>1, <2>2 DEF WillHold
<1>3. ASSUME job \notin M, WillHold(js, M, d, v) PROVE WillHold(t, M, d, v)
  <2>1. ASSUME \A i \in 1..Len(t) : t[i] \notin M PROVE d = v
    <3>1. \A i \in 1..Len(js) : js[i] \notin M
      BY <1>1, <2>1
    <3> QED BY <1>3, <3>1 DEF WillHold
  <2>2. ASSUME NEW i \in 1..Len(t), t[i] \in M, \A j \in (i + 1)..Len(t) : t[j] \notin M
        PROVE  t[i].value = v
    <3>1. i \in 1..Len(js) /\ js[i] \in M /\ t[i] = js[i]
      BY <1>1, <1>3, <2>2
    <3>2. \A j \in (i + 1)..Len(js) : js[j] \notin M
      <4> SUFFICES ASSUME NEW j \in (i + 1)..Len(js) PROVE js[j] \notin M
        OBVIOUS
      <4>1. j \in (i + 1)..Len(t) /\ j \in 1..Len(js)
        BY <1>1
      <4> QED BY <1>1, <2>2, <4>1
    <3> QED BY <1>3, <3>1, <3>2 DEF WillHold
  <2> QED BY <2>1, <2>2 DEF WillHold
<1> QED BY <1>2, <1>3 DEF t

\* A job that is done leaves what will be held.
LEMMA WillHoldDone ==
  ASSUME NEW S, NEW js \in Seq(S), NEW M, NEW d, NEW e, NEW v,
         js # <<>>, WillHold(js, M, d, v),
         e = IF Head(js) \in M THEN Head(js).value ELSE d
  PROVE  WillHold(Tail(js), M, e, v)
<1> DEFINE t == Tail(js)
<1>1. /\ Len(t) = Len(js) - 1 /\ Len(js) \in Nat \ {0} /\ Head(js) = js[1]
      /\ \A i \in 1..Len(t) : t[i] = js[i + 1]
  OBVIOUS
<1> HIDE DEF t
<1>2. ASSUME \A i \in 1..Len(t) : t[i] \notin M PROVE e = v
  <2>1. \A i \in 2..Len(js) : js[i] \notin M
    <3> SUFFICES ASSUME NEW i \in 2..Len(js) PROVE js[i] \notin M
      OBVIOUS
    <3>1. i - 1 \in 1..Len(t) /\ (i - 1) + 1 = i
      BY <1>1
    <3> QED BY <1>1, <1>2, <3>1
  <2>2. 1 \in 1..Len(js) /\ (1 + 1)..Len(js) = 2..Len(js)
    BY <1>1
  <2>3. CASE js[1] \in M
    BY <1>1, <2>1, <2>2, <2>3 DEF WillHold
  <2>4. CASE js[1] \notin M
    <3>1. \A i \in 1..Len(js) : i = 1 \/ i \in 2..Len(js)
      BY <1>1
    <3>2. \A i \in 1..Len(js) : js[i] \notin M
      BY <2>1, <2>4, <3>1
    <3> QED BY <1>1, <2>4, <3>2 DEF WillHold
  <2> QED BY <2>3, <2>4
<1>3. ASSUME NEW i \in 1..Len(t), t[i] \in M, \A j \in (i + 1)..Len(t) : t[j] \notin M
      PROVE  t[i].value = v
  <2>1. i + 1 \in 1..Len(js) /\ t[i] = js[i + 1]
    BY <1>1
  <2>2. \A j \in ((i + 1) + 1)..Len(js) : js[j] \notin M
    <3> SUFFICES ASSUME NEW j \in ((i + 1) + 1)..Len(js) PROVE js[j] \notin M
      OBVIOUS
    <3>1. j - 1 \in (i + 1)..Len(t) /\ j - 1 \in 1..Len(t) /\ (j - 1) + 1 = j
      BY <1>1
    <3> QED BY <1>1, <1>3, <3>1
  <2> QED BY <1>3, <2>1, <2>2 DEF WillHold
<1> QED BY <1>2, <1>3 DEF WillHold, t

LEMMA WillHoldNothing ==
  ASSUME NEW M, NEW d, NEW v
  PROVE  WillHold(<<>>, M, d, v) <=> d = v
BY DEF WillHold


PrefJobs == MasksJobs \union CountJobs \union VolumeJobs

LEMMA JobsDiffer ==
  /\ \A job \in ListJobs : job \notin RouteJobs \union PrefJobs
  /\ \A job \in RouteJobs : job \notin ListJobs \union PrefJobs
  /\ \A job \in PrefJobs : job \notin ListJobs \union RouteJobs
  /\ \A job \in MasksJobs : job \notin CountJobs \union VolumeJobs
  /\ \A job \in CountJobs : job \notin MasksJobs \union VolumeJobs
  /\ \A job \in VolumeJobs : job \notin MasksJobs \union CountJobs
<1>1. /\ \A job \in ListJobs : job.what = "list"
      /\ \A job \in RouteJobs : job.what \in {"save", "remove"}
      /\ \A job \in MasksJobs : job.what = "pref" /\ job.key = "masks"
      /\ \A job \in CountJobs : job.what = "pref" /\ job.key = "count"
      /\ \A job \in VolumeJobs : job.what = "pref" /\ job.key = "volume"
  BY DEF ListJobs, RouteJobs, MasksJobs, CountJobs, VolumeJobs
<1>2. \A job \in PrefJobs : job.what = "pref"
  BY <1>1 DEF PrefJobs
<1> QED BY <1>1, <1>2

\* A preference asked changes nothing for the outputs, and for the others of its kind.
LEMMA PrefAsked ==
  ASSUME NEW js \in Seq(RigJobs), NEW job \in PrefJobs
  PROVE  /\ Append(js, job) \in Seq(RigJobs)
         /\ \A listing : ListedFirst(js, listing) => ListedFirst(Append(js, job), listing)
         /\ \A r, d, v : WillHold(js, RouteJobsOf(r), d, v)
                           => WillHold(Append(js, job), RouteJobsOf(r), d, v)
         /\ \A M, d, v :
              /\ job \in M => WillHold(Append(js, job), M, d, job.value)
              /\ job \notin M /\ WillHold(js, M, d, v) => WillHold(Append(js, job), M, d, v)
<1>1. job \in RigJobs /\ job \notin ListJobs /\ job \notin RouteJobs
  BY JobsDiffer DEF RigJobs, PrefJobs
<1>2. /\ Len(Append(js, job)) = Len(js) + 1 /\ Len(js) \in Nat
      /\ Append(js, job)[Len(js) + 1] = job
      /\ \A i \in 1..Len(js) : Append(js, job)[i] = js[i]
      /\ Append(js, job) \in Seq(RigJobs) /\ Append(js, job) # <<>>
      /\ (js # <<>> => 1 \in 1..Len(js))
  BY <1>1, AppendProperties, LengthFacts
<1>3. \A i \in 1..Len(Append(js, job)) : i \in 1..Len(js) \/ i = Len(js) + 1
  BY <1>2
<1>4. ASSUME NEW listing, ListedFirst(js, listing)
      PROVE  ListedFirst(Append(js, job), listing)
  BY <1>1, <1>2, <1>3, <1>4 DEF ListedFirst
<1>5. \A r : job \notin RouteJobsOf(r)
  BY <1>1 DEF RouteJobsOf
<1> QED BY <1>1, <1>2, <1>4, <1>5, WillHoldAsked

\* An output's job decides about that output and nothing else.
LEMMA RouteAsked ==
  ASSUME NEW js \in Seq(RigJobs), NEW r \in Routes, NEW job \in RouteJobsOf(r)
  PROVE  /\ Append(js, job) \in Seq(RigJobs)
         /\ ListedFirst(js, FALSE) => ListedFirst(Append(js, job), FALSE)
         /\ \A d : WillHold(Append(js, job), RouteJobsOf(r), d, job.value)
         /\ \A q, d, v : q # r /\ WillHold(js, RouteJobsOf(q), d, v)
                           => WillHold(Append(js, job), RouteJobsOf(q), d, v)
         /\ \A d, v : \A M \in {MasksJobs, CountJobs, VolumeJobs} :
              WillHold(js, M, d, v) => WillHold(Append(js, job), M, d, v)
<1>1. job \in RouteJobs /\ job \in RigJobs /\ job \notin ListJobs /\ job \notin PrefJobs
  BY JobsDiffer DEF RigJobs, RouteJobsOf
<1>2. /\ Len(Append(js, job)) = Len(js) + 1 /\ Len(js) \in Nat
      /\ Append(js, job)[Len(js) + 1] = job
      /\ \A i \in 1..Len(js) : Append(js, job)[i] = js[i]
      /\ Append(js, job) \in Seq(RigJobs)
  BY <1>1
<1>3. \A i \in 1..Len(Append(js, job)) : i \in 1..Len(js) \/ i = Len(js) + 1
  BY <1>2
<1>4. ListedFirst(js, FALSE) => ListedFirst(Append(js, job), FALSE)
  BY <1>1, <1>2, <1>3 DEF ListedFirst
<1>5. \A q : q # r => job \notin RouteJobsOf(q)
  BY DEF RouteJobsOf
<1>6. \A M \in {MasksJobs, CountJobs, VolumeJobs} : job \notin M
  BY <1>1 DEF PrefJobs
<1> QED BY <1>1, <1>2, <1>4, <1>5, <1>6, WillHoldAsked

LEMMA AskOne ==
  ASSUME RigTypes, NEW job \in RigJobs, jobs' = jobs \o <<job>>
  PROVE  jobs' = Append(jobs, job)
BY AppendIsConcat DEF RigTypes

\* A step that is of one output: it waits to be stored, or its job is asked.
LEMMA RouteStep ==
  ASSUME RigTypes, ListInv, KeptInv, NEW r \in Routes,
         store.started = "yes", store'.started = "yes",
         UNCHANGED <<disk, accents, volume, failed>>,
         \/ jobs' = jobs /\ store'.pending.route = r
         \/ \E job \in RouteJobsOf(r) :
              jobs' = Append(jobs, job) /\ job.value = store'.stored[r],
         \A q \in Routes \ {r} :
            /\ store'.stored[q] = store.stored[q]
            /\ store'.pending.route # q => store.pending.route # q
  PROVE  jobs' \in Seq(RigJobs) /\ ListInv' /\ KeptInv'
<1>1. jobs \in Seq(RigJobs)
  BY DEF RigTypes
<1>2. CASE jobs' = jobs /\ store'.pending.route = r
  <2>1. ListInv'
    BY <1>2 DEF ListInv, ListedFirst
  <2>2. KeptInv'
    BY <1>2 DEF KeptInv, RoutesKept, PrefsKept
  <2> QED BY <1>1, <1>2, <2>1, <2>2
<1>3. ASSUME NEW job \in RouteJobsOf(r), jobs' = Append(jobs, job),
             job.value = store'.stored[r]
      PROVE  jobs' \in Seq(RigJobs) /\ ListInv' /\ KeptInv'
  <2>1. ListedFirst(jobs, FALSE)
    BY DEF ListInv, ListedFirst
  <2>2. ListedFirst(jobs', FALSE) /\ jobs' \in Seq(RigJobs)
    BY <1>1, <1>3, <2>1, RouteAsked
  <2>3. ListInv'
    BY <2>2 DEF ListInv, ListedFirst
  <2>4. KeptInv'
    <3> SUFFICES ASSUME ~failed PROVE RoutesKept' /\ PrefsKept'
      BY DEF KeptInv
    <3>1. /\ \A q \in Routes : store.pending.route # q =>
                WillHold(jobs, RouteJobsOf(q), disk.offsets[q], store.stored[q])
          /\ PrefsKept
      BY DEF KeptInv, RoutesKept
    <3>2. WillHold(jobs', RouteJobsOf(r), disk.offsets[r], store'.stored[r])
      BY <1>1, <1>3, RouteAsked
    <3>3. ASSUME NEW q \in Routes \ {r}, store'.pending.route # q
          PROVE  WillHold(jobs', RouteJobsOf(q), disk.offsets[q], store'.stored[q])
      <4>1. WillHold(jobs, RouteJobsOf(q), disk.offsets[q], store.stored[q])
        BY <3>1, <3>3
      <4> QED BY <1>1, <1>3, <4>1, RouteAsked
    <3>4. RoutesKept'
      BY <3>2, <3>3 DEF RoutesKept
    <3>5. PrefsKept'
      BY <1>1, <1>3, <3>1, RouteAsked DEF PrefsKept
    <3> QED BY <3>4, <3>5
  <2> QED BY <2>2, <2>3, <2>4
<1> QED BY <1>2, <1>3

LEMMA AskTwo ==
  ASSUME NEW S, NEW js \in Seq(S), NEW a \in S, NEW b \in S
  PROVE  /\ js \o (<<>> \o <<>>) = js
         /\ js \o (<<a>> \o <<>>) = Append(js, a)
         /\ js \o (<<>> \o <<b>>) = Append(js, b)
         /\ js \o (<<a>> \o <<b>>) = Append(Append(js, a), b)
<1>1. <<>> \in Seq(S) /\ <<a>> \in Seq(S) /\ <<b>> \in Seq(S) /\ Append(js, a) \in Seq(S)
  OBVIOUS
<1>2. /\ <<>> \o <<>> = <<>> /\ <<a>> \o <<>> = <<a>> /\ <<>> \o <<b>> = <<b>>
      /\ js \o <<>> = js
  BY <1>1, ConcatEmptySeq
<1>3. js \o <<a>> = Append(js, a) /\ js \o <<b>> = Append(js, b)
  BY AppendIsConcat
<1>4. (js \o <<a>>) \o <<b>> = js \o (<<a>> \o <<b>>)
  BY <1>1, ConcatAssociative
<1>5. Append(js, a) \o <<b>> = Append(Append(js, a), b)
  BY <1>1, AppendIsConcat
<1> QED BY <1>2, <1>3, <1>4, <1>5

\* What is stored is what was kept: the masks loaded at boot are the masks saved.
LEMMA MasksLoaded ==
  ASSUME NEW m \in Masks
  PROVE  loadedMasks(m) = m
<1>1. m \in [Counts -> SUBSET Nat]
  BY DEF Masks
<1>2. \A c \in Counts : engineMask(m[c], c) = m[c]
  BY DEF Masks, engineMask
<1> QED BY <1>1, <1>2 DEF loadedMasks

LEMMA RigInvInit == RigInit => RigInv
<1> SUFFICES ASSUME RigInit PROVE RigInv
  OBVIOUS
<1> DEFINE job == [what |-> "list", key |-> "none", value |-> Unset]
<1>1. /\ jobs = <<job>> /\ job \in ListJobs /\ job \in RigJobs
      /\ job \notin RouteJobs \union PrefJobs
  BY JobsDiffer DEF RigInit, ListJobs, RigJobs
<1> HIDE DEF job
<1>2. Len(jobs) = 1 /\ jobs[1] = job /\ jobs # <<>> /\ jobs \in Seq(RigJobs)
  BY <1>1
<1>3. [c \in Counts |-> {}] \in Masks /\ Nobody \in Outputs \union {Nobody}
  BY DEF Masks
<1>4. RigTypes
  BY <1>2, <1>3 DEF RigInit, RigTypes, LeastCount, Outputs, NothingPending, Unset
<1>5. ListInv
  BY <1>1, <1>2 DEF RigInit, ListInv, ListedFirst
<1>6. PendingInv /\ OffsetFollowsRoute /\ EngineIsSet
  BY DEF RigInit, PendingInv, OffsetFollowsRoute, EngineIsSet
<1>7. RoutesKept
  BY DEF RigInit, RoutesKept
<1>8. PrefsKept
  BY <1>1, <1>2 DEF RigInit, PrefsKept, WillHold, PrefJobs
<1> QED BY <1>4, <1>5, <1>6, <1>7, <1>8 DEF RigInv, KeptInv

\* Nothing of the rig itself changes.
LEMMA RigRests ==
  ASSUME RigInv, device' \in Outputs, news' \in Seq(Outputs),
         store.started = "listing" => news' = news,
         UNCHANGED <<store, applied, accents, volume, engineMasks, disk, jobs, loose, failed>>
  PROVE  RigInv'
<1>1. RigTypes' /\ ListInv'
  BY DEF RigInv, RigTypes, ListInv, ListedFirst
<1>2. PendingInv' /\ OffsetFollowsRoute' /\ EngineIsSet'
  BY DEF RigInv, PendingInv, OffsetFollowsRoute, EngineIsSet
<1>3. KeptInv'
  BY DEF RigInv, KeptInv, RoutesKept, PrefsKept
<1> QED BY <1>1, <1>2, <1>3 DEF RigInv

StoreStates == [live : Outputs \union {Nobody}, stored : [Routes -> Int],
                pending : [route : Routes \union {"none"}, offset : Int],
                started : {"listing", "yes"}]

\* What is known of a store that has an output.
LEMMA LiveOutput ==
  ASSUME RigInv
  PROVE  /\ store \in StoreStates /\ "none" \notin Routes
         /\ store.live # Nobody => store.live.id \in Routes /\ store.started = "yes"
         /\ store.live.certain => store.live # Nobody
         /\ store.live.id \in Routes => store.live # Nobody
         /\ store.pending # NothingPending => store.started = "yes"
         /\ store.pending.route \in {"none", store.live.id}
         /\ (store.pending.route = "none" <=> store.pending = NothingPending)
<1>1. store \in StoreStates /\ "none" \notin Routes
  BY RigAssumption DEF RigInv, RigTypes, StoreStates
<1>2. Nobody.certain = FALSE /\ Nobody.id = "none" /\ NothingPending.route = "none"
  BY DEF Nobody, NothingPending
<1>3. store.live # Nobody => store.live.id \in Routes /\ store.started = "yes"
  BY <1>1 DEF StoreStates, Outputs, RigInv, ListInv
<1>4. store.pending # NothingPending => store.started = "yes"
  BY <1>1 DEF StoreStates, RigInv, ListInv
<1>5. /\ store.pending.route \in {"none", store.live.id}
      /\ (store.pending.route = "none" <=> store.pending = NothingPending)
  BY <1>1, <1>2 DEF RigInv, PendingInv
<1> QED BY <1>1, <1>2, <1>3, <1>4, <1>5

LEMMA LatencyKeeps ==
  ASSUME RigInv, LatencyRow
  PROVE  RigInv'
<1>1. PICK delta \in {-1, 1} : step(delta)
  BY DEF LatencyRow
<1>2. UNCHANGED <<device, news, engineMasks, disk, failed, accents, volume, jobs>>
  BY DEF LatencyRow, Untouched
<1> DEFINE offset == clampOffset(applied + delta)
           r == store.live.id
<1>3. offset \in Int /\ offset # Unset /\ applied' = offset
  BY <1>1, RigAssumption DEF step, clampOffset, Unset, RigInv, RigTypes
<1>4. CASE ~store.live.certain
  <2>1. store' = store /\ loose' = TRUE
    BY <1>1, <1>4 DEF step
  <2>2. RigTypes' /\ ListInv' /\ PendingInv'
    BY <1>2, <1>3, <2>1 DEF RigInv, RigTypes, ListInv, ListedFirst, PendingInv
  <2>3. OffsetFollowsRoute' /\ EngineIsSet'
    BY <1>2, <2>1 DEF RigInv, OffsetFollowsRoute, EngineIsSet
  <2>4. KeptInv'
    BY <1>2, <2>1 DEF RigInv, KeptInv, RoutesKept, PrefsKept
  <2> QED BY <2>2, <2>3, <2>4 DEF RigInv
<1>5. CASE store.live.certain
  <2>1. /\ store' = [store EXCEPT !.stored[r] = offset,
                                  !.pending = [route |-> r, offset |-> offset]]
        /\ loose' = FALSE
    BY <1>1, <1>5 DEF step
  <2>2. r \in Routes /\ store.started = "yes" /\ store \in StoreStates
    BY <1>5, LiveOutput
  <2> HIDE DEF offset
  <2>3. /\ store' \in StoreStates /\ store'.live = store.live /\ store'.started = "yes"
        /\ store'.pending = [route |-> r, offset |-> offset]
        /\ store'.stored[r] = offset
        /\ \A q \in Routes \ {r} : store'.stored[q] = store.stored[q]
    BY <1>3, <2>1, <2>2 DEF StoreStates
  <2>4. \A q \in Routes \ {r} : store.pending.route # q
    BY LiveOutput
  <2> HIDE DEF r
  <2>5. jobs' \in Seq(RigJobs) /\ ListInv' /\ KeptInv'
    BY <1>2, <2>2, <2>3, <2>4, RouteStep DEF RigInv
  <2>6. RigTypes'
    BY <1>2, <1>3, <2>3, <2>5 DEF RigInv, RigTypes, StoreStates
  <2>7. PendingInv'
    BY <2>2, <2>3 DEF PendingInv, r
  <2>8. OffsetFollowsRoute'
    BY <1>3, <2>3 DEF OffsetFollowsRoute, OffsetOf, r
  <2>9. EngineIsSet'
    BY <1>2 DEF RigInv, EngineIsSet
  <2> QED BY <2>5, <2>6, <2>7, <2>8, <2>9 DEF RigInv
<1> QED BY <1>4, <1>5

LEMMA CalibratedKeeps ==
  ASSUME RigInv, Calibrated
  PROVE  RigInv'
<1> DEFINE r == store.live.id
<1>1. PICK o \in 1..Top : record([route |-> r, offset |-> o])
  BY DEF Calibrated
<1>2. /\ UNCHANGED <<device, news, engineMasks, disk, failed, accents, volume>>
      /\ store.started = "yes" /\ store.live.certain
  BY DEF Calibrated, Untouched
<1>3. r \in Routes /\ store \in StoreStates /\ store.pending.route \in {"none", r}
  BY <1>2, LiveOutput
<1> DEFINE job == SaveJob([route |-> r, offset |-> o])
<1>4. o \in Int /\ o # Unset
  BY RigAssumption DEF Unset
<1>5. job \in RouteJobsOf(r) /\ job \in RigJobs /\ job.value = o
  BY <1>3, <1>4 DEF SaveJob, RouteJobsOf, RouteJobs, RigJobs
<1>6. /\ store' = [cancelPending(store, r) EXCEPT !.stored[r] = o]
      /\ applied' = o /\ loose' = FALSE /\ jobs' = jobs \o <<job>>
  BY <1>1 DEF record, Ask
<1>7. /\ cancelPending(store, r) \in StoreStates
      /\ cancelPending(store, r).stored = store.stored
      /\ cancelPending(store, r).live = store.live
      /\ cancelPending(store, r).started = "yes"
      /\ cancelPending(store, r).pending = NothingPending
  <2>1. NothingPending \in [route : Routes \union {"none"}, offset : Int]
    BY DEF NothingPending, Unset
  <2>2. CASE store.pending.route # r
    <3>1. store.pending = NothingPending
      BY <1>3, <2>2, LiveOutput
    <3> QED BY <1>2, <1>3, <2>2, <3>1 DEF cancelPending
  <2>3. CASE store.pending.route = r
    BY <1>2, <1>3, <2>1, <2>3 DEF cancelPending, StoreStates
  <2> QED BY <2>2, <2>3
<1>8. /\ store' \in StoreStates /\ store'.live = store.live /\ store'.started = "yes"
      /\ store'.pending = NothingPending /\ store'.stored[r] = o
      /\ \A q \in Routes \ {r} : store'.stored[q] = store.stored[q]
  BY <1>3, <1>4, <1>6, <1>7 DEF StoreStates
<1>9. \A q \in Routes \ {r} : store.pending.route # q
  BY <1>3, LiveOutput
<1> HIDE DEF job
<1>10. jobs' = Append(jobs, job)
  BY <1>5, <1>6, AskOne DEF RigInv
<1> HIDE DEF r
<1>11. jobs' \in Seq(RigJobs) /\ ListInv' /\ KeptInv'
  BY <1>2, <1>3, <1>5, <1>8, <1>9, <1>10, RouteStep DEF RigInv
<1>12. RigTypes'
  BY <1>2, <1>4, <1>6, <1>8, <1>11 DEF RigInv, RigTypes, StoreStates
<1>13. PendingInv' /\ EngineIsSet'
  BY <1>2, <1>8 DEF PendingInv, RigInv, EngineIsSet
<1>14. OffsetFollowsRoute'
  BY <1>4, <1>6, <1>8 DEF OffsetFollowsRoute, OffsetOf, r
<1> QED BY <1>11, <1>12, <1>13, <1>14 DEF RigInv

LEMMA ClearKeeps ==
  ASSUME RigInv, NEW r \in Routes, store.stored[r] # Unset, clear(r),
         UNCHANGED <<device, news, engineMasks, disk, failed, accents, volume>>
  PROVE  RigInv'
<1>1. store \in StoreStates /\ store.started = "yes"
  BY LiveOutput DEF RigInv, ListInv, StoreStates
<1> DEFINE job == RemoveJob(r)
           s == cancelPending(store, r)
<1>2. job \in RouteJobsOf(r) /\ job \in RigJobs /\ job.value = Unset
  BY DEF RemoveJob, RouteJobsOf, RouteJobs, RigJobs
<1>3. store' = [s EXCEPT !.stored[r] = Unset] /\ jobs' = jobs \o <<job>>
  BY DEF clear, Ask
<1>4. /\ s \in StoreStates /\ s.stored = store.stored /\ s.live = store.live
      /\ s.started = "yes"
      /\ s.pending = NothingPending \/ (s.pending = store.pending /\ store.pending.route # r)
      /\ s.pending.route = store.pending.route \/ store.pending.route = r
  <2>1. NothingPending \in [route : Routes \union {"none"}, offset : Int]
    BY DEF NothingPending, Unset
  <2>2. CASE store.pending.route # r
    BY <1>1, <2>2 DEF cancelPending
  <2>3. CASE store.pending.route = r
    BY <1>1, <2>1, <2>3 DEF cancelPending, StoreStates
  <2> QED BY <2>2, <2>3
<1> HIDE DEF s, job
<1>5. /\ store' \in StoreStates /\ store'.live = store.live /\ store'.started = "yes"
      /\ store'.pending = s.pending /\ store'.stored[r] = Unset
      /\ \A q \in Routes \ {r} : store'.stored[q] = store.stored[q]
  <2>1. Unset \in Int
    BY DEF Unset
  <2> QED BY <1>3, <1>4, <2>1 DEF StoreStates
<1>6. \A q \in Routes \ {r} : store'.pending.route # q => store.pending.route # q
  BY <1>4, <1>5
<1>7. jobs' = Append(jobs, job)
  BY <1>2, <1>3, AskOne DEF RigInv
<1>8. jobs' \in Seq(RigJobs) /\ ListInv' /\ KeptInv'
  BY <1>1, <1>2, <1>5, <1>6, <1>7, RouteStep DEF RigInv
<1>9. CASE store.live.id = r
  <2>1. applied' = 0
    BY <1>9 DEF clear
  <2>2. RigTypes'
    BY <1>5, <1>8, <2>1 DEF RigInv, RigTypes, StoreStates
  <2>3. PendingInv' /\ OffsetFollowsRoute' /\ EngineIsSet'
    BY <1>4, <1>5, <1>9, <2>1 DEF RigInv, PendingInv, OffsetFollowsRoute, OffsetOf, EngineIsSet
  <2> QED BY <1>8, <2>2, <2>3 DEF RigInv
<1>10. CASE store.live.id # r
  <2>1. applied' = applied /\ loose' = loose
    BY <1>10 DEF clear
  <2>2. RigTypes'
    BY <1>5, <1>8, <2>1 DEF RigInv, RigTypes, StoreStates
  <2>3. PendingInv' /\ EngineIsSet'
    BY <1>4, <1>5 DEF RigInv, PendingInv, EngineIsSet
  <2>4. OffsetFollowsRoute'
    BY <1>5, <1>10, <2>1, LiveOutput DEF RigInv, OffsetFollowsRoute, OffsetOf
  <2> QED BY <1>8, <2>2, <2>3, <2>4 DEF RigInv
<1> QED BY <1>9, <1>10

LEMMA RouteSheetKeeps ==
  ASSUME RigInv, RouteSheet
  PROVE  RigInv'
<1>1. UNCHANGED <<device, news, engineMasks, disk, failed, accents, volume>>
  BY DEF RouteSheet, Untouched
<1>2. CASE /\ sheet.route \in useRouteRows /\ rowView(sheet.route).stored
           /\ clear(sheet.route)
  <2>1. sheet.route \in Routes
    BY <1>2 DEF useRouteRows, routeRows, rowView
  <2>2. store.stored[sheet.route] # Unset
    BY <1>2 DEF rowView
  <2> QED BY <1>1, <1>2, <2>1, <2>2, ClearKeeps
<1>3. CASE UNCHANGED <<store, applied, jobs, loose>>
  BY <1>1, <1>3, RigRests DEF RigInv, RigTypes
<1> QED BY <1>2, <1>3 DEF RouteSheet, Rig

\* What was pending is asked, and no longer pending.
LEMMA FlushKeeps ==
  ASSUME RigInv, NEW live \in Outputs, Flushing(store),
         store' = [flush(store) EXCEPT !.live = live], Ask(flushed(store)),
         UNCHANGED <<disk, accents, volume, failed>>
  PROVE  /\ store' \in StoreStates /\ store'.live = live /\ store'.started = "yes"
         /\ store'.pending = NothingPending /\ store'.stored = store.stored
         /\ jobs' \in Seq(RigJobs) /\ ListInv' /\ KeptInv'
<1> DEFINE r == store.pending.route
           job == SaveJob(store.pending)
<1>1. /\ store.pending # NothingPending /\ store \in StoreStates
      /\ store.started = "yes"
      /\ r \in Routes /\ store.pending.offset = store.stored[r]
  BY LiveOutput DEF Flushing, RigInv, PendingInv
<1>2. job \in RouteJobsOf(r) /\ job \in RigJobs /\ job.value = store.stored[r]
  BY <1>1 DEF SaveJob, RouteJobsOf, RouteJobs, RigJobs, StoreStates
<1>3. jobs' = jobs \o <<job>>
  BY DEF Ask, flushed
<1> HIDE DEF job
<1>4. jobs' = Append(jobs, job)
  BY <1>2, <1>3, AskOne DEF RigInv
<1>5. NothingPending \in [route : Routes \union {"none"}, offset : Int]
  BY DEF NothingPending, Unset
<1>6. /\ store' \in StoreStates /\ store'.live = live /\ store'.started = "yes"
      /\ store'.pending = NothingPending /\ store'.stored = store.stored
  BY <1>1, <1>5 DEF StoreStates, flush
<1>7. \A q \in Routes \ {r} : store.pending.route # q
  OBVIOUS
<1> HIDE DEF r
<1>8. jobs' \in Seq(RigJobs) /\ ListInv' /\ KeptInv'
  BY <1>1, <1>2, <1>4, <1>6, <1>7, RouteStep DEF RigInv
<1> QED BY <1>6, <1>8

LEMMA SettlesKeeps ==
  ASSUME RigInv, Settles
  PROVE  RigInv'
<1>1. /\ Flushing(store) /\ store' = flush(store) /\ Ask(flushed(store))
      /\ UNCHANGED <<device, news, engineMasks, disk, failed, applied, loose, accents, volume>>
  BY DEF Settles, Untouched
<1>2. store \in StoreStates /\ store.live \in Outputs
  BY <1>1, LiveOutput DEF Flushing, StoreStates, RigInv, ListInv, PendingInv
<1>3. store' = [flush(store) EXCEPT !.live = store.live]
  BY <1>1, <1>2 DEF flush, StoreStates
<1>4. /\ store' \in StoreStates /\ store'.live = store.live /\ store'.started = "yes"
      /\ store'.pending = NothingPending /\ store'.stored = store.stored
      /\ jobs' \in Seq(RigJobs) /\ ListInv' /\ KeptInv'
  BY <1>1, <1>2, <1>3, FlushKeeps
<1>5. RigTypes'
  BY <1>1, <1>4 DEF RigInv, RigTypes, StoreStates
<1>6. PendingInv' /\ OffsetFollowsRoute' /\ EngineIsSet'
  BY <1>1, <1>4 DEF RigInv, PendingInv, OffsetFollowsRoute, EngineIsSet
<1> QED BY <1>4, <1>5, <1>6 DEF RigInv

LEMMA RouteHeardKeeps ==
  ASSUME RigInv, RouteHeard
  PROVE  RigInv'
<1> DEFINE route == Head(news)
<1>1. /\ news # <<>> /\ news' = Tail(news) /\ onRoute(route)
      /\ UNCHANGED <<device, accents, volume, engineMasks, disk, failed>>
  BY DEF RouteHeard
<1>2. route \in Outputs /\ news' \in Seq(Outputs) /\ store.started = "yes"
      /\ store \in StoreStates
  BY <1>1, LiveOutput DEF RigInv, RigTypes, ListInv, StoreStates
<1> HIDE DEF route
<1>3. /\ applied' = appliedOnRoute(store, route)
      /\ (loose' <=> loose /\ store.live.id = route.id)
  BY <1>1 DEF onRoute
<1>4. /\ store' \in StoreStates /\ store'.live = route /\ store'.started = "yes"
      /\ store'.stored = store.stored
      /\ store'.pending = NothingPending \/ (store'.pending = store.pending
                                              /\ store.pending.route = route.id)
      /\ jobs' \in Seq(RigJobs) /\ ListInv' /\ KeptInv'
  <2>1. CASE store.pending.route # route.id /\ Flushing(store)
    <3>1. store' = [flush(store) EXCEPT !.live = route] /\ Ask(flushed(store))
      BY <1>1, <2>1 DEF onRoute
    <3> QED BY <1>1, <1>2, <2>1, <3>1, FlushKeeps
  <2>2. CASE store.pending.route = route.id \/ ~Flushing(store)
    <3>1. jobs \in Seq(RigJobs)
      BY DEF RigInv, RigTypes
    <3>2. store' = [store EXCEPT !.live = route] /\ jobs' = jobs
      <4>1. CASE store.pending.route = route.id
        BY <1>1, <4>1 DEF onRoute
      <4>2. CASE store.pending.route # route.id
        <5>1. store.pending = NothingPending
          BY <2>2, <4>2 DEF Flushing
        <5>2. flush(store) = store
          BY <1>2, <5>1 DEF flush, StoreStates
        <5>3. flushed(store) = <<>>
          BY <5>1 DEF flushed, Flushing
        <5>4. store' = [store EXCEPT !.live = route] /\ jobs' = jobs \o <<>>
          BY <1>1, <4>2, <5>2, <5>3 DEF onRoute, Ask
        <5> QED BY <3>1, <5>4, ConcatEmptySeq
      <4> QED BY <4>1, <4>2
    <3>3. /\ store' \in StoreStates /\ store'.live = route /\ store'.started = "yes"
          /\ store'.stored = store.stored /\ store'.pending = store.pending
      BY <1>2, <3>2 DEF StoreStates
    <3>4. ListInv'
      BY <1>2, <3>2, <3>3 DEF RigInv, ListInv, ListedFirst
    <3>5. KeptInv'
      BY <1>1, <1>2, <3>2, <3>3 DEF RigInv, KeptInv, RoutesKept, PrefsKept
    <3> QED BY <2>2, <3>1, <3>2, <3>3, <3>4, <3>5 DEF Flushing
  <2> QED BY <2>1, <2>2
<1>5. applied' \in Int
  BY <1>2, <1>3 DEF appliedOnRoute, OffsetOf, RigInv, RigTypes, StoreStates, Outputs
<1>6. RigTypes'
  BY <1>1, <1>2, <1>4, <1>5 DEF RigInv, RigTypes, StoreStates
<1>7. PendingInv'
  BY <1>4 DEF RigInv, PendingInv
<1>8. OffsetFollowsRoute'
  <2>1. CASE store.live.id = route.id
    <3>1. store.live # Nobody
      BY <1>2, <2>1, LiveOutput DEF Outputs
    <3> QED BY <1>3, <1>4, <2>1, <3>1 DEF RigInv, OffsetFollowsRoute, appliedOnRoute
  <2>2. CASE store.live.id # route.id
    BY <1>3, <1>4, <2>2 DEF OffsetFollowsRoute, appliedOnRoute
  <2> QED BY <2>1, <2>2
<1>9. EngineIsSet'
  BY <1>1 DEF RigInv, EngineIsSet
<1> QED BY <1>4, <1>6, <1>7, <1>8, <1>9 DEF RigInv

\* New masks are kept by slot, and asked where they differ.
LEMMA WriteKeeps ==
  ASSUME RigInv, NEW count \in Counts, NEW mask \in SUBSET Nat, write(count, mask),
         UNCHANGED <<device, news, store, applied, loose, volume, disk, failed>>
  PROVE  RigInv'
<1> DEFINE next == [accents.masks EXCEPT ![count] = engineMask(mask, count)]
           a == Pref("count", count)
           b == Pref("masks", next)
           js == IF accents.lastCount = count THEN jobs ELSE Append(jobs, a)
<1>1. accents.masks \in Masks /\ accents.masks \in [Counts -> SUBSET Nat]
  BY DEF RigInv, RigTypes, Masks
<1>2. next \in Masks
  BY <1>1 DEF Masks, engineMask
<1>3. /\ a \in CountJobs /\ a \in PrefJobs /\ a \in RigJobs /\ a.value = count
      /\ b \in MasksJobs /\ b \in PrefJobs /\ b \in RigJobs /\ b.value = next
  BY <1>2 DEF Pref, CountJobs, MasksJobs, PrefJobs, RigJobs
<1>4. jobs \in Seq(RigJobs)
  BY DEF RigInv, RigTypes
<1>5. /\ accents' = [accents EXCEPT !.lastCount = count, !.masks = next]
      /\ jobs' = jobs \o ((IF accents.lastCount = count THEN <<>> ELSE <<a>>)
                          \o (IF next = accents.masks THEN <<>> ELSE <<b>>))
      /\ engineMasks' = [c \in Counts |->
                           IF next[c] # accents.masks[c] THEN next[c]
                           ELSE engineMasks[c]]
  BY DEF write, Ask
<1>6. accents'.masks = next /\ accents'.lastCount = count
  BY <1>5 DEF RigInv, RigTypes
<1> HIDE DEF next, a, b
<1>7. jobs' = IF next = accents.masks THEN js ELSE Append(js, b)
  <2>1. a \in RigJobs /\ b \in RigJobs
    BY <1>3
  <2>2. /\ jobs \o (<<>> \o <<>>) = jobs
        /\ jobs \o (<<a>> \o <<>>) = Append(jobs, a)
        /\ jobs \o (<<>> \o <<b>>) = Append(jobs, b)
        /\ jobs \o (<<a>> \o <<b>>) = Append(Append(jobs, a), b)
    BY <1>4, <2>1, AskTwo
  <2>3. jobs' = jobs \o ((IF accents.lastCount = count THEN <<>> ELSE <<a>>)
                          \o (IF next = accents.masks THEN <<>> ELSE <<b>>))
    BY <1>5
  <2>4. CASE accents.lastCount = count
    BY <2>2, <2>3, <2>4
  <2>5. CASE accents.lastCount # count
    BY <2>2, <2>3, <2>5
  <2> QED BY <2>4, <2>5
<1>8. /\ js \in Seq(RigJobs)
      /\ ListedFirst(js, store.started = "listing")
      /\ ~failed => /\ RoutesKept => \A r \in Routes :
                         store.started = "yes" /\ store.pending.route # r =>
                           WillHold(js, RouteJobsOf(r), disk.offsets[r], store.stored[r])
                    /\ WillHold(js, MasksJobs, disk.masks, accents.masks)
                    /\ WillHold(js, CountJobs, disk.count, count)
                    /\ WillHold(js, VolumeJobs, disk.volume, volume.store)
  <2>1. ListedFirst(jobs, store.started = "listing")
    BY DEF RigInv, ListInv
  <2>2. CASE accents.lastCount = count
    BY <1>4, <2>1, <2>2 DEF RigInv, KeptInv, RoutesKept, PrefsKept
  <2>3. CASE accents.lastCount # count
    <3>1. js = Append(jobs, a)
      BY <2>3
    <3>2. a \notin MasksJobs /\ a \notin VolumeJobs
      BY <1>3, JobsDiffer
    <3> HIDE DEF js
    <3>3. js \in Seq(RigJobs) /\ ListedFirst(js, store.started = "listing")
      BY <1>3, <1>4, <2>1, <3>1, PrefAsked
    <3>4. ASSUME ~failed
          PROVE  /\ WillHold(js, MasksJobs, disk.masks, accents.masks)
                 /\ WillHold(js, CountJobs, disk.count, count)
                 /\ WillHold(js, VolumeJobs, disk.volume, volume.store)
      BY <1>3, <1>4, <3>1, <3>2, <3>4, PrefAsked DEF RigInv, KeptInv, PrefsKept
    <3>5. ASSUME RoutesKept, NEW r \in Routes, store.started = "yes",
                 store.pending.route # r
          PROVE  WillHold(js, RouteJobsOf(r), disk.offsets[r], store.stored[r])
      BY <1>3, <1>4, <3>1, <3>5, PrefAsked DEF RoutesKept
    <3> QED BY <3>3, <3>4, <3>5
  <2> QED BY <2>2, <2>3
<1> HIDE DEF js
<1>9. /\ jobs' \in Seq(RigJobs)
      /\ ListedFirst(jobs', store.started = "listing")
      /\ ~failed => /\ RoutesKept => \A r \in Routes :
                         store.started = "yes" /\ store.pending.route # r =>
                           WillHold(jobs', RouteJobsOf(r), disk.offsets[r], store.stored[r])
                    /\ WillHold(jobs', MasksJobs, disk.masks, next)
                    /\ WillHold(jobs', CountJobs, disk.count, count)
                    /\ WillHold(jobs', VolumeJobs, disk.volume, volume.store)
  <2>1. CASE next = accents.masks
    BY <1>7, <1>8, <2>1
  <2>2. CASE next # accents.masks
    <3>1. jobs' = Append(js, b)
      BY <1>7, <2>2
    <3>2. b \notin CountJobs /\ b \notin VolumeJobs
      BY <1>3, JobsDiffer
    <3>3. jobs' \in Seq(RigJobs) /\ ListedFirst(jobs', store.started = "listing")
      BY <1>3, <1>8, <3>1, PrefAsked
    <3>4. ASSUME ~failed
          PROVE  /\ WillHold(jobs', MasksJobs, disk.masks, next)
                 /\ WillHold(jobs', CountJobs, disk.count, count)
                 /\ WillHold(jobs', VolumeJobs, disk.volume, volume.store)
      BY <1>3, <1>8, <3>1, <3>2, <3>4, PrefAsked
    <3>5. ASSUME ~failed, RoutesKept, NEW r \in Routes, store.started = "yes",
                 store.pending.route # r
          PROVE  WillHold(jobs', RouteJobsOf(r), disk.offsets[r], store.stored[r])
      BY <1>3, <1>8, <3>1, <3>5, PrefAsked
    <3> QED BY <3>3, <3>4, <3>5
  <2> QED BY <2>1, <2>2
<1>10. RigTypes'
  <2>1. accents' \in [masks : Masks, lastCount : Counts \union {LeastCount}]
    BY <1>2, <1>5 DEF RigInv, RigTypes
  <2> QED BY <1>9, <2>1 DEF RigInv, RigTypes
<1>11. ListInv'
  BY <1>9 DEF RigInv, ListInv
<1>12. PendingInv' /\ OffsetFollowsRoute'
  BY DEF RigInv, PendingInv, OffsetFollowsRoute
<1>13. EngineIsSet'
  <2>1. next \in [Counts -> SUBSET Nat]
    BY <1>2 DEF Masks
  <2>2. engineMasks' = next
    BY <1>5, <2>1 DEF RigInv, EngineIsSet
  <2> QED BY <1>6, <2>2 DEF RigInv, EngineIsSet
<1>14. KeptInv'
  BY <1>6, <1>9 DEF RigInv, KeptInv, RoutesKept, PrefsKept
<1> QED BY <1>10, <1>11, <1>12, <1>13, <1>14 DEF RigInv

LEMMA AccentsKeeps ==
  ASSUME RigInv, AccentsSheet
  PROVE  RigInv'
<1>1. UNCHANGED <<device, news, store, applied, loose, volume, disk, failed>>
  BY DEF AccentsSheet
<1>2. ASSUME NEW count \in Counts, NEW slot \in 0..(count - 1),
             write(count, toggleSlotMask(accents.masks[count], slot))
      PROVE  RigInv'
  <2>1. accents.masks[count] \in SUBSET Nat /\ slot \in Nat
    BY RigAssumption DEF RigInv, RigTypes, Masks
  <2>2. toggleSlotMask(accents.masks[count], slot) \in SUBSET Nat
    BY <2>1 DEF toggleSlotMask
  <2> QED BY <1>1, <1>2, <2>2, WriteKeeps
<1>3. ASSUME NEW count \in Counts, write(count, {}) PROVE RigInv'
  BY <1>1, <1>3, WriteKeeps
<1>4. CASE UNCHANGED <<accents, engineMasks, jobs>>
  BY <1>1, <1>4, RigRests DEF RigInv, RigTypes
<1> QED BY <1>2, <1>3, <1>4 DEF AccentsSheet

LEMMA VolumeKeeps ==
  ASSUME RigInv, VolumeRow
  PROVE  RigInv'
<1>1. UNCHANGED <<device, news, engineMasks, disk, failed, store, applied, loose, accents>>
  BY DEF VolumeRow, Untouched
<1>2. PendingInv' /\ OffsetFollowsRoute'
  BY <1>1 DEF RigInv, PendingInv, OffsetFollowsRoute
<1>3. jobs \in Seq(RigJobs)
  BY DEF RigInv, RigTypes
<1>4. volume \in [held : BOOLEAN, store : Volumes \union {Unity},
                  engine : Volumes \union {Unity}]
  BY DEF RigInv, RigTypes
<1>5. ASSUME volume' \in [held : BOOLEAN, store : Volumes \union {Unity},
                          engine : Volumes \union {Unity}],
             volume'.held => volume'.engine \in Volumes,
             ~volume'.held => volume'.engine = volume'.store,
             \/ jobs' = jobs /\ volume'.store = volume.store
             \/ \E job \in VolumeJobs :
                  jobs' = Append(jobs, job) /\ job.value = volume'.store
      PROVE  RigInv'
  <2>1. CASE jobs' = jobs /\ volume'.store = volume.store
    <3>1. RigTypes' /\ ListInv' /\ EngineIsSet'
      BY <1>1, <1>5, <2>1 DEF RigInv, RigTypes, ListInv, ListedFirst, EngineIsSet
    <3>2. KeptInv'
      BY <1>1, <2>1 DEF RigInv, KeptInv, RoutesKept, PrefsKept
    <3> QED BY <1>2, <3>1, <3>2 DEF RigInv
  <2>2. ASSUME NEW job \in VolumeJobs, jobs' = Append(jobs, job),
               job.value = volume'.store
        PROVE  RigInv'
    <3>1. job \in PrefJobs /\ job \notin MasksJobs /\ job \notin CountJobs
      BY JobsDiffer DEF PrefJobs
    <3>2. /\ jobs' \in Seq(RigJobs)
          /\ ListedFirst(jobs, store.started = "listing")
               => ListedFirst(jobs', store.started = "listing")
      BY <1>3, <2>2, <3>1, PrefAsked
    <3>3. RigTypes' /\ ListInv' /\ EngineIsSet'
      BY <1>1, <1>5, <3>2 DEF RigInv, RigTypes, ListInv, EngineIsSet
    <3>4. ASSUME RoutesKept PROVE RoutesKept'
      BY <1>1, <1>3, <2>2, <3>1, <3>4, PrefAsked DEF RoutesKept
    <3>5. ASSUME PrefsKept PROVE PrefsKept'
      BY <1>1, <1>3, <2>2, <3>1, <3>5, PrefAsked DEF PrefsKept
    <3>6. KeptInv'
      BY <1>1, <3>4, <3>5 DEF RigInv, KeptInv
    <3> QED BY <1>2, <3>3, <3>6 DEF RigInv
  <2> QED BY <1>5, <2>1, <2>2
<1>6. ASSUME NEW v \in Volumes, slide(v), jobs' = jobs PROVE RigInv'
  BY <1>4, <1>5, <1>6 DEF slide
<1>7. ASSUME volume.held, setVolume(volume.engine) PROVE RigInv'
  <2> DEFINE v == volume.engine
             job == Pref("volume", v)
  <2>1. v \in Volumes
    BY <1>7 DEF RigInv, RigTypes
  <2>2. volume' = [held |-> FALSE, store |-> v, engine |-> v]
    BY <1>7 DEF setVolume
  <2>3. CASE v = volume.store
    <3>1. jobs' = jobs \o <<>>
      BY <1>7, <2>3 DEF setVolume, Ask
    <3>2. jobs' = jobs
      BY <1>3, <3>1, ConcatEmptySeq
    <3> QED BY <1>5, <2>1, <2>2, <2>3, <3>2
  <2>4. CASE v # volume.store
    <3>1. jobs' = jobs \o <<job>> /\ job \in VolumeJobs /\ job.value = v
      BY <1>7, <2>1, <2>4 DEF setVolume, Ask, VolumeJobs, Pref
    <3>2. jobs' = Append(jobs, job)
      BY <3>1, AskOne DEF RigInv, RigJobs
    <3> QED BY <1>5, <2>1, <2>2, <3>1, <3>2
  <2> QED BY <2>3, <2>4
<1>8. ASSUME cancel PROVE RigInv'
  BY <1>4, <1>5, <1>8 DEF cancel
<1> QED BY <1>6, <1>7, <1>8 DEF VolumeRow

\* A process that dies takes what it had asked with it, and the next one starts
\* from what the database holds.
LEMMA KilledKeeps ==
  ASSUME RigInv, Killed
  PROVE  RigInv'
<1> DEFINE job == [what |-> "list", key |-> "none", value |-> Unset]
<1>1. /\ jobs' = <<job>> /\ job \in ListJobs /\ job \in RigJobs
      /\ job \notin RouteJobs \union PrefJobs
  BY JobsDiffer DEF Killed, ListJobs, RigJobs
<1> HIDE DEF job
<1>2. Len(jobs') = 1 /\ jobs'[1] = job /\ jobs' # <<>> /\ jobs' \in Seq(RigJobs)
  BY <1>1
<1>3. /\ startRig(disk) /\ news' = <<>> /\ ~failed' /\ loose' = FALSE
      /\ UNCHANGED <<device, disk>>
  BY DEF Killed
<1>4. /\ disk.masks \in Masks /\ loadedMasks(disk.masks) = disk.masks
      /\ disk.count \in Counts \union {LeastCount} /\ disk.volume \in Volumes \union {Unity}
  BY MasksLoaded DEF RigInv, RigTypes
<1>5. /\ accents' = [masks |-> disk.masks, lastCount |-> disk.count]
      /\ engineMasks' = disk.masks
      /\ volume' = [held |-> FALSE, store |-> disk.volume, engine |-> disk.volume]
      /\ store' = [live |-> Nobody, stored |-> [r \in Routes |-> Unset],
                   pending |-> NothingPending, started |-> "listing"]
      /\ applied' = 0
  BY <1>3, <1>4 DEF startRig
<1>6. store' \in StoreStates
  BY <1>5 DEF StoreStates, NothingPending, Unset
<1>7. news' \in Seq(Outputs) /\ device' \in Outputs
  BY <1>3 DEF RigInv, RigTypes
<1>8. RigTypes'
  BY <1>2, <1>3, <1>4, <1>5, <1>6, <1>7 DEF RigInv, RigTypes, StoreStates
<1>9. ListInv'
  BY <1>1, <1>2, <1>3, <1>5 DEF ListInv, ListedFirst
<1>10. PendingInv' /\ OffsetFollowsRoute' /\ EngineIsSet'
  BY <1>5 DEF PendingInv, OffsetFollowsRoute, EngineIsSet
<1>11. RoutesKept'
  BY <1>5 DEF RoutesKept
<1>12. PrefsKept'
  BY <1>1, <1>2, <1>3, <1>5 DEF PrefsKept, WillHold, PrefJobs
<1> QED BY <1>8, <1>9, <1>10, <1>11, <1>12 DEF RigInv, KeptInv

\* What the database holds after a job: the job's value, where it is one of these.
LEMMA JobWrites ==
  ASSUME RigTypes, NEW job \in RigJobs
  PROVE  /\ Written(job) \in [offsets : [Routes -> Int], masks : Masks,
               count : Counts \union {LeastCount}, volume : Volumes \union {Unity}]
         /\ \A r \in Routes : Written(job).offsets[r] =
              IF job \in RouteJobsOf(r) THEN job.value ELSE disk.offsets[r]
         /\ Written(job).masks = IF job \in MasksJobs THEN job.value ELSE disk.masks
         /\ Written(job).count = IF job \in CountJobs THEN job.value ELSE disk.count
         /\ Written(job).volume = IF job \in VolumeJobs THEN job.value ELSE disk.volume
         /\ job \in ListJobs <=> job.what = "list"
<1> DEFINE DiskStates ==
      [offsets : [Routes -> Int], masks : Masks,
       count : Counts \union {LeastCount}, volume : Volumes \union {Unity}]
<1>1. disk \in DiskStates
  BY DEF RigTypes
<1>2. CASE job \in ListJobs
  <2>1. Written(job) = disk /\ job.what = "list" /\ job \notin RouteJobs \union PrefJobs
    BY <1>2, JobsDiffer DEF Written, ListJobs
  <2> QED BY <1>1, <1>2, <2>1 DEF RouteJobsOf, PrefJobs
<1>3. CASE job \in RouteJobs
  <2>1. /\ job.what \in {"save", "remove"} /\ job.key \in Routes /\ job.value \in Int
        /\ job.what = "remove" => job.value = Unset
    BY <1>3 DEF RouteJobs, Unset
  <2>2. Written(job) = [disk EXCEPT !.offsets[job.key] = job.value]
    BY <2>1 DEF Written
  <2>3. job \notin ListJobs \union PrefJobs
    BY <1>3, JobsDiffer
  <2>4. /\ Written(job) \in DiskStates
        /\ Written(job).masks = disk.masks /\ Written(job).count = disk.count
        /\ Written(job).volume = disk.volume
        /\ \A r \in Routes : Written(job).offsets[r] =
             IF r = job.key THEN job.value ELSE disk.offsets[r]
    BY <1>1, <2>1, <2>2
  <2> QED BY <1>3, <2>1, <2>3, <2>4 DEF RouteJobsOf, PrefJobs
<1>4. CASE job \in MasksJobs
  <2>1. job.what = "pref" /\ job.key = "masks" /\ job.value \in Masks
    BY <1>4 DEF MasksJobs
  <2>2. Written(job) = [disk EXCEPT !.masks = job.value]
    BY <2>1 DEF Written
  <2>3. job \notin ListJobs \union RouteJobs \union CountJobs \union VolumeJobs
    BY <1>4, JobsDiffer DEF PrefJobs
  <2> QED BY <1>1, <1>4, <2>1, <2>2, <2>3 DEF RouteJobsOf
<1>5. CASE job \in CountJobs
  <2>1. job.what = "pref" /\ job.key = "count" /\ job.value \in Counts
    BY <1>5 DEF CountJobs
  <2>2. Written(job) = [disk EXCEPT !.count = job.value]
    BY <2>1 DEF Written
  <2>3. job \notin ListJobs \union RouteJobs \union MasksJobs \union VolumeJobs
    BY <1>5, JobsDiffer DEF PrefJobs
  <2> QED BY <1>1, <1>5, <2>1, <2>2, <2>3 DEF RouteJobsOf
<1>6. CASE job \in VolumeJobs
  <2>1. job.what = "pref" /\ job.key = "volume" /\ job.value \in Volumes
    BY <1>6 DEF VolumeJobs
  <2>2. Written(job) = [disk EXCEPT !.volume = job.value]
    BY <2>1 DEF Written
  <2>3. job \notin ListJobs \union RouteJobs \union MasksJobs \union CountJobs
    BY <1>6, JobsDiffer DEF PrefJobs
  <2> QED BY <1>1, <1>6, <2>1, <2>2, <2>3 DEF RouteJobsOf
<1> QED BY <1>2, <1>3, <1>4, <1>5, <1>6 DEF RigJobs

LEMMA Shifted ==
  ASSUME NEW n \in Nat \ {0}
  PROVE  \A i \in 1..(n - 1) : i + 1 \in 1..n /\ i + 1 # 1
OBVIOUS

LEMMA OneLong ==
  ASSUME NEW S, NEW x \in S
  PROVE  <<x>> \in Seq(S)
OBVIOUS

\* What is common to a job that is done and one that fails.
LEMMA JobPassed ==
  ASSUME RigInv, jobs # <<>>, jobs' = Tail(jobs),
         IF Head(jobs).what = "list"
           THEN /\ \E list \in [Routes -> Int] :
                     store' = [store EXCEPT !.stored = list, !.started = "yes"]
                /\ news' = <<device>>
           ELSE UNCHANGED <<store, news>>,
         UNCHANGED <<device, applied, accents, volume, engineMasks, loose>>
  PROVE  /\ Head(jobs) \in RigJobs /\ jobs' \in Seq(RigJobs) /\ news' \in Seq(Outputs)
         /\ store' \in StoreStates /\ store'.started = "yes"
         /\ ListInv' /\ PendingInv' /\ OffsetFollowsRoute' /\ EngineIsSet'
         /\ Head(jobs).what = "list" =>
              \A i \in 1..Len(jobs') : jobs'[i] \notin RouteJobs
<1>1. jobs \in Seq(RigJobs) /\ RigTypes
  BY DEF RigInv, RigTypes
<1>2. /\ jobs' \in Seq(RigJobs) /\ Len(jobs') = Len(jobs) - 1
      /\ Len(jobs) \in Nat \ {0} /\ Head(jobs) = jobs[1] /\ Head(jobs) \in RigJobs
      /\ \A i \in 1..Len(jobs') : jobs'[i] = jobs[i + 1]
      /\ 1 \in 1..Len(jobs)
  <2>1. /\ jobs' \in Seq(RigJobs) /\ Len(jobs') = Len(jobs) - 1
        /\ Len(jobs) \in Nat \ {0} /\ Head(jobs) = jobs[1]
        /\ \A i \in 1..Len(jobs') : jobs'[i] = jobs[i + 1]
    BY <1>1, TailFacts
  <2>2. 1 \in 1..Len(jobs) /\ jobs[1] \in RigJobs
    BY <1>1, LengthFacts
  <2> QED BY <2>1, <2>2
<1>3. \A i \in 1..Len(jobs') : i + 1 \in 1..Len(jobs) /\ i + 1 # 1
  BY <1>2, Shifted
<1>4. /\ \A i \in 1..Len(jobs) : jobs[i] \in ListJobs => i = 1 /\ store.started = "listing"
      /\ store.started = "listing" =>
           jobs[1] \in ListJobs /\ \A i \in 1..Len(jobs) : jobs[i] \notin RouteJobs
  BY DEF RigInv, ListInv, ListedFirst
<1>5. Head(jobs) \in ListJobs <=> Head(jobs).what = "list"
  BY <1>1, <1>2, JobWrites
<1>6. \A i \in 1..Len(jobs') : jobs'[i] \notin ListJobs
  BY <1>2, <1>3, <1>4
<1>7. store \in StoreStates
  BY LiveOutput
<1>8. CASE Head(jobs).what = "list"
  <2>1. store.started = "listing"
    BY <1>2, <1>4, <1>5, <1>8
  <2>2. PICK list \in [Routes -> Int] :
          store' = [store EXCEPT !.stored = list, !.started = "yes"]
    BY <1>8
  <2>3. /\ store' \in StoreStates /\ store'.started = "yes"
        /\ store'.live = Nobody /\ store'.pending = NothingPending
    BY <1>7, <2>1, <2>2 DEF StoreStates, RigInv, ListInv
  <2>4. \A i \in 1..Len(jobs') : jobs'[i] \notin RouteJobs
    BY <1>2, <1>3, <1>4, <2>1
  <2>5. news' \in Seq(Outputs)
    <3>1. device \in Outputs /\ news' = <<device>>
      BY <1>1, <1>8 DEF RigTypes
    <3> QED BY <3>1, OneLong
  <2>6. ListInv'
    BY <1>6, <2>3 DEF ListInv, ListedFirst
  <2>7. PendingInv' /\ OffsetFollowsRoute' /\ EngineIsSet'
    BY <2>3 DEF RigInv, PendingInv, OffsetFollowsRoute, EngineIsSet
  <2> QED BY <1>2, <2>3, <2>4, <2>5, <2>6, <2>7
<1>9. CASE Head(jobs).what # "list"
  <2>1. store.started = "yes"
    BY <1>2, <1>4, <1>5, <1>7, <1>9 DEF StoreStates
  <2>2. store' = store /\ news' = news
    BY <1>9
  <2>3. ListInv'
    BY <1>6, <2>1, <2>2 DEF ListInv, ListedFirst
  <2>4. PendingInv' /\ OffsetFollowsRoute' /\ EngineIsSet' /\ news' \in Seq(Outputs)
    BY <1>1, <2>2 DEF RigInv, RigTypes, PendingInv, OffsetFollowsRoute, EngineIsSet
  <2> QED BY <1>2, <1>7, <1>9, <2>1, <2>2, <2>3, <2>4
<1> QED BY <1>8, <1>9

LEMMA JobKeeps ==
  ASSUME RigInv, Job
  PROVE  RigInv'
<1>1. /\ jobs # <<>> /\ jobs' = Tail(jobs) /\ disk' = Written(Head(jobs))
      /\ UNCHANGED <<device, applied, accents, volume, engineMasks, loose, failed>>
      /\ IF Head(jobs).what = "list"
           THEN /\ store' = [store EXCEPT !.stored = disk.offsets, !.started = "yes"]
                /\ news' = <<device>>
           ELSE UNCHANGED <<store, news>>
  BY DEF Job
<1>2. disk.offsets \in [Routes -> Int] /\ jobs \in Seq(RigJobs) /\ RigTypes
  BY DEF RigInv, RigTypes
<1>3. /\ Head(jobs) \in RigJobs /\ jobs' \in Seq(RigJobs) /\ news' \in Seq(Outputs)
      /\ store' \in StoreStates /\ store'.started = "yes"
      /\ ListInv' /\ PendingInv' /\ OffsetFollowsRoute' /\ EngineIsSet'
      /\ Head(jobs).what = "list" =>
           \A i \in 1..Len(jobs') : jobs'[i] \notin RouteJobs
  BY <1>1, <1>2, JobPassed
<1> DEFINE job == Head(jobs)
<1>4. /\ disk' \in [offsets : [Routes -> Int], masks : Masks,
               count : Counts \union {LeastCount}, volume : Volumes \union {Unity}]
      /\ \A r \in Routes : disk'.offsets[r] =
           IF job \in RouteJobsOf(r) THEN job.value ELSE disk.offsets[r]
      /\ disk'.masks = IF job \in MasksJobs THEN job.value ELSE disk.masks
      /\ disk'.count = IF job \in CountJobs THEN job.value ELSE disk.count
      /\ disk'.volume = IF job \in VolumeJobs THEN job.value ELSE disk.volume
      /\ job \in ListJobs <=> job.what = "list"
  BY <1>1, <1>2, <1>3, JobWrites
<1> HIDE DEF job
<1>5. RigTypes'
  BY <1>1, <1>3, <1>4 DEF RigInv, RigTypes, StoreStates
<1>6. ASSUME PrefsKept PROVE PrefsKept'
  <2>1. WillHold(jobs', MasksJobs, disk'.masks, accents.masks)
    BY <1>1, <1>2, <1>4, <1>6, WillHoldDone DEF PrefsKept, job
  <2>2. WillHold(jobs', CountJobs, disk'.count, accents.lastCount)
    BY <1>1, <1>2, <1>4, <1>6, WillHoldDone DEF PrefsKept, job
  <2>3. WillHold(jobs', VolumeJobs, disk'.volume, volume.store)
    BY <1>1, <1>2, <1>4, <1>6, WillHoldDone DEF PrefsKept, job
  <2> QED BY <1>1, <2>1, <2>2, <2>3 DEF PrefsKept
<1>7. ASSUME RoutesKept PROVE RoutesKept'
  <2> SUFFICES ASSUME NEW r \in Routes, store'.pending.route # r
               PROVE  WillHold(jobs', RouteJobsOf(r), disk'.offsets[r], store'.stored[r])
    BY DEF RoutesKept
  <2>1. CASE job.what = "list"
    <3>1. store' = [store EXCEPT !.stored = disk.offsets, !.started = "yes"]
      BY <1>1, <2>1 DEF job
    <3>2. store'.stored = disk.offsets
      BY <3>1, LiveOutput DEF StoreStates
    <3>3. job \notin RouteJobs
      BY <1>4, <2>1, JobsDiffer
    <3>4. disk'.offsets[r] = disk.offsets[r]
      BY <1>4, <3>3 DEF RouteJobsOf
    <3>5. \A i \in 1..Len(jobs') : jobs'[i] \notin RouteJobsOf(r)
      BY <1>3, <2>1 DEF job, RouteJobsOf
    <3> QED BY <3>2, <3>4, <3>5 DEF WillHold
  <2>2. CASE job.what # "list"
    <3>1. store' = store
      BY <1>1, <2>2 DEF job
    <3>2. WillHold(jobs, RouteJobsOf(r), disk.offsets[r], store.stored[r])
      BY <1>3, <1>7, <3>1 DEF RoutesKept
    <3> QED BY <1>1, <1>2, <1>4, <3>1, <3>2, WillHoldDone DEF job
  <2> QED BY <2>1, <2>2
<1>8. KeptInv'
  BY <1>1, <1>6, <1>7 DEF RigInv, KeptInv
<1> QED BY <1>3, <1>5, <1>8 DEF RigInv

LEMMA JobFailsKeeps ==
  ASSUME RigInv, JobFails
  PROVE  RigInv'
<1>1. /\ jobs # <<>> /\ jobs' = Tail(jobs) /\ failed' = TRUE
      /\ UNCHANGED <<device, applied, accents, volume, engineMasks, loose, disk>>
      /\ IF Head(jobs).what = "list"
           THEN store' = [store EXCEPT !.started = "yes"] /\ news' = <<device>>
           ELSE UNCHANGED <<store, news>>
  BY DEF JobFails
<1>2. store.stored \in [Routes -> Int] /\ store \in StoreStates
  BY LiveOutput DEF StoreStates
<1>3. [store EXCEPT !.started = "yes"]
        = [store EXCEPT !.stored = store.stored, !.started = "yes"]
  BY <1>2 DEF StoreStates
<1>4. /\ jobs' \in Seq(RigJobs) /\ news' \in Seq(Outputs) /\ store' \in StoreStates
      /\ ListInv' /\ PendingInv' /\ OffsetFollowsRoute' /\ EngineIsSet'
  BY <1>1, <1>2, <1>3, JobPassed
<1>5. RigTypes'
  BY <1>1, <1>4 DEF RigInv, RigTypes, StoreStates
<1>6. KeptInv'
  BY <1>1 DEF KeptInv
<1> QED BY <1>4, <1>5, <1>6 DEF RigInv

LEMMA RigInvStep == RigInv /\ [RigNext]_rigVars => RigInv'
<1> SUFFICES ASSUME RigInv, [RigNext]_rigVars PROVE RigInv'
  OBVIOUS
<1>0. device \in Outputs /\ news \in Seq(Outputs)
  BY DEF RigInv, RigTypes
<1>1. CASE OutputRow \/ OutputSheet \/ AccentsRow
  <2>1. UNCHANGED <<device, news, engineMasks, disk, failed, store, applied, jobs, loose,
                    accents, volume>>
    BY <1>1 DEF OutputRow, OutputSheet, AccentsRow, Untouched, Rig
  <2> QED BY <1>0, <2>1, RigRests
<1>2. CASE OutputChanges
  <2>1. UNCHANGED <<engineMasks, disk, failed, store, applied, jobs, loose, accents, volume>>
    BY <1>2 DEF OutputChanges, Rig
  <2>2. PICK d \in Outputs :
          /\ device' = d
          /\ news' = IF store.started = "yes" THEN Append(news, d) ELSE news
    BY <1>2 DEF OutputChanges, Outputs
  <2>3. news' \in Seq(Outputs) /\ (store.started = "listing" => news' = news)
    BY <1>0, <2>2
  <2> QED BY <2>1, <2>2, <2>3, RigRests
<1>3. CASE UNCHANGED rigVars
  BY <1>0, <1>3, RigRests DEF rigVars
<1> QED
  BY <1>1, <1>2, <1>3, LatencyKeeps, AccentsKeeps, VolumeKeeps, RouteSheetKeeps,
     CalibratedKeeps, KilledKeeps, JobKeeps, JobFailsKeeps, SettlesKeeps, RouteHeardKeeps
  DEF RigNext, Rows, Sheets

LEMMA RigInvImplies == RigInv => RigFollowsOutput
<1> SUFFICES ASSUME RigInv PROVE RigIsKept
  BY DEF RigInv, RigFollowsOutput
<1> SUFFICES ASSUME jobs = <<>>, ~Flushing(store), ~failed
             PROVE  /\ disk.offsets = store.stored
                    /\ disk.masks = accents.masks /\ disk.count = accents.lastCount
                    /\ disk.volume = volume.store
  BY DEF RigIsKept
<1>1. RoutesKept /\ PrefsKept
  BY DEF RigInv, KeptInv
<1>2. store.started = "yes" /\ store \in StoreStates
  BY LiveOutput DEF RigInv, ListInv, ListedFirst, StoreStates
<1>3. \A r \in Routes : store.pending.route # r
  BY LiveOutput DEF Flushing
<1>4. \A r \in Routes : disk.offsets[r] = store.stored[r]
  BY <1>1, <1>2, <1>3, WillHoldNothing DEF RoutesKept
<1>5. disk.offsets \in [Routes -> Int] /\ store.stored \in [Routes -> Int]
  BY <1>2 DEF RigInv, RigTypes, StoreStates
<1>6. disk.offsets = store.stored
  BY <1>4, <1>5
<1> QED BY <1>1, <1>6, WillHoldNothing DEF PrefsKept

\* However outputs come and go, whatever jobs the database fails and whenever the
\* process dies, the offset applied is that of the output in use, the engine plays
\* by what is shown, and a database that has done every job holds what is shown
\* (RigRoutes's RigFollowsOutput).
THEOREM TheRigFollowsTheOutput == RigSpec => []RigFollowsOutput
BY RigInvInit, RigInvStep, RigInvImplies, PTL DEF RigSpec

-----------------------------------------------------------------------------
(* The playback card. *)

\* The last message of a kind in a queue, if there is one.
Says(q, kinds) ==
  {q[i] : i \in {n \in DOMAIN q : /\ q[n].kind \in kinds
                                  /\ \A j \in DOMAIN q : q[j].kind \in kinds => j <= n}}

LEMMA LastIndex ==
  ASSUME NEW n \in Nat, NEW I \in SUBSET (1..n), I # {}
  PROVE  \E i \in I : \A j \in I : j <= i
<1> DEFINE R == OpToRel(<, Nat)
           Back == {n - i : i \in I}
<1>1. IsWellFoundedOn(R, Nat)
  BY NatLessThanWellFounded
<1>2. \A y, x \in Nat : <<y, x>> \in R <=> y < x
  BY DEF OpToRel
<1>3. Back \subseteq Nat /\ Back # {}
  <2>1. PICK i \in I : TRUE
    OBVIOUS
  <2>2. n - i \in Back
    OBVIOUS
  <2>3. \A j \in I : j \in Nat /\ n - j \in Nat
    OBVIOUS
  <2> QED BY <2>2, <2>3
<1> HIDE DEF R
<1>4. PICK x \in Back : \A y \in Back : ~ (<<y, x>> \in R)
  <2> HIDE DEF Back
  <2> QED BY <1>1, <1>3, WFMin
<1>5. \A y \in Back : x <= y
  <2> SUFFICES ASSUME NEW y \in Back PROVE x <= y
    OBVIOUS
  <2>1. x \in Nat /\ y \in Nat
    BY <1>3
  <2>2. ~ (y < x)
    BY <1>2, <1>4, <2>1
  <2> QED BY <2>1, <2>2
<1>6. PICK i \in I : x = n - i
  OBVIOUS
<1>7. \A j \in I : n - i <= n - j
  BY <1>5, <1>6
<1> QED BY <1>7

LEMMA SaysMember ==
  ASSUME NEW q, NEW kinds, NEW m \in Says(q, kinds)
  PROVE  m.kind \in kinds /\ \E i \in DOMAIN q : q[i] = m
BY DEF Says

LEMMA SaysNothing == \A kinds : Says(<<>>, kinds) = {}
BY DEF Says

\* A queue of other kinds says nothing, and one that says nothing is of other kinds.
LEMMA SaysNone ==
  ASSUME NEW M, NEW q \in Seq(M), NEW kinds
  PROVE  Says(q, kinds) = {} <=> \A i \in DOMAIN q : q[i].kind \notin kinds
<1>1. ASSUME NEW i \in DOMAIN q, q[i].kind \in kinds PROVE Says(q, kinds) # {}
  <2> DEFINE I == {n \in DOMAIN q : q[n].kind \in kinds}
  <2>1. DOMAIN q = 1..Len(q) /\ Len(q) \in Nat /\ i \in I
    BY <1>1
  <2>2. I \in SUBSET (1..Len(q)) /\ I # {}
    BY <2>1
  <2>3. PICK k \in I : \A j \in I : j <= k
    <3> HIDE DEF I
    <3> QED BY <2>1, <2>2, LastIndex
  <2> QED BY <2>3 DEF Says
<1> QED BY <1>1 DEF Says

LEMMA SaysAppended ==
  ASSUME NEW M, NEW q \in Seq(M), NEW m \in M, NEW kinds
  PROVE  Says(Append(q, m), kinds) = IF m.kind \in kinds THEN {m} ELSE Says(q, kinds)
<1> DEFINE r == Append(q, m)
<1>1. /\ Len(q) \in Nat /\ DOMAIN q = 1..Len(q) /\ DOMAIN r = 1..(Len(q) + 1)
      /\ r[Len(q) + 1] = m /\ \A i \in DOMAIN q : r[i] = q[i]
  OBVIOUS
<1> HIDE DEF r
<1>2. CASE m.kind \in kinds
  <2>1. \A n \in DOMAIN r :
          (\A j \in DOMAIN r : r[j].kind \in kinds => j <= n) <=> n = Len(q) + 1
    BY <1>1, <1>2
  <2>2. Says(r, kinds) = {m}
    BY <1>1, <1>2, <2>1 DEF Says
  <2> QED BY <1>2, <2>2 DEF r
<1>3. CASE m.kind \notin kinds
  <2>1. {n \in DOMAIN r : /\ r[n].kind \in kinds
                          /\ \A j \in DOMAIN r : r[j].kind \in kinds => j <= n}
        = {n \in DOMAIN q : /\ q[n].kind \in kinds
                            /\ \A j \in DOMAIN q : q[j].kind \in kinds => j <= n}
    BY <1>1, <1>3
  <2>2. Says(r, kinds) = Says(q, kinds)
    BY <1>1, <2>1 DEF Says
  <2> QED BY <1>3, <2>2 DEF r
<1> QED BY <1>2, <1>3

LEMMA SaysRest ==
  ASSUME NEW M, NEW q \in Seq(M), q # <<>>, NEW kinds
  PROVE  Says(q, kinds) = IF Says(Tail(q), kinds) # {} THEN Says(Tail(q), kinds)
                          ELSE IF Head(q).kind \in kinds THEN {Head(q)} ELSE {}
<1> DEFINE r == Tail(q)
<1>1. /\ Len(q) \in Nat \ {0} /\ DOMAIN q = 1..Len(q) /\ DOMAIN r = 1..(Len(q) - 1)
      /\ Head(q) = q[1] /\ r \in Seq(M) /\ \A i \in DOMAIN r : r[i] = q[i + 1]
  OBVIOUS
<1> HIDE DEF r
<1>2. CASE Says(r, kinds) = {}
  <2>1. \A i \in DOMAIN r : r[i].kind \notin kinds
    BY <1>1, <1>2, SaysNone
  <2>2. \A i \in DOMAIN q : i # 1 => i - 1 \in DOMAIN r /\ r[i - 1] = q[i]
    BY <1>1
  <2>3. \A i \in DOMAIN q : i # 1 => q[i].kind \notin kinds
    BY <2>1, <2>2
  <2>4. Says(q, kinds) = IF q[1].kind \in kinds THEN {q[1]} ELSE {}
    BY <1>1, <2>3 DEF Says
  <2> QED BY <1>1, <1>2, <2>4 DEF r
<1>3. CASE Says(r, kinds) # {}
  <2> DEFINE InQ == {n \in DOMAIN q : /\ q[n].kind \in kinds
                          /\ \A j \in DOMAIN q : q[j].kind \in kinds => j <= n}
             InR == {n \in DOMAIN r : /\ r[n].kind \in kinds
                          /\ \A j \in DOMAIN r : r[j].kind \in kinds => j <= n}
  <2>1. PICK k \in InR : TRUE
    BY <1>3 DEF Says
  <2>2. k + 1 \in DOMAIN q /\ q[k + 1].kind \in kinds /\ k \in Nat /\ k # 0
    BY <1>1, <2>1
  <2>3. \A n \in InR : n + 1 \in InQ
    <3> SUFFICES ASSUME NEW n \in InR, NEW j \in DOMAIN q, q[j].kind \in kinds
                 PROVE  n + 1 \in DOMAIN q /\ q[n + 1].kind \in kinds /\ j <= n + 1
      BY <2>2
    <3>1. n \in 1..(Len(q) - 1) /\ n + 1 \in DOMAIN q /\ q[n + 1] = r[n]
      BY <1>1
    <3>2. CASE j = 1
      BY <3>1, <3>2
    <3>3. CASE j # 1
      <4>1. j - 1 \in DOMAIN r /\ r[j - 1] = q[j]
        BY <1>1, <3>3
      <4> QED BY <3>1, <4>1, <1>1
    <3> QED BY <3>1, <3>2, <3>3
  <2>4. \A n \in InQ : n - 1 \in InR
    <3> SUFFICES ASSUME NEW n \in InQ PROVE n - 1 \in InR
      OBVIOUS
    <3>1. n \in 1..Len(q) /\ k + 1 <= n
      BY <1>1, <2>2
    <3>2. n - 1 \in DOMAIN r /\ r[n - 1] = q[n]
      BY <1>1, <2>2, <3>1
    <3>3. ASSUME NEW j \in DOMAIN r, r[j].kind \in kinds PROVE j <= n - 1
      <4>1. j + 1 \in DOMAIN q /\ q[j + 1].kind \in kinds
        BY <1>1, <3>3
      <4>2. j + 1 <= n
        BY <4>1
      <4> QED BY <1>1, <3>1, <4>2
    <3> QED BY <3>2, <3>3
  <2>5. Says(q, kinds) = {q[n] : n \in InQ} /\ Says(r, kinds) = {r[n] : n \in InR}
    BY DEF Says
  <2>6. \A n \in InQ : q[n] = r[n - 1]
    <3> SUFFICES ASSUME NEW n \in InQ PROVE q[n] = r[n - 1]
      OBVIOUS
    <3>1. n - 1 \in DOMAIN r /\ n \in 1..Len(q)
      BY <2>4, <1>1
    <3> QED BY <1>1, <3>1
  <2>7. \A n \in InR : r[n] = q[n + 1]
    BY <1>1
  <2> HIDE DEF InQ, InR
  <2>8. {q[n] : n \in InQ} = {r[n] : n \in InR}
    BY <2>3, <2>4, <2>6, <2>7
  <2> QED BY <1>3, <2>5, <2>8 DEF r
<1> QED BY <1>2, <1>3

Cards == {"show", "hide"}
SongCards == {"songShow", "songHide"}
Metro == {"metronome"}
Song == {"song"}
Playbacks == {"playing", "paused", "stopped"}

Clocks == [played : Int, since : Int]
Apps == [running : BOOLEAN, bpm : Nat, ramp : BOOLEAN, practice : Clocks]
Engines == [running : BOOLEAN, bpm : Nat, ramp : BOOLEAN]
PlayCards == [playing : BOOLEAN, bpm : Nat, ramp : BOOLEAN, played : Int, since : Int]
Messages == [kind : {"show"}, card : PlayCards]
            \cup [kind : {"hide", "songShow", "songHide"}, card : {NoCard}]
Tellings == [kind : Metro, playback : Playbacks, bpm : Nat, ramp : BOOLEAN, practice : Clocks]
Events == Tellings \cup [kind : Song]
Services == [alive : BOOLEAN, stopping : BOOLEAN, song : BOOLEAN, metronome : BOOLEAN,
             posted : {"none", "song", "metronome"}, playback : Playbacks, bpm : Nat,
             ramp : BOOLEAN, practice : Clocks]
Worlds == [shown : PlayCards \cup {NoCard}, main : Seq(Messages), requested : BOOLEAN,
           unsent : BOOLEAN]

CardTypes ==
  /\ time \in 0..MaxNow
  /\ app \in Apps /\ eng \in Engines /\ svc \in Services
  /\ World \in Worlds /\ songShown \in BOOLEAN /\ events \in Seq(Events)
  /\ bothActed \in BOOLEAN

\* What is posted is what the service holds, and one that stops holds nothing.
ServiceIsWhole ==
  /\ svc.posted = IF svc.song THEN "song" ELSE IF svc.metronome THEN "metronome" ELSE "none"
  /\ svc.stopping => svc.alive /\ ~svc.song /\ ~svc.metronome
  /\ ~svc.alive => svc = Dead
  /\ svc.metronome => svc.playback # "stopped"

\* The app's card is of its own metronome.
ShownIsApps ==
  /\ app.running = (app.practice.since # None)
  /\ app.running => shown # NoCard
  /\ shown # NoCard => shown = cardOf(app, app.running, app.practice.since)

ServiceTells(card) ==
  /\ svc.metronome = (card # NoCard)
  /\ card # NoCard =>
       /\ (svc.playback = "playing") = card.playing
       /\ svc.ramp = card.ramp /\ (~card.ramp => svc.bpm = card.bpm)
       /\ svc.practice = [played |-> card.played,
                          since |-> IF card.playing THEN card.since ELSE None]

\* The last card on its way is the one the app believes in; a paused one is shown,
\* and no hide is on its way to it.
Heard(card, q) ==
  /\ \A m \in Says(q, Cards) :
       IF m.kind = "show" THEN card # NoCard /\ m.card = card ELSE card = NoCard
  /\ card # NoCard /\ ~card.playing =>
       svc.metronome /\ \A i \in DOMAIN q : q[i].kind # "hide"

SongHeard ==
  /\ \A m \in Says(main, SongCards) : (m.kind = "songShow") = songShown
  /\ Says(main, SongCards) = {} /\ Says(events, Song) = {} => svc.song = songShown
  /\ Says(events, Song) # {} => ~svc.song

\* The engine does what the app believes or what the last event on its way tells,
\* which is what the service holds.
EngineTold ==
  IF Says(events, Metro) = {}
  THEN /\ eng.running = app.running /\ eng.ramp = app.ramp
       /\ ~app.ramp => eng.bpm = app.bpm
  ELSE \A e \in Says(events, Metro) :
         /\ shown # NoCard
         /\ svc.metronome = (e.playback # "stopped")
         /\ svc.metronome => /\ e.playback = svc.playback /\ e.ramp = svc.ramp
                             /\ (~e.ramp => e.bpm = svc.bpm) /\ e.practice = svc.practice
         /\ eng.running = (e.playback = "playing")
         /\ e.ramp = eng.ramp /\ (~e.ramp => e.bpm = eng.bpm) /\ (e.ramp => app.ramp)

\* Only the last event is of a stop, and a ramp that has ended does not begin again.
InOrder(q) ==
  \A i \in DOMAIN q : q[i].kind = "metronome" =>
    /\ (q[i].practice.since # None) = (q[i].playback = "playing")
    /\ \A j \in DOMAIN q : j > i /\ q[j].kind = "metronome" =>
         q[i].playback # "stopped" /\ (q[j].ramp => q[i].ramp)

\* One side speaks at a time.
Following ==
  /\ main = <<>> \/ events = <<>>
  /\ ShownIsApps
  /\ events = <<>> => Heard(shown, main)
  /\ Says(main, Cards) = {} /\ Says(events, Metro) = {} => ServiceTells(shown)
  /\ SongHeard /\ EngineTold /\ InOrder(events)

CardInv == CardTypes /\ ServiceIsWhole /\ (~bothActed /\ ~unsent => Following)

-----------------------------------------------------------------------------
LEMMA CardsDiffer ==
  \A c \in PlayCards : c # NoCard
<1> SUFFICES ASSUME NEW c \in PlayCards, c = NoCard PROVE FALSE
  OBVIOUS
<1>1. "ramp" \in DOMAIN c
  BY DEF PlayCards
<1>2. "ramp" \notin DOMAIN NoCard
  BY DEF NoCard
<1> QED BY <1>1, <1>2

LEMMA NewService ==
  /\ Created \in Services /\ Created.alive /\ ~Created.song /\ ~Created.metronome
  /\ ~Created.stopping /\ Created.posted = "none"
  /\ Dead \in Services /\ ~Dead.alive /\ ~Dead.song /\ ~Dead.metronome
  /\ ~Dead.stopping /\ Dead.posted = "none"
<1>1. /\ Created \in Services /\ Created.alive /\ ~Created.song /\ ~Created.metronome
      /\ ~Created.stopping /\ Created.posted = "none"
  BY DEF Created, Services, Playbacks, Clocks, None
<1> QED BY <1>1 DEF Dead, Services

LEMMA TimeIsTold == CardTypes => time \in Int /\ time # None
BY CardAssumption DEF CardTypes, None

LEMMA StretchKeeps ==
  ASSUME CardTypes, NEW p \in Clocks, NEW r \in BOOLEAN
  PROVE  /\ Stretch(p, r) \in Clocks
         /\ (Stretch(p, r).since # None) = r
BY TimeIsTold DEF Stretch, Clocks, None

LEMMA CardOfType ==
  ASSUME NEW a \in Apps, NEW r \in BOOLEAN, NEW t \in Int
  PROVE  cardOf(a, r, t) \in PlayCards
BY DEF cardOf, Apps, PlayCards, Clocks

LEMMA ShownForType ==
  ASSUME NEW a \in Apps, NEW s \in PlayCards \cup {NoCard}
  PROVE  shownFor(a, s) \in PlayCards \cup {NoCard}
<1>1. a.practice.since \in Int
  BY DEF Apps, Clocks
<1>2. s # NoCard => s.since \in Int
  BY DEF PlayCards
<1> QED BY <1>1, <1>2, CardOfType DEF shownFor

LEMMA ShowSends ==
  ASSUME CardTypes, NEW w \in Worlds, NEW card \in PlayCards
  PROVE  /\ transportShow(w, card) \in Worlds
         /\ transportShow(w, card).shown = card
         /\ transportShow(w, card).unsent = w.unsent
         /\ svc.alive \/ card.playing =>
              transportShow(w, card).main = Append(w.main, Message("show", card))
<1>1. Message("show", card) \in Messages
  BY DEF Message, Messages
<1>2. svc.alive \in BOOLEAN /\ card.playing \in BOOLEAN
  BY DEF CardTypes, Services, PlayCards
<1> DEFINE longer == Append(w.main, Message("show", card))
<1>3. longer \in Seq(Messages)
  BY <1>1, AppendProperties DEF Worlds
<1> HIDE DEF longer
<1>4. transportShow(w, card) =
        IF ~svc.alive /\ ~card.playing THEN [w EXCEPT !.shown = card]
        ELSE [w EXCEPT !.shown = card, !.main = longer, !.requested = @ \/ ~svc.alive]
  BY DEF transportShow, longer
<1>5. /\ transportShow(w, card) \in Worlds
      /\ transportShow(w, card).shown = card
      /\ transportShow(w, card).unsent = w.unsent
      /\ svc.alive \/ card.playing => transportShow(w, card).main = longer
  <2> HIDE DEF Message
  <2> QED BY <1>2, <1>3, <1>4 DEF Worlds
<1> QED BY <1>5 DEF longer

LEMMA HideSends ==
  ASSUME CardTypes, NEW w \in Worlds, NEW kind \in {"hide", "songHide"}
  PROVE  /\ Hide(w, kind) \in Worlds
         /\ Hide(w, kind).shown = w.shown
         /\ w.unsent => Hide(w, kind).unsent
         /\ \/ Hide(w, kind).main = Append(w.main, Message(kind, NoCard))
            \/ /\ ~svc.alive /\ Hide(w, kind).main = w.main
               /\ ~Hide(w, kind).unsent => \A i \in DOMAIN w.main : ~IsShow(w.main[i])
<1>1. Message(kind, NoCard) \in Messages
  BY DEF Message, Messages
<1>2. svc.alive \in BOOLEAN
  BY DEF CardTypes, Services
<1>3. (\E i \in DOMAIN w.main : IsShow(w.main[i])) \in BOOLEAN
  OBVIOUS
<1> DEFINE sent == \E i \in DOMAIN w.main : IsShow(w.main[i])
<1> HIDE DEF sent
<1>4. CASE ~svc.alive /\ ~w.requested
  <2>1. Hide(w, kind) = [w EXCEPT !.unsent = @ \/ sent]
    BY <1>4 DEF Hide, sent
  <2> QED BY <1>3, <1>4, <2>1 DEF Worlds, sent
<1>5. CASE svc.alive \/ w.requested
  <2> DEFINE longer == Append(w.main, Message(kind, NoCard))
  <2>1. Hide(w, kind) = [w EXCEPT !.main = longer]
    BY <1>2, <1>5 DEF Hide
  <2>2. longer \in Seq(Messages)
    BY <1>1, AppendProperties DEF Worlds
  <2> HIDE DEF longer
  <2>3. Hide(w, kind) \in Worlds /\ Hide(w, kind).shown = w.shown
        /\ Hide(w, kind).unsent = w.unsent /\ Hide(w, kind).main = longer
    BY <2>1, <2>2 DEF Worlds
  <2> QED BY <2>3 DEF longer
<1> QED BY <1>2, <1>4, <1>5

LEMMA TransportHideSends ==
  ASSUME CardTypes, NEW w \in Worlds
  PROVE  /\ transportHide(w) \in Worlds
         /\ transportHide(w).shown = NoCard
         /\ w.unsent => transportHide(w).unsent
         /\ \/ transportHide(w).main = Append(w.main, Message("hide", NoCard))
            \/ /\ ~svc.alive /\ transportHide(w).main = w.main
               /\ ~transportHide(w).unsent => \A i \in DOMAIN w.main : ~IsShow(w.main[i])
<1> DEFINE v == [w EXCEPT !.shown = NoCard]
<1>1. v \in Worlds /\ v.main = w.main /\ v.shown = NoCard /\ v.unsent = w.unsent
  BY DEF Worlds
<1> HIDE DEF v
<1>2. transportHide(w) = Hide(v, "hide")
  BY DEF transportHide, v
<1> QED BY <1>1, <1>2, HideSends

LEMMA SyncType ==
  ASSUME CardTypes, NEW w \in Worlds, NEW a \in Apps
  PROVE  /\ syncFromApp(w, a) \in Worlds
         /\ syncFromApp(w, a).shown = shownFor(a, w.shown)
         /\ w.unsent => syncFromApp(w, a).unsent
<1> DEFINE next == shownFor(a, w.shown)
<1>1. next \in PlayCards \cup {NoCard}
  BY ShownForType DEF Worlds
<1> HIDE DEF next
<1>2. syncFromApp(w, a) = IF next = w.shown THEN w
        ELSE IF next = NoCard THEN transportHide(w) ELSE transportShow(w, next)
  BY DEF syncFromApp, next
<1>3. /\ syncFromApp(w, a) \in Worlds
      /\ syncFromApp(w, a).shown = next
      /\ w.unsent => syncFromApp(w, a).unsent
  BY <1>1, <1>2, ShowSends, TransportHideSends
<1> QED BY <1>3 DEF next

-----------------------------------------------------------------------------
(* What the app sends keeps the service in the know. *)

Known(w) == Heard(w.shown, w.main) /\ (Says(w.main, Cards) = {} => ServiceTells(w.shown))

LEMMA ShowKnown ==
  ASSUME CardTypes, ServiceIsWhole, NEW w \in Worlds, NEW card \in PlayCards,
         ~card.playing => svc.metronome /\ \A i \in DOMAIN w.main : w.main[i].kind # "hide"
  PROVE  /\ Known(transportShow(w, card))
         /\ Says(transportShow(w, card).main, SongCards) = Says(w.main, SongCards)
<1> DEFINE v == transportShow(w, card)
           m == Message("show", card)
<1>1. svc.metronome => svc.alive
  BY NewService DEF ServiceIsWhole
<1>2. v.main = Append(w.main, m) /\ v.shown = card
  BY <1>1, ShowSends DEF PlayCards
<1>3. m \in Messages /\ m.kind = "show" /\ m.card = card /\ w.main \in Seq(Messages)
  BY DEF Message, Messages, Worlds
<1> HIDE DEF v, m
<1>4. Says(v.main, Cards) = {m} /\ Says(v.main, SongCards) = Says(w.main, SongCards)
  BY <1>2, <1>3, SaysAppended DEF Cards, SongCards
<1>5. (\A i \in DOMAIN w.main : w.main[i].kind # "hide") =>
         \A i \in DOMAIN v.main : v.main[i].kind # "hide"
  BY <1>2, <1>3
<1>6. Heard(v.shown, v.main)
  BY <1>2, <1>3, <1>4, <1>5, CardsDiffer DEF Heard
<1> QED BY <1>4, <1>6 DEF Known, v

LEMMA HideKnown ==
  ASSUME CardTypes, ServiceIsWhole, NEW w \in Worlds, w.shown # NoCard, Known(w),
         ~transportHide(w).unsent
  PROVE  /\ Known(transportHide(w))
         /\ Says(transportHide(w).main, SongCards) = Says(w.main, SongCards)
<1> DEFINE v == transportHide(w)
           m == Message("hide", NoCard)
<1>1. m \in Messages /\ m.kind = "hide" /\ w.main \in Seq(Messages)
  BY DEF Message, Messages, Worlds
<1>2. v.shown = NoCard
  BY TransportHideSends
<1>3. v.main = Append(w.main, m)
  <2> SUFFICES ASSUME ~svc.alive, \A i \in DOMAIN w.main : ~IsShow(w.main[i]) PROVE FALSE
    BY TransportHideSends
  <2>1. ~svc.metronome
    BY NewService DEF ServiceIsWhole
  <2>2. Says(w.main, Cards) # {}
    BY <2>1 DEF Known, ServiceTells
  <2>3. PICK k \in Says(w.main, Cards) : TRUE
    BY <2>2
  <2>4. k.kind = "show"
    BY <2>3 DEF Known, Heard
  <2> QED BY <2>4, SaysMember DEF IsShow
<1> HIDE DEF v, m
<1>4. Says(v.main, Cards) = {m} /\ Says(v.main, SongCards) = Says(w.main, SongCards)
  BY <1>1, <1>3, SaysAppended DEF Cards, SongCards
<1>5. Heard(v.shown, v.main)
  BY <1>1, <1>2, <1>4 DEF Heard
<1> QED BY <1>4, <1>5 DEF Known, v

LEMMA SyncKnown ==
  ASSUME CardTypes, ServiceIsWhole, NEW w \in Worlds, NEW a \in Apps, Known(w),
         ~syncFromApp(w, a).unsent
  PROVE  /\ Known(syncFromApp(w, a))
         /\ Says(syncFromApp(w, a).main, SongCards) = Says(w.main, SongCards)
<1> DEFINE next == shownFor(a, w.shown)
<1>1. next \in PlayCards \cup {NoCard}
  BY ShownForType DEF Worlds
<1>2. next # NoCard /\ ~next.playing => w.shown # NoCard /\ ~w.shown.playing
  BY CardsDiffer DEF shownFor, cardOf
<1> HIDE DEF next
<1>3. syncFromApp(w, a) = IF next = w.shown THEN w
        ELSE IF next = NoCard THEN transportHide(w) ELSE transportShow(w, next)
  BY DEF syncFromApp, next
<1>4. CASE next = w.shown
  BY <1>3, <1>4
<1>5. CASE next # w.shown /\ next = NoCard
  BY <1>3, <1>5, HideKnown
<1>6. CASE next # w.shown /\ next # NoCard
  <2>1. ~next.playing =>
           svc.metronome /\ \A i \in DOMAIN w.main : w.main[i].kind # "hide"
    BY <1>2, <1>6 DEF Known, Heard
  <2> QED BY <1>1, <1>3, <1>6, <2>1, ShowKnown
<1> QED BY <1>4, <1>5, <1>6

\* What is shown is of the metronome as it is now.
Fits(a, card) ==
  /\ a.running = (a.practice.since # None)
  /\ a.running => card # NoCard
  /\ card # NoCard => card = cardOf(a, a.running, a.practice.since)

LEMMA SyncFits ==
  ASSUME NEW a \in Apps, NEW s \in PlayCards \cup {NoCard},
         a.running = (a.practice.since # None),
         s # NoCard /\ ~s.playing => s.since = None
  PROVE  Fits(a, shownFor(a, s))
<1>1. cardOf(a, TRUE, a.practice.since) # NoCard
  BY CardOfType, CardsDiffer DEF Apps, Clocks
<1> QED BY <1>1 DEF Fits, shownFor, Apps

-----------------------------------------------------------------------------
(* The app's steps. *)

LEMMA SentIsWorld ==
  ASSUME NEW v \in Worlds, Send(v)
  PROVE  /\ World' = v /\ World' \in Worlds
         /\ shown' = v.shown /\ main' = v.main /\ unsent' = v.unsent
BY DEF Send, World, Worlds

LEMMA Quiet ==
  /\ Says(<<>>, Cards) = {} /\ Says(<<>>, SongCards) = {}
  /\ Says(<<>>, Metro) = {} /\ Says(<<>>, Song) = {}
BY SaysNothing

LEMMA AppKnows ==
  ASSUME CardTypes, Following, events = <<>>
  PROVE  /\ Known(World) /\ Fits(app, shown)
         /\ shown # NoCard /\ ~shown.playing => shown.since = None
         /\ eng.running = app.running /\ eng.ramp = app.ramp
         /\ ~app.ramp => eng.bpm = app.bpm
<1>1. Says(events, Metro) = {}
  BY Quiet
<1>2. World.shown = shown /\ World.main = main
  BY DEF World
<1>3. Known(World)
  BY <1>1, <1>2 DEF Following, Known
<1>4. Fits(app, shown)
  BY DEF Following, ShownIsApps, Fits
<1>5. shown # NoCard /\ ~shown.playing => shown.since = None
  <2>1. app.running \in BOOLEAN
    BY DEF CardTypes, Apps
  <2>2. shown # NoCard => shown.playing = app.running /\ shown.since = app.practice.since
    BY DEF Following, ShownIsApps, cardOf
  <2> QED BY <2>1, <2>2 DEF Following, ShownIsApps
<1> QED BY <1>1, <1>3, <1>4, <1>5 DEF Following, EngineTold

\* What the app does leaves both sides with what they should have.
LEMMA AppSpeaks ==
  ASSUME CardInv, InApp, NEW v \in Worlds, Send(v),
         app' \in Apps, eng' \in Engines, songShown' \in BOOLEAN, World.unsent => v.unsent,
         Following /\ events = <<>> /\ ~v.unsent =>
           /\ Known(v) /\ Fits(app', v.shown)
           /\ eng'.running = app'.running /\ eng'.ramp = app'.ramp
           /\ ~app'.ramp => eng'.bpm = app'.bpm
           /\ \A m \in Says(v.main, SongCards) : (m.kind = "songShow") = songShown'
           /\ Says(v.main, SongCards) = {} => svc.song = songShown'
  PROVE  CardInv'
<1>1. /\ World' = v /\ World' \in Worlds
      /\ shown' = v.shown /\ main' = v.main /\ unsent' = v.unsent
  BY SentIsWorld
<1>2. UNCHANGED <<time, events, svc>> /\ bothActed' = (bothActed \/ events # <<>>)
  BY DEF InApp
<1>3. CardTypes'
  BY <1>1, <1>2 DEF CardInv, CardTypes
<1>4. ServiceIsWhole'
  BY <1>2 DEF CardInv, ServiceIsWhole
<1>5. ASSUME ~bothActed', ~unsent' PROVE Following'
  <2>1. ~bothActed /\ events = <<>> /\ ~unsent
    BY <1>1, <1>2, <1>5 DEF World, CardInv, CardTypes
  <2>2. Following
    BY <2>1 DEF CardInv
  <2>3. /\ Known(v) /\ Fits(app', v.shown)
        /\ eng'.running = app'.running /\ eng'.ramp = app'.ramp
        /\ ~app'.ramp => eng'.bpm = app'.bpm
        /\ \A m \in Says(v.main, SongCards) : (m.kind = "songShow") = songShown'
        /\ Says(v.main, SongCards) = {} => svc.song = songShown'
    BY <1>1, <1>5, <2>1, <2>2
  <2>4. events' = <<>> /\ Says(events', Metro) = {} /\ Says(events', Song) = {}
    BY <1>2, <2>1, Quiet
  <2>5. ShownIsApps'
    BY <1>1, <2>3 DEF ShownIsApps, Fits, cardOf
  <2>6. Heard(shown, main)'
    BY <1>1, <1>2, <2>3 DEF Known, Heard
  <2>7. Says(main', Cards) = {} => ServiceTells(shown)'
    BY <1>1, <1>2, <2>3 DEF Known, ServiceTells
  <2>8. SongHeard'
    BY <1>1, <1>2, <2>3, <2>4 DEF SongHeard
  <2>9. EngineTold'
    BY <2>3, <2>4 DEF EngineTold
  <2>10. InOrder(events')
    BY <2>4 DEF InOrder
  <2> QED BY <2>4, <2>5, <2>6, <2>7, <2>8, <2>9, <2>10 DEF Following
<1> QED BY <1>3, <1>4, <1>5 DEF CardInv

\* One change of the store, sent.
LEMMA AppSyncs ==
  ASSUME CardInv, InApp, app' \in Apps, eng' \in Engines, UNCHANGED songShown,
         Send(syncFromApp(World, app')),
         Following /\ events = <<>> =>
           /\ app'.running = (app'.practice.since # None)
           /\ eng'.running = app'.running /\ eng'.ramp = app'.ramp
           /\ ~app'.ramp => eng'.bpm = app'.bpm
  PROVE  CardInv'
<1> DEFINE v == syncFromApp(World, app')
<1>1. CardTypes /\ ServiceIsWhole /\ World \in Worlds /\ World.shown = shown /\ World.main = main
  BY DEF CardInv, CardTypes, World
<1>2. v \in Worlds /\ v.shown = shownFor(app', shown) /\ (World.unsent => v.unsent)
  BY <1>1, SyncType
<1>3. ASSUME Following, events = <<>>, ~v.unsent
      PROVE  /\ Known(v) /\ Fits(app', v.shown)
             /\ \A m \in Says(v.main, SongCards) : (m.kind = "songShow") = songShown'
             /\ Says(v.main, SongCards) = {} => svc.song = songShown'
  <2>1. Known(World) /\ (shown # NoCard /\ ~shown.playing => shown.since = None)
    BY <1>1, <1>3, AppKnows
  <2>2. Known(v) /\ Says(v.main, SongCards) = Says(main, SongCards)
    BY <1>1, <1>3, <2>1, SyncKnown
  <2>3. shown \in PlayCards \cup {NoCard}
    BY <1>1 DEF Worlds
  <2>4. Fits(app', v.shown)
    BY <1>2, <1>3, <2>1, <2>3, SyncFits
  <2>5. Says(events, Song) = {}
    BY <1>3, Quiet
  <2> QED BY <1>3, <2>2, <2>4, <2>5 DEF Following, SongHeard
<1>4. songShown' \in BOOLEAN /\ Send(v)
  BY DEF CardInv, CardTypes
<1> HIDE DEF v
<1> QED BY <1>2, <1>3, <1>4, AppSpeaks

LEMMA StartKeeps == CardInv /\ start => CardInv'
<1> SUFFICES ASSUME CardInv, start PROVE CardInv'
  OBVIOUS
<1>1. /\ InApp /\ ~app.running /\ UNCHANGED songShown
      /\ app' = [app EXCEPT !.running = TRUE, !.practice = Stretch(@, TRUE)]
      /\ eng' = [running |-> TRUE, bpm |-> app.bpm, ramp |-> app.ramp]
      /\ Send(syncFromApp(World, app'))
  BY DEF start
<1>2. CardTypes /\ app \in Apps /\ app.practice \in Clocks
  BY DEF CardInv, CardTypes, Apps
<1>3. /\ Stretch(app.practice, TRUE) \in Clocks
      /\ (Stretch(app.practice, TRUE).since # None) = TRUE
  BY <1>2, StretchKeeps
<1>4. app' \in Apps /\ eng' \in Engines
  BY <1>1, <1>2, <1>3 DEF Apps, Engines
<1>5. /\ app'.running = (app'.practice.since # None)
      /\ eng'.running = app'.running /\ eng'.ramp = app'.ramp /\ eng'.bpm = app'.bpm
  BY <1>1, <1>2, <1>3 DEF Apps
<1> QED BY <1>1, <1>4, <1>5, AppSyncs

LEMMA SetTempoKeeps == ASSUME CardInv, NEW b \in Tempos, setTempo(b) PROVE CardInv'
<1>1. /\ InApp /\ UNCHANGED songShown
      /\ app' = [app EXCEPT !.bpm = b, !.ramp = FALSE]
      /\ eng' = [eng EXCEPT !.bpm = b, !.ramp = FALSE]
      /\ Send(syncFromApp(World, app'))
  BY DEF setTempo
<1>2. CardTypes /\ app \in Apps /\ eng \in Engines /\ b \in Nat
  BY CardAssumption DEF CardInv, CardTypes
<1>3. /\ app' \in Apps /\ eng' \in Engines
      /\ app'.running = app.running /\ app'.practice = app.practice
      /\ eng'.running = eng.running /\ eng'.ramp = app'.ramp /\ eng'.bpm = app'.bpm
  BY <1>1, <1>2 DEF Apps, Engines
<1>4. Following /\ events = <<>> =>
        app.running = (app.practice.since # None) /\ eng.running = app.running
  BY <1>2, AppKnows DEF Fits
<1> QED BY <1>1, <1>3, <1>4, AppSyncs

LEMMA SetRampKeeps == CardInv /\ setRamp => CardInv'
<1> SUFFICES ASSUME CardInv, setRamp PROVE CardInv'
  OBVIOUS
<1>1. /\ InApp /\ UNCHANGED songShown
      /\ app' = [app EXCEPT !.ramp = TRUE] /\ eng' = [eng EXCEPT !.ramp = TRUE]
      /\ Send(syncFromApp(World, app'))
  BY DEF setRamp
<1>2. CardTypes /\ app \in Apps /\ eng \in Engines
  BY DEF CardInv, CardTypes
<1>3. /\ app' \in Apps /\ eng' \in Engines
      /\ app'.running = app.running /\ app'.practice = app.practice
      /\ eng'.running = eng.running /\ eng'.ramp = TRUE /\ app'.ramp = TRUE
  BY <1>1, <1>2 DEF Apps, Engines
<1>4. Following /\ events = <<>> =>
        app.running = (app.practice.since # None) /\ eng.running = app.running
  BY <1>2, AppKnows DEF Fits
<1> QED BY <1>1, <1>3, <1>4, AppSyncs

LEMMA ResetPracticeKeeps == CardInv /\ resetPractice => CardInv'
<1> SUFFICES ASSUME CardInv, resetPractice PROVE CardInv'
  OBVIOUS
<1> DEFINE fresh == [played |-> 0,
                     since |-> IF app.practice.since = None THEN None ELSE time]
<1>1. /\ InApp /\ UNCHANGED <<eng, songShown>>
      /\ app' = [app EXCEPT !.practice = fresh]
      /\ Send(syncFromApp(World, app'))
  BY DEF resetPractice
<1>2. CardTypes /\ app \in Apps /\ eng \in Engines /\ app.practice.since \in Int
  BY DEF CardInv, CardTypes, Apps, Clocks
<1>3. fresh \in Clocks /\ (fresh.since # None) = (app.practice.since # None)
  BY <1>2, TimeIsTold DEF Clocks, None
<1> HIDE DEF fresh
<1>4. /\ app' \in Apps /\ eng' \in Engines /\ app'.practice = fresh
      /\ app'.running = app.running /\ app'.ramp = app.ramp /\ app'.bpm = app.bpm
  BY <1>1, <1>2, <1>3 DEF Apps
<1>5. Following /\ events = <<>> =>
        /\ app.running = (app.practice.since # None) /\ eng.running = app.running
        /\ eng.ramp = app.ramp /\ (~app.ramp => eng.bpm = app.bpm)
  BY <1>2, AppKnows DEF Fits
<1> QED BY <1>1, <1>3, <1>4, <1>5, AppSyncs

LEMMA StopSteps ==
  ASSUME CardTypes
  PROVE  /\ synced \in Apps /\ synced.running = app.running /\ synced.ramp = app.ramp
         /\ synced.practice = app.practice
         /\ synced.bpm = IF app.running THEN eng.bpm ELSE app.bpm
         /\ stopped \in Apps /\ ~stopped.running /\ stopped.ramp = app.ramp
         /\ stopped.bpm = synced.bpm /\ stopped.practice.since = None
<1>1. app \in Apps /\ eng \in Engines /\ app.practice \in Clocks
  BY DEF CardTypes, Apps
<1>2. /\ synced \in Apps /\ synced.running = app.running /\ synced.ramp = app.ramp
      /\ synced.practice = app.practice
      /\ synced.bpm = IF app.running THEN eng.bpm ELSE app.bpm
  BY <1>1 DEF synced, Apps, Engines
<1>3. /\ Stretch(synced.practice, FALSE) \in Clocks
      /\ (Stretch(synced.practice, FALSE).since # None) = FALSE
  BY <1>1, <1>2, StretchKeeps
<1> QED BY <1>2, <1>3 DEF stopped, Apps

\* The two changes of a stop, sent.
LEMMA StopSends ==
  ASSUME CardInv
  PROVE  LET w == syncFromApp(World, synced)
             v == syncFromApp(w, stopped)
         IN  /\ w \in Worlds /\ v \in Worlds /\ (World.unsent => v.unsent)
             /\ Following /\ events = <<>> /\ ~v.unsent =>
                  /\ Known(v) /\ Fits(stopped, v.shown)
                  /\ Says(v.main, SongCards) = Says(main, SongCards)
<1> DEFINE w == syncFromApp(World, synced)
           v == syncFromApp(w, stopped)
<1>1. CardTypes /\ ServiceIsWhole /\ World \in Worlds /\ World.shown = shown /\ World.main = main
  BY DEF CardInv, CardTypes, World
<1>2. synced \in Apps /\ stopped \in Apps
  BY <1>1, StopSteps
<1>3. w \in Worlds /\ w.shown = shownFor(synced, shown) /\ (World.unsent => w.unsent)
  BY <1>1, <1>2, SyncType
<1> HIDE DEF w
<1>4. v \in Worlds /\ v.shown = shownFor(stopped, w.shown) /\ (w.unsent => v.unsent)
  BY <1>1, <1>2, <1>3, SyncType
<1>5. ASSUME Following, events = <<>>, ~v.unsent
      PROVE  /\ Known(v) /\ Fits(stopped, v.shown)
             /\ Says(v.main, SongCards) = Says(main, SongCards)
  <2>1. /\ Known(World) /\ (shown # NoCard /\ ~shown.playing => shown.since = None)
        /\ Fits(app, shown)
    BY <1>1, <1>5, AppKnows
  <2>2. ~w.unsent
    BY <1>4, <1>5
  <2>3. Known(w) /\ Says(w.main, SongCards) = Says(main, SongCards)
    <3> USE DEF w
    <3> QED BY <1>1, <1>2, <2>1, <2>2, SyncKnown
  <2>4. Known(v) /\ Says(v.main, SongCards) = Says(w.main, SongCards)
    BY <1>1, <1>2, <1>3, <1>5, <2>3, SyncKnown
  <2>5. synced.running = (synced.practice.since # None)
    BY <1>1, <2>1, StopSteps DEF Fits
  <2>6. Fits(synced, w.shown)
    BY <1>1, <1>2, <1>3, <2>1, <2>5, SyncFits DEF Worlds
  <2>7. w.shown # NoCard /\ ~w.shown.playing => w.shown.since = None
    BY <1>3, <2>1, CardsDiffer DEF shownFor, cardOf
  <2>8. Fits(stopped, v.shown)
    <3>1. stopped.running = FALSE /\ stopped.practice.since = None
      BY <1>1, StopSteps DEF Apps
    <3>2. w.shown \in PlayCards \cup {NoCard}
      BY <1>3 DEF Worlds
    <3> QED BY <1>2, <1>4, <2>7, <3>1, <3>2, SyncFits
  <2> QED BY <2>3, <2>4, <2>8
<1> QED BY <1>3, <1>4, <1>5 DEF w

\* The engine stops with the store, at the tempo it had reached.
LEMMA EngineStops ==
  ASSUME CardInv, app' = stopped, eng' = [eng EXCEPT !.running = FALSE]
  PROVE  /\ app' \in Apps /\ eng' \in Engines
         /\ Following /\ events = <<>> =>
              /\ eng'.running = app'.running /\ eng'.ramp = app'.ramp
              /\ ~app'.ramp => eng'.bpm = app'.bpm
<1>1. CardTypes /\ eng \in Engines
  BY DEF CardInv, CardTypes
<1>2. eng' \in Engines /\ ~eng'.running /\ eng'.ramp = eng.ramp /\ eng'.bpm = eng.bpm
  BY <1>1 DEF Engines
<1>3. Following /\ events = <<>> => eng.ramp = app.ramp /\ (~app.ramp => eng.bpm = app.bpm)
  BY <1>1, AppKnows
<1>4. ~stopped.running /\ stopped \in Apps /\ stopped.ramp = app.ramp
      /\ stopped.bpm \in {eng.bpm, app.bpm}
  BY <1>1, StopSteps
<1>5. app'.running = FALSE /\ eng'.running = FALSE
  BY <1>2, <1>4 DEF Apps, Engines
<1> QED BY <1>2, <1>3, <1>4, <1>5

LEMMA StopKeeps == CardInv /\ stop => CardInv'
<1> SUFFICES ASSUME CardInv, stop PROVE CardInv'
  OBVIOUS
<1> DEFINE v == syncFromApp(syncFromApp(World, synced), stopped)
<1>1. /\ InApp /\ UNCHANGED songShown /\ Send(v)
      /\ app' = stopped /\ eng' = [eng EXCEPT !.running = FALSE]
  BY DEF stop
<1>2. /\ v \in Worlds /\ (World.unsent => v.unsent)
      /\ Following /\ events = <<>> /\ ~v.unsent =>
           /\ Known(v) /\ Fits(stopped, v.shown)
           /\ Says(v.main, SongCards) = Says(main, SongCards)
  BY StopSends
<1> HIDE DEF v
<1>3. songShown' \in BOOLEAN
  BY <1>1 DEF CardInv, CardTypes
<1>4. Following /\ events = <<>> =>
         /\ \A m \in Says(main, SongCards) : (m.kind = "songShow") = songShown
         /\ Says(main, SongCards) = {} => svc.song = songShown
  BY Quiet DEF Following, SongHeard
<1> QED BY <1>1, <1>2, <1>3, <1>4, EngineStops, AppSpeaks

LEMMA ReleaseKeeps == CardInv /\ releaseMetronome => CardInv'
<1> SUFFICES ASSUME CardInv, releaseMetronome PROVE CardInv'
  OBVIOUS
<1> DEFINE w == syncFromApp(syncFromApp(World, synced), stopped)
           v == IF w.shown = NoCard THEN w ELSE transportHide(w)
<1>1. /\ InApp /\ UNCHANGED songShown /\ Send(v)
      /\ app' = stopped /\ eng' = [eng EXCEPT !.running = FALSE]
  BY DEF releaseMetronome
<1>2. /\ w \in Worlds /\ (World.unsent => w.unsent)
      /\ Following /\ events = <<>> /\ ~w.unsent =>
           /\ Known(w) /\ Fits(stopped, w.shown)
           /\ Says(w.main, SongCards) = Says(main, SongCards)
  BY StopSends
<1> HIDE DEF w
<1>3. songShown' \in BOOLEAN /\ CardTypes /\ ServiceIsWhole
  BY <1>1 DEF CardInv, CardTypes
<1>4. Following /\ events = <<>> =>
         /\ \A m \in Says(main, SongCards) : (m.kind = "songShow") = songShown
         /\ Says(main, SongCards) = {} => svc.song = songShown
  BY Quiet DEF Following, SongHeard
<1>5. v \in Worlds /\ (w.unsent => v.unsent) /\ v.shown = NoCard
  BY <1>2, <1>3, TransportHideSends
<1>6. ASSUME Following, events = <<>>, ~v.unsent
      PROVE  /\ Known(v) /\ Fits(stopped, v.shown)
             /\ Says(v.main, SongCards) = Says(main, SongCards)
  <2>1. /\ Known(w) /\ Fits(stopped, w.shown)
        /\ Says(w.main, SongCards) = Says(main, SongCards)
    BY <1>2, <1>5, <1>6
  <2>2. Known(v) /\ Says(v.main, SongCards) = Says(w.main, SongCards)
    BY <1>2, <1>3, <1>6, <2>1, HideKnown
  <2>3. Fits(stopped, NoCard)
    BY <1>3, <2>1, StopSteps DEF Fits
  <2> QED BY <1>5, <2>1, <2>2, <2>3
<1> HIDE DEF v
<1> QED BY <1>1, <1>2, <1>3, <1>4, <1>5, <1>6, EngineStops, AppSpeaks

\* A message about the song says nothing of the metronome's card.
LEMMA SongSent ==
  ASSUME NEW w \in Worlds, NEW v \in Worlds, NEW m \in Messages, m.kind \in SongCards,
         v.shown = w.shown, v.main = Append(w.main, m), Known(w)
  PROVE  Known(v) /\ Says(v.main, SongCards) = {m}
<1>1. w.main \in Seq(Messages)
  BY DEF Worlds
<1>2. Says(v.main, SongCards) = {m} /\ Says(v.main, Cards) = Says(w.main, Cards)
  BY <1>1, SaysAppended DEF Cards, SongCards
<1>3. (\A i \in DOMAIN w.main : w.main[i].kind # "hide") =>
         \A i \in DOMAIN v.main : v.main[i].kind # "hide"
  BY <1>1 DEF SongCards
<1> QED BY <1>2, <1>3 DEF Known, Heard

LEMMA SongShowKeeps == CardInv /\ songTransportShow => CardInv'
<1> SUFFICES ASSUME CardInv, songTransportShow PROVE CardInv'
  OBVIOUS
<1> DEFINE m == Message("songShow", NoCard)
           longer == Append(main, m)
           v == [World EXCEPT !.main = longer, !.requested = @ \/ ~svc.alive]
<1>1. /\ InApp /\ songShown' = TRUE /\ Send(v) /\ UNCHANGED <<app, eng>>
  BY DEF songTransportShow, World
<1>2. /\ CardTypes /\ World \in Worlds /\ World.shown = shown /\ World.main = main
      /\ app \in Apps /\ eng \in Engines /\ svc.alive \in BOOLEAN
  BY DEF CardInv, CardTypes, World, Services
<1>3. m \in Messages /\ m.kind = "songShow" /\ main \in Seq(Messages)
  BY <1>2 DEF Message, Messages, Worlds
<1> HIDE DEF m
<1>4. longer \in Seq(Messages)
  BY <1>3, AppendProperties
<1> HIDE DEF longer
<1>5. v \in Worlds /\ v.shown = shown /\ v.main = longer /\ v.unsent = World.unsent
  BY <1>2, <1>4 DEF Worlds
<1> HIDE DEF v
<1>6. ASSUME Following, events = <<>>
      PROVE  Known(v) /\ Says(v.main, SongCards) = {m} /\ Fits(app, v.shown)
  <2>1. Known(World) /\ Fits(app, shown)
    BY <1>2, <1>6, AppKnows
  <2>2. m.kind \in SongCards
    BY <1>3 DEF SongCards
  <2>3. v.main = Append(World.main, m)
    BY <1>2, <1>5 DEF longer
  <2> QED BY <1>2, <1>3, <1>5, <2>1, <2>2, <2>3, SongSent
<1> QED BY <1>1, <1>2, <1>3, <1>5, <1>6, AppKnows, AppSpeaks

LEMMA SongHideKeeps == CardInv /\ songTransportHide => CardInv'
<1> SUFFICES ASSUME CardInv, songTransportHide PROVE CardInv'
  OBVIOUS
<1> DEFINE m == Message("songHide", NoCard)
           v == Hide(World, "songHide")
<1>1. InApp /\ songShown /\ songShown' = FALSE /\ Send(v) /\ UNCHANGED <<app, eng>>
  BY DEF songTransportHide
<1>2. /\ CardTypes /\ World \in Worlds /\ World.shown = shown /\ World.main = main
      /\ app \in Apps /\ eng \in Engines
  BY DEF CardInv, CardTypes, World
<1>3. m \in Messages /\ m.kind = "songHide" /\ m.kind \in SongCards
  BY DEF Message, Messages, SongCards
<1> HIDE DEF m
<1>4. /\ v \in Worlds /\ v.shown = shown /\ (World.unsent => v.unsent)
      /\ \/ v.main = Append(main, m)
         \/ /\ ~svc.alive /\ v.main = main
            /\ ~v.unsent => \A i \in DOMAIN main : ~IsShow(main[i])
  BY <1>2, HideSends DEF m
<1> HIDE DEF v
<1>5. ASSUME Following, events = <<>>, ~v.unsent
      PROVE  Known(v) /\ Says(v.main, SongCards) = {m} /\ Fits(app, v.shown)
  <2>1. Known(World) /\ Fits(app, shown)
    BY <1>2, <1>5, AppKnows
  <2>2. v.main = Append(World.main, m)
    <3> SUFFICES ASSUME ~svc.alive, \A i \in DOMAIN main : ~IsShow(main[i]) PROVE FALSE
      BY <1>2, <1>4, <1>5
    <3>1. ~svc.song
      BY NewService DEF CardInv, ServiceIsWhole
    <3>2. Says(main, SongCards) # {}
      BY <1>1, <1>5, <3>1, Quiet DEF Following, SongHeard
    <3>3. PICK k \in Says(main, SongCards) : TRUE
      BY <3>2
    <3>4. k.kind = "songShow"
      BY <1>1, <1>5, <3>3 DEF Following, SongHeard
    <3> QED BY <3>4, SaysMember DEF IsShow
  <2> QED BY <1>2, <1>3, <1>4, <2>1, <2>2, SongSent
<1> QED BY <1>1, <1>2, <1>3, <1>4, <1>5, AppKnows, AppSpeaks

-----------------------------------------------------------------------------
(* An event reaches the app. *)

LEMMA CardAfterEvent ==
  ASSUME NEW s \in PlayCards, NEW e \in Tellings
  PROVE  shownAfterNativeChange(s, e) =
           IF e.playback = "stopped" THEN NoCard
           ELSE [playing |-> e.playback = "playing",
                 bpm |-> IF e.ramp THEN s.bpm ELSE e.bpm, ramp |-> s.ramp /\ e.ramp,
                 played |-> e.practice.played, since |-> e.practice.since]
<1> DEFINE plays == e.playback = "playing"
           played == e.practice.played
           since == e.practice.since
           bpm == IF e.ramp THEN s.bpm ELSE e.bpm
           ramp == s.ramp /\ e.ramp
<1>1. shownAfterNativeChange(s, e) =
        IF e.playback = "stopped" THEN NoCard
        ELSE [s EXCEPT !.playing = plays, !.played = played, !.since = since,
                       !.bpm = bpm, !.ramp = ramp]
  BY CardsDiffer, SMT DEF shownAfterNativeChange, PlayCards
<1>2. plays \in BOOLEAN /\ played \in Int /\ since \in Int /\ bpm \in Nat /\ ramp \in BOOLEAN
  BY DEF Tellings, Clocks, PlayCards
<1> HIDE DEF plays, played, since, bpm, ramp
<1> DEFINE t == [s EXCEPT !.playing = plays, !.played = played, !.since = since,
                          !.bpm = bpm, !.ramp = ramp]
<1>3. t \in PlayCards
  BY <1>2 DEF PlayCards
<1>4. t.playing = plays /\ t.played = played /\ t.since = since /\ t.bpm = bpm /\ t.ramp = ramp
  BY <1>2 DEF PlayCards
<1> HIDE DEF t
<1>5. t = [playing |-> plays, bpm |-> bpm, ramp |-> ramp, played |-> played, since |-> since]
  BY <1>3, <1>4 DEF PlayCards
<1>6. shownAfterNativeChange(s, e) = IF e.playback = "stopped" THEN NoCard ELSE t
  BY <1>1 DEF t
<1> QED BY <1>5, <1>6 DEF plays, played, since, bpm, ramp

\* What the app makes of an event of the metronome.
LEMMA EventHeard ==
  ASSUME CardTypes, ShownIsApps, shown # NoCard, NEW e \in Tellings,
         (e.practice.since # None) = (e.playback = "playing")
  PROVE  LET s == shownAfterNativeChange(shown, e)
             a == storePatchFor(app, e)
         IN  /\ a \in Apps /\ s \in PlayCards \cup {NoCard} /\ Fits(a, s)
             /\ a.running = (e.playback = "playing")
             /\ a.ramp = (app.ramp /\ e.ramp) /\ (~e.ramp => a.bpm = e.bpm)
             /\ (s = NoCard) = (e.playback = "stopped")
             /\ s # NoCard =>
                  /\ s.playing = (e.playback = "playing") /\ s.ramp = (app.ramp /\ e.ramp)
                  /\ ~e.ramp => s.bpm = e.bpm
                  /\ s.played = e.practice.played /\ s.since = e.practice.since
<1> DEFINE s == shownAfterNativeChange(shown, e)
           a == storePatchFor(app, e)
           plays == e.playback = "playing"
<1>1. /\ app \in Apps /\ e.practice \in Clocks /\ e.bpm \in Nat /\ e.ramp \in BOOLEAN
      /\ app.bpm \in Nat /\ app.ramp \in BOOLEAN /\ app.running \in BOOLEAN
  BY DEF CardTypes, Apps, Tellings
<1>2. e.practice.since \in Int /\ e.practice.played \in Int /\ plays \in BOOLEAN
  BY <1>1 DEF Clocks
<1> HIDE DEF plays
<1>3. (e.practice.since # None) = plays
  BY DEF plays
<1>4. a = [running |-> plays, bpm |-> IF e.ramp THEN app.bpm ELSE e.bpm,
           ramp |-> app.ramp /\ e.ramp,
           practice |-> [played |-> e.practice.played, since |-> e.practice.since]]
  BY <1>2, <1>3 DEF storePatchFor, plays
<1>5. a \in Apps
  BY <1>1, <1>2, <1>4 DEF Apps, Clocks
<1>6. shown = [playing |-> app.running, bpm |-> app.bpm, ramp |-> app.ramp,
               played |-> app.practice.played, since |-> app.practice.since]
  BY DEF ShownIsApps, cardOf
<1>7. CASE e.playback = "stopped"
  <2>1. s = NoCard /\ ~plays
    BY <1>7, SMT DEF shownAfterNativeChange, plays
  <2>2. a.running = plays /\ a.ramp = (app.ramp /\ e.ramp) /\ (~e.ramp => a.bpm = e.bpm)
        /\ a.practice.since = e.practice.since
    BY <1>4
  <2> HIDE DEF s, a
  <2>3. Fits(a, s)
    BY <1>3, <2>1, <2>2 DEF Fits
  <2>4. (s = NoCard) = (e.playback = "stopped")
    BY <1>7, <2>1
  <2> QED BY <1>5, <2>1, <2>2, <2>3, <2>4 DEF s, a, plays
<1>8. CASE e.playback # "stopped"
  <2>1. s = [playing |-> plays, bpm |-> IF e.ramp THEN app.bpm ELSE e.bpm,
             ramp |-> app.ramp /\ e.ramp,
             played |-> e.practice.played, since |-> e.practice.since]
    <3>1. shown \in PlayCards
      BY DEF CardTypes, World, Worlds
    <3> QED BY <1>6, <1>8, <3>1, CardAfterEvent DEF plays
  <2>2. s \in PlayCards /\ s # NoCard
    BY <1>1, <1>2, <2>1, CardsDiffer DEF PlayCards
  <2>3. s = cardOf(a, a.running, a.practice.since)
    BY <1>4, <2>1 DEF cardOf
  <2>4. Fits(a, s)
    BY <1>3, <1>4, <2>2, <2>3 DEF Fits
  <2> HIDE DEF s, a
  <2>5. (s = NoCard) = (e.playback = "stopped")
    BY <1>8, <2>2
  <2>6. a.running = plays /\ a.ramp = (app.ramp /\ e.ramp) /\ (~e.ramp => a.bpm = e.bpm)
    BY <1>4
  <2>7. /\ s.playing = plays /\ s.ramp = (app.ramp /\ e.ramp)
        /\ ~e.ramp => s.bpm = e.bpm
        /\ s.played = e.practice.played /\ s.since = e.practice.since
    BY <2>1
  <2> QED BY <1>5, <2>2, <2>4, <2>5, <2>6, <2>7 DEF s, a, plays
<1> QED BY <1>7, <1>8

LEMMA OrderRests ==
  ASSUME NEW q \in Seq(Events), q # <<>>, InOrder(q)
  PROVE  /\ InOrder(Tail(q))
         /\ Head(q).kind = "metronome" =>
              /\ (Head(q).practice.since # None) = (Head(q).playback = "playing")
              /\ \A e \in Says(Tail(q), Metro) :
                   Head(q).playback # "stopped" /\ (e.ramp => Head(q).ramp)
<1> DEFINE r == Tail(q)
<1>1. /\ Len(q) \in Nat \ {0} /\ DOMAIN q = 1..Len(q) /\ DOMAIN r = 1..(Len(q) - 1)
      /\ Head(q) = q[1]
      /\ \A i \in DOMAIN r : i \in Nat /\ i # 0 /\ i + 1 \in DOMAIN q /\ r[i] = q[i + 1]
  OBVIOUS
<1> HIDE DEF r
<1>2. InOrder(r)
  <2> SUFFICES ASSUME NEW i \in DOMAIN r, r[i].kind = "metronome"
               PROVE  /\ (r[i].practice.since # None) = (r[i].playback = "playing")
                      /\ \A j \in DOMAIN r : j > i /\ r[j].kind = "metronome" =>
                           r[i].playback # "stopped" /\ (r[j].ramp => r[i].ramp)
    BY DEF InOrder
  <2>1. i + 1 \in DOMAIN q /\ r[i] = q[i + 1] /\ i \in Nat
    BY <1>1
  <2>2. (r[i].practice.since # None) = (r[i].playback = "playing")
    BY <2>1 DEF InOrder
  <2>3. ASSUME NEW j \in DOMAIN r, j > i, r[j].kind = "metronome"
        PROVE  r[i].playback # "stopped" /\ (r[j].ramp => r[i].ramp)
    <3>1. j + 1 \in DOMAIN q /\ r[j] = q[j + 1] /\ j + 1 > i + 1
      BY <1>1, <2>1, <2>3
    <3> QED BY <2>1, <2>3, <3>1 DEF InOrder
  <2> QED BY <2>2, <2>3
<1>3. ASSUME q[1].kind = "metronome", NEW e \in Says(r, Metro)
      PROVE  q[1].playback # "stopped" /\ (e.ramp => q[1].ramp)
  <2>1. PICK i \in DOMAIN r : r[i] = e /\ e.kind = "metronome"
    BY SaysMember DEF Metro
  <2>2. i + 1 \in DOMAIN q /\ q[i + 1] = e /\ i + 1 > 1 /\ 1 \in DOMAIN q
    BY <1>1, <2>1
  <2> QED BY <1>3, <2>1, <2>2 DEF InOrder
<1>4. q[1].kind = "metronome" =>
         (q[1].practice.since # None) = (q[1].playback = "playing")
  BY <1>1 DEF InOrder
<1> QED BY <1>1, <1>2, <1>3, <1>4 DEF r

LEMMA TransportKeeps == CardInv /\ onTransport => CardInv'
<1> SUFFICES ASSUME CardInv, onTransport PROVE CardInv'
  OBVIOUS
<1> DEFINE e == Head(events)
<1>1. /\ events # <<>> /\ events' = Tail(events)
      /\ UNCHANGED <<time, eng, main, svc, startRequested, bothActed, unsent>>
      /\ e.kind = "song" => songShown' = FALSE /\ UNCHANGED <<app, shown>>
      /\ e.kind # "song" => /\ shown' = shownAfterNativeChange(shown, e)
                            /\ app' = storePatchFor(app, e) /\ UNCHANGED songShown
  BY DEF onTransport
<1>2. /\ CardTypes /\ ServiceIsWhole /\ events \in Seq(Events) /\ e \in Events
      /\ events' \in Seq(Events)
  BY <1>1 DEF CardInv, CardTypes
<1>3. e.kind = "song" \/ (e.kind = "metronome" /\ e \in Tellings)
  BY <1>2 DEF Events, Tellings, Metro, Song
<1> HIDE DEF e
<1>4. e.kind = "metronome" => app' \in Apps /\ shown' \in PlayCards \cup {NoCard}
  <2>1. app \in Apps /\ shown \in PlayCards \cup {NoCard}
    BY <1>2 DEF CardTypes, World, Worlds
  <2> SUFFICES ASSUME e \in Tellings
               PROVE  app' \in Apps /\ shown' \in PlayCards \cup {NoCard}
    BY <1>3, <2>1
  <2>2. /\ e.practice.since \in Int /\ e.practice.played \in Int /\ e.bpm \in Nat
        /\ e.ramp \in BOOLEAN
    BY DEF Tellings, Clocks
  <2>3. e.kind # "song"
    BY DEF Tellings, Metro
  <2>4. app' \in Apps
    <3> DEFINE plays == e.playback = "playing"
               since == IF plays THEN e.practice.since ELSE None
               ramp == app.ramp /\ e.ramp
               bpm == IF e.ramp THEN app.bpm ELSE e.bpm
    <3>1. plays \in BOOLEAN /\ since \in Int /\ ramp \in BOOLEAN /\ bpm \in Nat
      BY <2>1, <2>2 DEF Apps, None
    <3>2. app' = [running |-> plays, bpm |-> bpm, ramp |-> ramp,
                  practice |-> [played |-> e.practice.played, since |-> since]]
      BY <1>1, <2>3, SMT DEF storePatchFor
    <3> HIDE DEF plays, since, ramp, bpm
    <3> QED BY <2>2, <3>1, <3>2 DEF Apps, Clocks
  <2>5. CASE shown = NoCard
    <3>1. shown' = NoCard
      BY <1>1, <2>3, <2>5, SMT DEF shownAfterNativeChange
    <3> QED BY <2>4, <3>1
  <2>6. CASE shown \in PlayCards
    <3>1. shown' \in PlayCards \cup {NoCard}
      <4> DEFINE plays == e.playback = "playing"
                 ramp == shown.ramp /\ e.ramp
                 bpm == IF e.ramp THEN shown.bpm ELSE e.bpm
      <4>1. plays \in BOOLEAN /\ ramp \in BOOLEAN /\ bpm \in Nat
        BY <2>2, <2>6 DEF PlayCards
      <4>2. shown' = IF e.playback = "stopped" THEN NoCard
                     ELSE [playing |-> plays, bpm |-> bpm, ramp |-> ramp,
                           played |-> e.practice.played, since |-> e.practice.since]
        BY <1>1, <2>3, <2>6, CardAfterEvent
      <4> HIDE DEF plays, ramp, bpm
      <4> QED BY <2>2, <4>1, <4>2 DEF PlayCards
    <3> QED BY <2>4, <3>1
  <2> QED BY <2>1, <2>5, <2>6
<1>5. World \in Worlds
  BY <1>2 DEF CardTypes
<1>6. CardTypes'
  <2>1. songShown' \in BOOLEAN /\ app' \in Apps /\ shown' \in PlayCards \cup {NoCard}
    BY <1>1, <1>2, <1>3, <1>4, <1>5 DEF CardTypes, World, Worlds
  <2>2. World' \in Worlds
    BY <1>1, <1>5, <2>1 DEF World, Worlds
  <2> QED BY <1>1, <1>2, <2>1, <2>2 DEF CardTypes
<1>7. ServiceIsWhole'
  BY <1>1, <1>2 DEF ServiceIsWhole
<1>8. ASSUME Following PROVE Following'
  <2>1. main = <<>> /\ main' = <<>>
    BY <1>1, <1>8 DEF Following
  <2>2. /\ Says(main, Cards) = {} /\ Says(main', Cards) = {}
        /\ Says(main, SongCards) = {} /\ Says(main', SongCards) = {}
    BY <2>1, Quiet
  <2>3. /\ Says(events, Metro) = IF Says(events', Metro) # {} THEN Says(events', Metro)
                                 ELSE IF e.kind \in Metro THEN {e} ELSE {}
        /\ Says(events, Song) = IF Says(events', Song) # {} THEN Says(events', Song)
                                ELSE IF e.kind \in Song THEN {e} ELSE {}
    BY <1>1, <1>2, SaysRest DEF e
  <2>4. /\ InOrder(events')
        /\ e.kind = "metronome" =>
             /\ (e.practice.since # None) = (e.playback = "playing")
             /\ \A l \in Says(events', Metro) : e.playback # "stopped" /\ (l.ramp => e.ramp)
    BY <1>1, <1>2, <1>8, OrderRests DEF Following, e
  <2>5. CASE e.kind = "song"
    <3>1. Says(events', Metro) = Says(events, Metro) /\ Says(events, Song) # {}
      BY <2>3, <2>5 DEF Metro, Song
    <3>2. ShownIsApps'
      BY <1>1, <1>8, <2>5 DEF Following, ShownIsApps, cardOf
    <3>3. Says(events', Metro) = {} => ServiceTells(shown)'
      BY <1>1, <1>8, <2>2, <2>5, <3>1 DEF Following, ServiceTells
    <3>4. events' = <<>> => Heard(shown, main)'
      <4>1. events' = <<>> => ServiceTells(shown)'
        BY <3>3, Quiet
      <4>2. svc.metronome' \in BOOLEAN
        BY <1>1, <1>2 DEF CardTypes, Services
      <4> QED BY <2>1, <2>2, <4>1, <4>2 DEF Heard, ServiceTells
    <3>5. SongHeard'
      <4>1. svc.song \in BOOLEAN /\ ~svc.song /\ songShown' = FALSE
        BY <1>1, <1>2, <1>8, <2>5, <3>1 DEF CardTypes, Services, Following, SongHeard
      <4> QED BY <1>1, <2>2, <4>1 DEF SongHeard
    <3>6. EngineTold'
      BY <1>1, <1>8, <2>5, <3>1 DEF Following, EngineTold
    <3> QED BY <2>1, <2>4, <3>2, <3>3, <3>4, <3>5, <3>6 DEF Following
  <2>6. CASE e.kind = "metronome"
    <3>1. e \in Tellings /\ Says(events, Metro) # {} /\ Says(events', Song) = Says(events, Song)
      BY <1>3, <2>3, <2>6 DEF Metro, Song
    <3>2. ShownIsApps /\ shown # NoCard
      BY <1>8, <3>1 DEF Following, EngineTold
    <3>3. /\ Fits(app', shown')
          /\ app'.running = (e.playback = "playing")
          /\ app'.ramp = (app.ramp /\ e.ramp) /\ (~e.ramp => app'.bpm = e.bpm)
          /\ (shown' = NoCard) = (e.playback = "stopped")
          /\ shown' # NoCard =>
               /\ shown'.playing = (e.playback = "playing")
               /\ shown'.ramp = (app.ramp /\ e.ramp)
               /\ ~e.ramp => shown'.bpm = e.bpm
               /\ shown'.played = e.practice.played /\ shown'.since = e.practice.since
      BY <1>1, <1>2, <2>4, <2>6, <3>1, <3>2, EventHeard
    <3>4. ShownIsApps'
      BY <3>3 DEF ShownIsApps, Fits, cardOf
    <3>5. ASSUME Says(events', Metro) = {}
          PROVE  /\ svc.metronome = (e.playback # "stopped")
                 /\ svc.metronome => /\ e.playback = svc.playback /\ e.ramp = svc.ramp
                                     /\ (~e.ramp => e.bpm = svc.bpm)
                                     /\ e.practice = svc.practice
                 /\ eng.running = (e.playback = "playing")
                 /\ e.ramp = eng.ramp /\ (~e.ramp => e.bpm = eng.bpm) /\ (e.ramp => app.ramp)
      <4>1. Says(events, Metro) = {e}
        BY <2>3, <2>6, <3>5 DEF Metro
      <4> QED BY <1>8, <4>1 DEF Following, EngineTold
    <3>6. Says(events', Metro) = {} => ServiceTells(shown)'
      <4> SUFFICES ASSUME Says(events', Metro) = {} PROVE ServiceTells(shown)'
        OBVIOUS
      <4>1. e.ramp \in BOOLEAN /\ e.practice \in Clocks /\ app.ramp \in BOOLEAN
        BY <1>2, <3>1 DEF Tellings, CardTypes, Apps
      <4>2. e.practice = [played |-> e.practice.played, since |-> e.practice.since]
        BY <4>1 DEF Clocks
      <4>3. svc.metronome = (shown' # NoCard)
        BY <1>2, <3>3, <3>5 DEF CardTypes, Services
      <4>4. ASSUME shown' # NoCard
            PROVE  /\ (svc.playback = "playing") = shown'.playing
                   /\ svc.ramp = shown'.ramp /\ (~shown'.ramp => svc.bpm = shown'.bpm)
                   /\ svc.practice = [played |-> shown'.played,
                        since |-> IF shown'.playing THEN shown'.since ELSE None]
        <5>1. svc.metronome
          BY <4>3, <4>4
        <5>2. e.playback = svc.playback /\ shown'.ramp = e.ramp
          BY <3>3, <3>5, <4>1, <4>4, <5>1
        <5>3. IF shown'.playing THEN shown'.since = e.practice.since ELSE e.practice.since = None
          BY <2>4, <2>6, <3>3, <4>4
        <5> QED BY <3>3, <3>5, <4>1, <4>2, <4>4, <5>1, <5>2, <5>3
      <4> QED BY <1>1, <4>3, <4>4 DEF ServiceTells
    <3>7. events' = <<>> => Heard(shown, main)'
      <4>1. events' = <<>> => ServiceTells(shown)'
        BY <3>6, Quiet
      <4>2. svc.metronome' \in BOOLEAN
        BY <1>1, <1>2 DEF CardTypes, Services
      <4> QED BY <2>1, <2>2, <4>1, <4>2 DEF Heard, ServiceTells
    <3>8. SongHeard'
      BY <1>1, <1>8, <2>2, <2>6, <3>1 DEF Following, SongHeard
    <3>9. EngineTold'
      <4>1. CASE Says(events', Metro) = {}
        <5>1. eng'.running = app'.running /\ eng'.ramp = app'.ramp
              /\ (~app'.ramp => eng'.bpm = app'.bpm)
          <6>1. e.ramp \in BOOLEAN /\ app.ramp \in BOOLEAN
            BY <1>2, <3>1 DEF Tellings, CardTypes, Apps
          <6>2. app'.ramp = e.ramp
            BY <3>3, <3>5, <4>1, <6>1
          <6> QED BY <1>1, <3>3, <3>5, <4>1, <6>2
        <5> QED BY <4>1, <5>1 DEF EngineTold
      <4>2. CASE Says(events', Metro) # {}
        <5>1. Says(events', Metro) = Says(events, Metro)
          BY <2>3, <4>2
        <5>2. shown' # NoCard
          BY <2>4, <2>6, <3>3, <4>2
        <5>3. \A l \in Says(events', Metro) : l.ramp => app'.ramp
          BY <1>8, <2>4, <2>6, <3>1, <3>3, <5>1 DEF Following, EngineTold
        <5> QED BY <1>1, <1>8, <3>1, <4>2, <5>1, <5>2, <5>3 DEF Following, EngineTold
      <4> QED BY <4>1, <4>2
    <3> QED BY <2>1, <2>4, <3>4, <3>6, <3>7, <3>8, <3>9 DEF Following
  <2> QED BY <1>3, <2>5, <2>6
<1> QED BY <1>1, <1>6, <1>7, <1>8 DEF CardInv

-----------------------------------------------------------------------------
(* The service takes a message. *)

LEMMA FinishType ==
  ASSUME NEW s \in Services, NEW later \in BOOLEAN
  PROVE  LET t == finish(s, later)
         IN  /\ t \in Services /\ t.posted = "none" /\ t.stopping = ~later
             /\ t.alive = s.alive /\ t.song = s.song /\ t.metronome = s.metronome
             /\ t.playback = s.playback /\ t.ramp = s.ramp /\ t.bpm = s.bpm
             /\ t.practice = s.practice
BY DEF finish, Services

LEMMA TempoType ==
  ASSUME CardTypes, NEW s \in Services
  PROVE  LET t == withEngineTempo(s)
         IN  /\ t \in Services /\ t.posted = s.posted /\ t.stopping = s.stopping
             /\ t.alive = s.alive /\ t.song = s.song /\ t.metronome = s.metronome
             /\ t.playback = s.playback /\ t.ramp = s.ramp /\ t.practice = s.practice
             /\ t.bpm = IF s.playback = "playing" THEN eng.bpm ELSE s.bpm
<1>1. eng.bpm \in Nat
  BY DEF CardTypes, Engines
<1> QED BY <1>1 DEF withEngineTempo, Services

LEMMA SongEndedType ==
  ASSUME CardTypes, NEW s \in Services
  PROVE  LET t == songEnded(s)
         IN  /\ t \in Services /\ ~t.song /\ t.stopping = s.stopping
             /\ t.posted = IF s.metronome THEN "metronome" ELSE s.posted
             /\ t.alive = s.alive /\ t.metronome = s.metronome
             /\ t.playback = s.playback /\ t.ramp = s.ramp /\ t.practice = s.practice
             /\ t.bpm \in {eng.bpm, s.bpm}
<1> DEFINE w == withEngineTempo(s)
<1>1. /\ w \in Services /\ w.posted = s.posted /\ w.stopping = s.stopping
      /\ w.alive = s.alive /\ w.song = s.song /\ w.metronome = s.metronome
      /\ w.playback = s.playback /\ w.ramp = s.ramp /\ w.practice = s.practice
      /\ w.bpm \in {eng.bpm, s.bpm}
  BY TempoType
<1>2. songEnded(s) = IF s.metronome THEN [w EXCEPT !.song = FALSE, !.posted = "metronome"]
                     ELSE [s EXCEPT !.song = FALSE]
  BY DEF songEnded
<1> HIDE DEF w
<1>3. CASE s.metronome
  BY <1>1, <1>2, <1>3 DEF Services
<1>4. CASE ~s.metronome
  BY <1>1, <1>2, <1>4 DEF Services
<1> QED BY <1>3, <1>4

LEMMA HeldType ==
  ASSUME NEW s \in Services, NEW card \in PlayCards
  PROVE  LET t == heldCard(s, card)
         IN  /\ t \in Services /\ t.posted = s.posted /\ t.stopping = s.stopping
             /\ t.alive = s.alive /\ t.song = s.song
             /\ t.playback = IF card.playing THEN "playing" ELSE "paused"
             /\ t.bpm = card.bpm /\ t.ramp = card.ramp
             /\ t.practice = [played |-> card.played,
                              since |-> IF card.playing THEN card.since ELSE None]
<1> DEFINE practice == [played |-> card.played,
                        since |-> IF card.playing THEN card.since ELSE None]
           playback == IF card.playing THEN "playing" ELSE "paused"
<1>1. practice \in Clocks /\ playback \in Playbacks /\ card.bpm \in Nat /\ card.ramp \in BOOLEAN
  BY DEF Clocks, PlayCards, Playbacks, None
<1>2. heldCard(s, card) = [s EXCEPT !.playback = playback, !.bpm = card.bpm, !.ramp = card.ramp,
                                !.practice = practice]
  BY DEF heldCard
<1> HIDE DEF practice, playback
<1>3. LET t == heldCard(s, card)
      IN  /\ t \in Services /\ t.posted = s.posted /\ t.stopping = s.stopping
          /\ t.alive = s.alive /\ t.song = s.song
          /\ t.playback = playback
          /\ t.bpm = card.bpm /\ t.ramp = card.ramp
          /\ t.practice = practice
  BY <1>1, <1>2 DEF Services
<1> QED BY <1>3 DEF practice, playback

LEMMA RoutedShow ==
  ASSUME NEW s \in Services, NEW m \in Messages, m.kind = "show", NEW later \in BOOLEAN
  PROVE  LET t == routed(s, m, later)
         IN  /\ t \in Services /\ t.metronome /\ t.song = s.song
             /\ t.alive = s.alive /\ t.stopping = s.stopping
             /\ t.posted = IF s.song THEN s.posted ELSE "metronome"
             /\ t.playback = IF m.card.playing THEN "playing" ELSE "paused"
             /\ t.bpm = m.card.bpm /\ t.ramp = m.card.ramp
             /\ t.practice = [played |-> m.card.played,
                              since |-> IF m.card.playing THEN m.card.since ELSE None]
<1>1. m.card \in PlayCards
  BY DEF Messages
<1> DEFINE h == heldCard(s, m.card)
<1>2. routed(s, m, later) = [h EXCEPT !.metronome = TRUE,
                                      !.posted = IF s.song THEN @ ELSE "metronome"]
  BY DEF routed
<1>3. /\ h \in Services /\ h.posted = s.posted /\ h.stopping = s.stopping
      /\ h.alive = s.alive /\ h.song = s.song
      /\ h.playback = IF m.card.playing THEN "playing" ELSE "paused"
      /\ h.bpm = m.card.bpm /\ h.ramp = m.card.ramp
      /\ h.practice = [played |-> m.card.played,
                       since |-> IF m.card.playing THEN m.card.since ELSE None]
  BY <1>1, HeldType
<1> HIDE DEF h
<1>4. LET t == routed(s, m, later)
      IN  /\ t \in Services /\ t.metronome /\ t.song = h.song
          /\ t.alive = h.alive /\ t.stopping = h.stopping
          /\ t.posted = IF s.song THEN h.posted ELSE "metronome"
          /\ t.playback = h.playback
          /\ t.bpm = h.bpm /\ t.ramp = h.ramp /\ t.practice = h.practice
  BY <1>2, <1>3 DEF Services
<1> QED BY <1>3, <1>4

LEMMA RoutedHide ==
  ASSUME NEW s \in Services, NEW m \in Messages, m.kind = "hide", NEW later \in BOOLEAN
  PROVE  LET t == routed(s, m, later)
         IN  /\ t \in Services /\ ~t.metronome /\ t.song = s.song /\ t.alive = s.alive
             /\ t.posted = IF s.song THEN s.posted ELSE "none"
             /\ t.stopping = IF s.song THEN s.stopping ELSE ~later
<1> DEFINE h == [s EXCEPT !.metronome = FALSE]
<1>1. routed(s, m, later) = IF s.song THEN h ELSE finish(h, later)
  BY DEF routed
<1>2. /\ h \in Services /\ ~h.metronome /\ h.song = s.song /\ h.alive = s.alive
      /\ h.posted = s.posted /\ h.stopping = s.stopping
  BY DEF Services
<1> HIDE DEF h
<1>3. CASE s.song
  BY <1>1, <1>2, <1>3
<1>4. CASE ~s.song
  BY <1>1, <1>2, <1>4, FinishType
<1> QED BY <1>3, <1>4

LEMMA RoutedSongShow ==
  ASSUME NEW s \in Services, NEW m \in Messages, m.kind = "songShow", NEW later \in BOOLEAN
  PROVE  LET t == routed(s, m, later)
         IN  /\ t \in Services /\ t.song /\ t.posted = "song" /\ t.metronome = s.metronome
             /\ t.alive = s.alive /\ t.stopping = s.stopping
             /\ t.playback = s.playback /\ t.bpm = s.bpm /\ t.ramp = s.ramp
             /\ t.practice = s.practice
<1>1. routed(s, m, later) = [s EXCEPT !.song = TRUE, !.posted = "song"]
  BY DEF routed
<1> QED BY <1>1 DEF Services

LEMMA RoutedSongHide ==
  ASSUME CardTypes, NEW s \in Services, NEW m \in Messages, m.kind = "songHide",
         NEW later \in BOOLEAN
  PROVE  LET t == routed(s, m, later)
         IN  /\ t \in Services /\ ~t.song /\ t.metronome = s.metronome /\ t.alive = s.alive
             /\ t.posted = IF ~s.metronome THEN "none"
                           ELSE IF s.song THEN "metronome" ELSE s.posted
             /\ t.stopping = IF s.metronome THEN s.stopping ELSE ~later
             /\ t.playback = s.playback /\ t.bpm \in {eng.bpm, s.bpm} /\ t.ramp = s.ramp
             /\ t.practice = s.practice
<1> DEFINE h == songEnded(s)
<1>1. routed(s, m, later) =
        IF s.song THEN IF s.metronome THEN h ELSE finish(h, later)
        ELSE IF s.metronome THEN s ELSE finish(s, later)
  BY DEF routed
<1>2. /\ h \in Services /\ ~h.song /\ h.stopping = s.stopping
      /\ h.posted = IF s.metronome THEN "metronome" ELSE s.posted
      /\ h.alive = s.alive /\ h.metronome = s.metronome
      /\ h.playback = s.playback /\ h.ramp = s.ramp /\ h.practice = s.practice
      /\ h.bpm \in {eng.bpm, s.bpm}
  BY SongEndedType
<1> HIDE DEF h
<1>3. s.song \in BOOLEAN /\ s.metronome \in BOOLEAN
  BY DEF Services
<1>4. CASE s.metronome
  BY <1>1, <1>2, <1>3, <1>4
<1>5. CASE ~s.metronome
  <2>1. CASE s.song
    BY <1>1, <1>2, <1>3, <1>5, <2>1, FinishType
  <2>2. CASE ~s.song
    BY <1>1, <1>2, <1>3, <1>5, <2>2, FinishType
  <2> QED BY <2>1, <2>2
<1> QED BY <1>4, <1>5

\* The service that takes a message: the one there is, or a new one.
LEMMA TheService ==
  ASSUME CardTypes, ServiceIsWhole
  PROVE  LET s == IF svc.alive THEN svc ELSE Created
         IN  /\ s \in Services /\ s.alive /\ s.stopping = svc.stopping
             /\ s.song = svc.song /\ s.metronome = svc.metronome /\ s.posted = svc.posted
             /\ s.metronome => s = svc
<1> QED BY NewService DEF CardTypes, ServiceIsWhole, Services

LEMMA ServiceStays ==
  ASSUME NEW card \in PlayCards \cup {NoCard}, ServiceTells(card), svc'.metronome = svc.metronome,
         svc'.metronome => /\ svc'.playback = svc.playback /\ svc'.ramp = svc.ramp
                           /\ ~svc.ramp => svc'.bpm = svc.bpm
                           /\ svc'.practice = svc.practice
  PROVE  /\ svc'.metronome = (card # NoCard)
         /\ card # NoCard =>
              /\ (svc'.playback = "playing") = card.playing
              /\ svc'.ramp = card.ramp /\ (~card.ramp => svc'.bpm = card.bpm)
              /\ svc'.practice = [played |-> card.played,
                                  since |-> IF card.playing THEN card.since ELSE None]
BY DEF ServiceTells

LEMMA StartCommandKeeps == CardInv /\ onStartCommand => CardInv'
<1> SUFFICES ASSUME CardInv, onStartCommand PROVE CardInv'
  OBVIOUS
<1> DEFINE m == Head(main)
           s == IF svc.alive THEN svc ELSE Created
           later == Tail(main) # <<>>
<1>1. /\ main # <<>> /\ ~svc.stopping /\ main' = Tail(main) /\ svc' = routed(s, m, later)
      /\ UNCHANGED <<time, app, eng, shown, songShown, events, startRequested, bothActed,
                     unsent>>
  BY DEF onStartCommand
<1>2. /\ CardTypes /\ ServiceIsWhole /\ World \in Worlds /\ main \in Seq(Messages)
      /\ m \in Messages /\ main' \in Seq(Messages)
  BY <1>1 DEF CardInv, CardTypes, World, Worlds
<1>3. m.kind \in {"show", "hide", "songShow", "songHide"} /\ later \in BOOLEAN
  BY <1>2 DEF Messages
<1>4. /\ s \in Services /\ s.alive /\ ~s.stopping
      /\ s.song = svc.song /\ s.metronome = svc.metronome /\ s.posted = svc.posted
      /\ s.metronome => s = svc
  BY <1>1, <1>2, TheService
<1>5. /\ s.song \in BOOLEAN /\ s.metronome \in BOOLEAN
      /\ s.posted = IF s.song THEN "song" ELSE IF s.metronome THEN "metronome" ELSE "none"
      /\ s.metronome => s.playback # "stopped"
  BY <1>2, <1>4 DEF ServiceIsWhole, Services
<1> DEFINE heard == Following =>
             /\ Says(main', Cards) = {} => ServiceTells(shown)'
             /\ Heard(shown, main)'
             /\ Says(main', SongCards) = {} => svc'.song = songShown
<1>6. /\ Says(main, Cards) = IF Says(main', Cards) # {} THEN Says(main', Cards)
                             ELSE IF m.kind \in Cards THEN {m} ELSE {}
      /\ Says(main, SongCards) = IF Says(main', SongCards) # {} THEN Says(main', SongCards)
                                 ELSE IF m.kind \in SongCards THEN {m} ELSE {}
  BY <1>1, <1>2, SaysRest
<1>7. /\ \E i \in DOMAIN main : main[i] = m
      /\ \A i \in DOMAIN main' : \E j \in DOMAIN main : main'[i] = main[j]
  <2>1. /\ Len(main) \in Nat \ {0} /\ DOMAIN main = 1..Len(main)
        /\ DOMAIN main' = 1..(Len(main) - 1) /\ m = main[1]
        /\ \A i \in DOMAIN main' : main'[i] = main[i + 1]
    BY <1>1, <1>2
  <2> HIDE DEF m
  <2>2. \A i \in DOMAIN main' : i + 1 \in DOMAIN main
    BY <2>1
  <2> QED BY <2>1, <2>2
<1> HIDE DEF m, s, later
<1>8. ASSUME Following
      PROVE  /\ events = <<>> /\ Heard(shown, main) /\ ShownIsApps
             /\ Says(events, Metro) = {} /\ Says(events, Song) = {}
             /\ eng.ramp = app.ramp /\ (~app.ramp => eng.bpm = app.bpm)
             /\ shown # NoCard => shown.ramp = app.ramp /\ shown.bpm = app.bpm
  <2>1. events = <<>> /\ Heard(shown, main) /\ ShownIsApps
    BY <1>1, <1>8 DEF Following
  <2>2. Says(events, Metro) = {} /\ Says(events, Song) = {}
    BY <2>1, Quiet
  <2> QED BY <1>8, <2>1, <2>2 DEF Following, EngineTold, ShownIsApps, cardOf
<1>9. ASSUME Following, m.kind # "hide" /\ svc.metronome => svc'.metronome
      PROVE  Heard(shown, main)'
  <2>1. \A k \in Says(main', Cards) :
          IF k.kind = "show" THEN shown # NoCard /\ k.card = shown ELSE shown = NoCard
    BY <1>6, <1>8, <1>9 DEF Heard
  <2>2. ASSUME shown # NoCard, ~shown.playing
        PROVE  svc'.metronome /\ \A i \in DOMAIN main' : main'[i].kind # "hide"
    <3>1. svc.metronome /\ \A i \in DOMAIN main : main[i].kind # "hide"
      BY <1>8, <1>9, <2>2 DEF Heard
    <3>2. m.kind # "hide" /\ \A i \in DOMAIN main' : main'[i].kind # "hide"
      BY <1>7, <3>1
    <3> QED BY <1>9, <3>1, <3>2
  <2> QED BY <1>1, <2>1, <2>2 DEF Heard
<1>10. shown \in PlayCards \cup {NoCard} /\ svc.metronome \in BOOLEAN
  BY <1>2 DEF CardTypes, World, Worlds, Services
<1>11. svc' = routed(s, m, later) /\ s \in Services /\ m \in Messages /\ later \in BOOLEAN
  BY <1>1, <1>2, <1>3, <1>4
<1>12. /\ svc' \in Services
       /\ ServiceIsWhole'
       /\ heard
  <2>1. CASE m.kind = "show"
    <3>1. /\ svc' \in Services /\ svc'.metronome /\ svc'.song = s.song
          /\ svc'.alive = s.alive /\ svc'.stopping = s.stopping
          /\ svc'.posted = IF s.song THEN s.posted ELSE "metronome"
          /\ svc'.playback = IF m.card.playing THEN "playing" ELSE "paused"
          /\ svc'.bpm = m.card.bpm /\ svc'.ramp = m.card.ramp
          /\ svc'.practice = [played |-> m.card.played,
                              since |-> IF m.card.playing THEN m.card.since ELSE None]
      BY <1>11, <2>1, RoutedShow
    <3>2. ServiceIsWhole'
      BY <1>4, <1>5, <3>1 DEF ServiceIsWhole, Services
    <3>3. ASSUME Following, Says(main', Cards) = {} PROVE ServiceTells(shown)'
      <4>1. m \in Says(main, Cards)
        BY <1>6, <2>1, <3>3 DEF Cards
      <4>2. shown # NoCard /\ m.card = shown
        BY <1>8, <2>1, <3>3, <4>1 DEF Heard
      <4>3. shown.playing \in BOOLEAN /\ (svc'.playback = "playing") = shown.playing
        BY <1>10, <3>1, <4>2 DEF PlayCards
      <4>4. svc'.metronome = (shown # NoCard)
        BY <3>1, <4>2 DEF Services
      <4> QED BY <1>1, <3>1, <4>2, <4>3, <4>4 DEF ServiceTells
    <3>4. Following => Heard(shown, main)'
      BY <1>9, <3>1
    <3>5. ASSUME Following, Says(main', SongCards) = {} PROVE svc'.song = songShown
      <4>1. Says(main, SongCards) = {}
        BY <1>6, <2>1, <3>5 DEF SongCards
      <4> QED BY <1>4, <1>8, <3>1, <3>5, <4>1 DEF Following, SongHeard
    <3> QED BY <3>1, <3>2, <3>3, <3>4, <3>5
  <2>2. CASE m.kind = "hide"
    <3>1. /\ svc' \in Services /\ ~svc'.metronome /\ svc'.song = s.song /\ svc'.alive = s.alive
          /\ svc'.posted = IF s.song THEN s.posted ELSE "none"
          /\ svc'.stopping = IF s.song THEN s.stopping ELSE ~later
      BY <1>11, <2>2, RoutedHide
    <3>2. ServiceIsWhole'
      BY <1>4, <1>5, <3>1 DEF ServiceIsWhole, Services
    <3>3. ASSUME Following, Says(main', Cards) = {} PROVE ServiceTells(shown)'
      <4>1. m \in Says(main, Cards)
        BY <1>6, <2>2, <3>3 DEF Cards
      <4>2. shown = NoCard
        BY <1>8, <2>2, <3>3, <4>1 DEF Heard
      <4> QED BY <1>1, <3>1, <4>2 DEF ServiceTells, Services
    <3>4. Following => Heard(shown, main)'
      BY <1>9, <2>2
    <3>5. ASSUME Following, Says(main', SongCards) = {} PROVE svc'.song = songShown
      <4>1. Says(main, SongCards) = {}
        BY <1>6, <2>2, <3>5 DEF SongCards
      <4> QED BY <1>4, <1>8, <3>1, <3>5, <4>1 DEF Following, SongHeard
    <3> QED BY <3>1, <3>2, <3>3, <3>4, <3>5
  <2>3. CASE m.kind = "songShow"
    <3>1. /\ svc' \in Services /\ svc'.song /\ svc'.posted = "song"
          /\ svc'.metronome = s.metronome
          /\ svc'.alive = s.alive /\ svc'.stopping = s.stopping
          /\ svc'.playback = s.playback /\ svc'.bpm = s.bpm /\ svc'.ramp = s.ramp
          /\ svc'.practice = s.practice
      BY <1>11, <2>3, RoutedSongShow
    <3>2. ServiceIsWhole'
      BY <1>4, <1>5, <3>1 DEF ServiceIsWhole
    <3>3. ASSUME Following, Says(main', Cards) = {} PROVE ServiceTells(shown)'
      <4>1. ServiceTells(shown)
        BY <1>6, <1>8, <2>3, <3>3 DEF Cards, Following
      <4> QED BY <1>1, <1>4, <1>10, <3>1, <4>1, ServiceStays DEF ServiceTells
    <3>4. Following => Heard(shown, main)'
      BY <1>4, <1>9, <1>10, <2>3, <3>1
    <3>5. ASSUME Following, Says(main', SongCards) = {} PROVE svc'.song = songShown
      <4>1. m \in Says(main, SongCards) /\ songShown \in BOOLEAN
        BY <1>2, <1>6, <2>3, <3>5 DEF SongCards, CardTypes
      <4>2. songShown = TRUE
        BY <2>3, <3>5, <4>1 DEF Following, SongHeard
      <4> QED BY <3>1, <4>2 DEF Services
    <3> QED BY <3>1, <3>2, <3>3, <3>4, <3>5
  <2>4. CASE m.kind = "songHide"
    <3>1. /\ svc' \in Services /\ ~svc'.song /\ svc'.metronome = s.metronome
          /\ svc'.alive = s.alive
          /\ svc'.posted = IF ~s.metronome THEN "none"
                           ELSE IF s.song THEN "metronome" ELSE s.posted
          /\ svc'.stopping = IF s.metronome THEN s.stopping ELSE ~later
          /\ svc'.playback = s.playback /\ svc'.bpm \in {eng.bpm, s.bpm} /\ svc'.ramp = s.ramp
          /\ svc'.practice = s.practice
      BY <1>2, <1>11, <2>4, RoutedSongHide
    <3>2. ServiceIsWhole'
      BY <1>4, <1>5, <3>1 DEF ServiceIsWhole
    <3>3. ASSUME Following, Says(main', Cards) = {} PROVE ServiceTells(shown)'
      <4>1. ServiceTells(shown)
        BY <1>6, <1>8, <2>4, <3>3 DEF Cards, Following
      <4>2. svc'.metronome => svc.metronome /\ s = svc
        BY <1>4, <3>1
      <4>3. svc'.metronome /\ ~svc.ramp => svc'.bpm = svc.bpm
        BY <1>8, <3>1, <3>3, <4>1, <4>2 DEF ServiceTells
      <4> QED BY <1>1, <1>4, <1>10, <3>1, <4>1, <4>2, <4>3, ServiceStays DEF ServiceTells
    <3>4. Following => Heard(shown, main)'
      BY <1>4, <1>9, <1>10, <2>4, <3>1
    <3>5. ASSUME Following, Says(main', SongCards) = {} PROVE svc'.song = songShown
      <4>1. m \in Says(main, SongCards) /\ songShown \in BOOLEAN
        BY <1>2, <1>6, <2>4, <3>5 DEF SongCards, CardTypes
      <4>2. songShown = FALSE
        BY <2>4, <3>5, <4>1 DEF Following, SongHeard
      <4> QED BY <3>1, <4>2 DEF Services
    <3> QED BY <3>1, <3>2, <3>3, <3>4, <3>5
  <2> QED BY <1>3, <2>1, <2>2, <2>3, <2>4
<1>13. CardTypes'
  <2>1. World' \in Worlds
    BY <1>1, <1>2 DEF World, Worlds
  <2> QED BY <1>1, <1>2, <1>12, <2>1 DEF CardTypes
<1>14. ASSUME Following PROVE Following'
  <2>1. \A k \in Says(main', SongCards) : (k.kind = "songShow") = songShown
    BY <1>6, <1>14 DEF Following, SongHeard
  <2>2. SongHeard'
    BY <1>1, <1>8, <1>12, <1>14, <2>1 DEF SongHeard
  <2>3. EngineTold'
    BY <1>1, <1>8, <1>14 DEF Following, EngineTold
  <2>4. ShownIsApps' /\ InOrder(events')
    BY <1>1, <1>8, <1>14 DEF Following, ShownIsApps, cardOf
  <2> QED BY <1>1, <1>8, <1>12, <1>14, <2>2, <2>3, <2>4 DEF Following
<1> QED BY <1>1, <1>12, <1>13, <1>14 DEF CardInv

LEMMA DestroyKeeps == CardInv /\ onDestroy => CardInv'
<1> SUFFICES ASSUME CardInv, onDestroy PROVE CardInv'
  OBVIOUS
<1>1. /\ svc.stopping /\ svc' = Dead /\ startRequested' = FALSE
      /\ UNCHANGED <<time, app, eng, shown, songShown, main, events, bothActed, unsent>>
  BY DEF onDestroy
<1>2. CardTypes /\ ~svc.song /\ ~svc.metronome /\ World \in Worlds /\ svc \in Services
  BY <1>1 DEF CardInv, ServiceIsWhole, CardTypes
<1>3. /\ Dead \in Services /\ ~Dead.alive /\ ~Dead.song /\ ~Dead.metronome /\ ~Dead.stopping
      /\ Dead.posted = "none"
  BY NewService
<1>4. svc'.song = svc.song /\ svc'.metronome = svc.metronome /\ ~svc'.metronome
  BY <1>1, <1>2, <1>3 DEF Services
<1>5. CardTypes'
  <2>1. World' \in Worlds
    BY <1>1, <1>2 DEF World, Worlds
  <2> QED BY <1>1, <1>2, <1>3, <2>1 DEF CardTypes
<1>6. ServiceIsWhole'
  BY <1>1, <1>3 DEF ServiceIsWhole
<1>7. ASSUME Following PROVE Following'
  <2>1. ShownIsApps' /\ InOrder(events')
    BY <1>1, <1>7 DEF Following, ShownIsApps, cardOf
  <2>2. Heard(shown, main) => Heard(shown, main)'
    BY <1>1, <1>4 DEF Heard
  <2>3. ServiceTells(shown) => ServiceTells(shown)'
    BY <1>1, <1>2, <1>4 DEF ServiceTells
  <2>4. SongHeard'
    BY <1>1, <1>4, <1>7 DEF Following, SongHeard
  <2>5. EngineTold'
    BY <1>1, <1>4, <1>7 DEF Following, EngineTold
  <2> QED BY <1>1, <1>7, <2>1, <2>2, <2>3, <2>4, <2>5 DEF Following
<1> QED BY <1>1, <1>5, <1>6, <1>7 DEF CardInv

-----------------------------------------------------------------------------
(* The card is pressed. *)

\* With nothing on its way to the service, what it holds is what the engine does.
LEMMA InStep ==
  ASSUME CardTypes, ServiceIsWhole, Following, main = <<>>, svc.metronome
  PROVE  /\ shown # NoCard
         /\ eng.running = (svc.playback = "playing")
         /\ svc.ramp = eng.ramp /\ (~svc.ramp => svc.bpm = eng.bpm) /\ (svc.ramp => app.ramp)
         /\ \A i \in DOMAIN events : events[i].kind = "metronome" =>
              events[i].playback # "stopped" /\ (svc.ramp => events[i].ramp)
<1>1. Says(main, Cards) = {} /\ events \in Seq(Events)
  BY Quiet DEF CardTypes
<1>2. CASE Says(events, Metro) = {}
  <2>1. ServiceTells(shown) /\ shown # NoCard
    BY <1>1, <1>2 DEF Following, ServiceTells
  <2>2. shown.playing = app.running /\ shown.ramp = app.ramp /\ shown.bpm = app.bpm
    BY <2>1 DEF Following, ShownIsApps, cardOf
  <2>3. eng.running = app.running /\ eng.ramp = app.ramp /\ (~app.ramp => eng.bpm = app.bpm)
    BY <1>2 DEF Following, EngineTold
  <2>4. \A i \in DOMAIN events : events[i].kind # "metronome"
    BY <1>1, <1>2, SaysNone DEF Metro
  <2> QED BY <2>1, <2>2, <2>3, <2>4 DEF ServiceTells
<1>3. CASE Says(events, Metro) # {}
  <2>1. PICK e \in Says(events, Metro) : TRUE
    BY <1>3
  <2>2. /\ shown # NoCard /\ e.playback = svc.playback /\ e.playback # "stopped"
        /\ e.ramp = svc.ramp /\ (~e.ramp => e.bpm = svc.bpm)
        /\ eng.running = (e.playback = "playing")
        /\ e.ramp = eng.ramp /\ (~e.ramp => e.bpm = eng.bpm) /\ (e.ramp => app.ramp)
    BY <1>3, <2>1 DEF Following, EngineTold, ServiceIsWhole
  <2>3. PICK n \in DOMAIN events :
          /\ e = events[n] /\ e.kind = "metronome"
          /\ \A j \in DOMAIN events : events[j].kind = "metronome" => j <= n
    BY DEF Says, Metro
  <2>4. ASSUME NEW i \in DOMAIN events, events[i].kind = "metronome"
        PROVE  events[i].playback # "stopped" /\ (svc.ramp => events[i].ramp)
    <3>1. DOMAIN events \subseteq Int /\ i <= n
      BY <1>1, <2>3, <2>4
    <3>2. CASE i = n
      BY <2>2, <2>3, <3>2
    <3>3. CASE n > i
      BY <2>2, <2>3, <2>4, <3>3 DEF Following, InOrder
    <3> QED BY <3>1, <3>2, <3>3
  <2> QED BY <2>2, <2>4
<1> QED BY <1>2, <1>3

LEMMA OrderGrows ==
  ASSUME NEW q \in Seq(Events), NEW e \in Events, InOrder(q),
         e.kind = "metronome" =>
           /\ (e.practice.since # None) = (e.playback = "playing")
           /\ \A i \in DOMAIN q : q[i].kind = "metronome" =>
                q[i].playback # "stopped" /\ (e.ramp => q[i].ramp)
  PROVE  InOrder(Append(q, e))
<1> DEFINE r == Append(q, e)
<1>1. /\ Len(q) \in Nat /\ DOMAIN q = 1..Len(q) /\ DOMAIN r = 1..(Len(q) + 1)
      /\ r[Len(q) + 1] = e /\ \A i \in DOMAIN q : r[i] = q[i]
  OBVIOUS
<1> HIDE DEF r
<1>2. SUFFICES ASSUME NEW i \in DOMAIN r, r[i].kind = "metronome"
               PROVE  /\ (r[i].practice.since # None) = (r[i].playback = "playing")
                      /\ \A j \in DOMAIN r : j > i /\ r[j].kind = "metronome" =>
                           r[i].playback # "stopped" /\ (r[j].ramp => r[i].ramp)
  BY DEF InOrder, r
<1>3. CASE i = Len(q) + 1
  BY <1>1, <1>2, <1>3
<1>4. CASE i \in DOMAIN q
  <2>1. (r[i].practice.since # None) = (r[i].playback = "playing")
    BY <1>1, <1>2, <1>4 DEF InOrder
  <2>2. ASSUME NEW j \in DOMAIN r, j > i, r[j].kind = "metronome"
        PROVE  r[i].playback # "stopped" /\ (r[j].ramp => r[i].ramp)
    <3>1. CASE j = Len(q) + 1
      BY <1>1, <1>2, <1>4, <2>2, <3>1
    <3>2. CASE j \in DOMAIN q
      BY <1>1, <1>2, <1>4, <2>2, <3>2 DEF InOrder
    <3> QED BY <1>1, <3>1, <3>2
  <2> QED BY <2>1, <2>2
<1> QED BY <1>1, <1>3, <1>4

\* The event of a press tells what the service and the engine now do.
LEMMA ServiceSpeaks ==
  ASSUME Following, main = <<>>, UNCHANGED <<app, shown, songShown, main>>, shown # NoCard,
         NEW q \in Seq(Events), InOrder(q), Says(q, Song) = {} => svc'.song = songShown,
         Says(q, Song) # {} => ~svc'.song,
         NEW e \in Tellings, events' = Append(q, e),
         (e.practice.since # None) = (e.playback = "playing"),
         \A i \in DOMAIN q : q[i].kind = "metronome" =>
           q[i].playback # "stopped" /\ (e.ramp => q[i].ramp),
         svc'.metronome = (e.playback # "stopped"),
         svc'.metronome => /\ e.playback = svc'.playback /\ e.ramp = svc'.ramp
                           /\ (~e.ramp => e.bpm = svc'.bpm) /\ e.practice = svc'.practice,
         eng'.running = (e.playback = "playing"),
         e.ramp = eng'.ramp, ~e.ramp => e.bpm = eng'.bpm, e.ramp => app.ramp
  PROVE  Following'
<1>1. e.kind = "metronome" /\ e \in Events
  BY DEF Tellings, Events, Metro
<1>2. Says(events', Metro) = {e} /\ Says(events', Song) = Says(q, Song)
  BY <1>1, SaysAppended DEF Metro, Song
<1>3. events' # <<>> /\ InOrder(events')
  BY <1>1, OrderGrows
<1>4. ShownIsApps'
  BY DEF Following, ShownIsApps, cardOf
<1>5. SongHeard'
  BY <1>2, Quiet DEF SongHeard
<1>6. EngineTold'
  BY <1>2 DEF EngineTold
<1> QED BY <1>2, <1>3, <1>4, <1>5, <1>6 DEF Following

LEMMA PressedSets ==
  ASSUME CardTypes, OnCard, svc' \in Services, eng' \in Engines, events' \in Seq(Events)
  PROVE  /\ CardTypes' /\ UNCHANGED <<app, shown, songShown, main>>
         /\ ~bothActed' => ~bothActed /\ main = <<>>
         /\ ~unsent' => ~unsent
<1>1. UNCHANGED <<time, app, shown, songShown, main, startRequested, unsent>>
      /\ bothActed' = (bothActed \/ main # <<>>)
  BY DEF OnCard
<1>2. World' \in Worlds
  BY <1>1 DEF CardTypes, World, Worlds
<1> QED BY <1>1, <1>2 DEF CardTypes

LEMMA EventType ==
  ASSUME NEW t \in Services
  PROVE  LET e == eventOf(t)
         IN  /\ e \in Tellings /\ e.kind = "metronome" /\ e.playback = t.playback
             /\ e.bpm = t.bpm /\ e.ramp = t.ramp /\ e.practice = t.practice
BY DEF eventOf, Tellings, Services, Metro

\* handle, whatever state the commands lead to.
LEMMA HandledKeeps ==
  ASSUME CardInv, OnCard, svc.posted = "metronome", NEW s \in Services, handled(s),
         s.song = svc.song, s.metronome = svc.metronome, s.alive = svc.alive,
         s.stopping = svc.stopping, s.posted = svc.posted, eng' \in Engines,
         Following /\ main = <<>> =>
           /\ eng'.running = (s.playback = "playing") /\ s.ramp = eng'.ramp
           /\ (~s.ramp => s.bpm = eng'.bpm) /\ (s.ramp => svc.ramp)
  PROVE  CardInv'
<1> DEFINE practice == Stretch(s.practice, s.playback = "playing")
           t == [s EXCEPT !.practice = practice]
<1>1. /\ CardTypes /\ ServiceIsWhole /\ events \in Seq(Events) /\ svc.metronome
      /\ ~svc.song /\ ~svc.stopping /\ svc.alive /\ svc \in Services
  <2>1. CardTypes /\ ServiceIsWhole /\ events \in Seq(Events) /\ svc \in Services
    BY DEF CardInv, CardTypes
  <2>2. svc.song \in BOOLEAN /\ svc.metronome \in BOOLEAN /\ svc.stopping \in BOOLEAN
        /\ svc.alive \in BOOLEAN
    BY <2>1 DEF Services
  <2>3. svc.metronome /\ ~svc.song
    BY <2>1, <2>2 DEF ServiceIsWhole
  <2> QED BY <2>1, <2>2, <2>3, NewService DEF ServiceIsWhole
<1>2. practice \in Clocks /\ (practice.since # None) = (s.playback = "playing")
  BY <1>1, StretchKeeps DEF Services
<1>3. /\ events' = Append(events, eventOf(t))
      /\ svc' = IF t.playback = "stopped"
                THEN finish([t EXCEPT !.metronome = FALSE], main # <<>>) ELSE t
  BY DEF handled
<1> HIDE DEF practice
<1>4. /\ t \in Services /\ t.playback = s.playback /\ t.ramp = s.ramp /\ t.bpm = s.bpm
      /\ t.practice = practice /\ t.song = s.song /\ t.metronome = s.metronome
      /\ t.alive = s.alive /\ t.stopping = s.stopping /\ t.posted = s.posted
  BY <1>2 DEF Services
<1> DEFINE e == eventOf(t)
<1> HIDE DEF t
<1>5. /\ e \in Tellings /\ e.kind = "metronome" /\ e.playback = s.playback
      /\ e.bpm = s.bpm /\ e.ramp = s.ramp /\ e.practice = practice
  BY <1>4, EventType
<1> HIDE DEF e
<1>6. e \in Events /\ events' = Append(events, e) /\ events' \in Seq(Events)
  BY <1>1, <1>3, <1>5, AppendProperties DEF Events, e
<1>7. CASE t.playback = "stopped"
  <2> DEFINE gone == [t EXCEPT !.metronome = FALSE]
             later == main # <<>>
  <2>1. gone \in Services /\ gone.song = t.song /\ ~gone.metronome /\ gone.alive = t.alive
    BY <1>4 DEF Services
  <2>2. svc' = finish(gone, later) /\ later \in BOOLEAN
    BY <1>3, <1>7
  <2> HIDE DEF gone, later
  <2>3. /\ svc' \in Services /\ svc'.posted = "none" /\ svc'.alive = gone.alive
        /\ svc'.song = gone.song /\ svc'.metronome = gone.metronome
    BY <2>1, <2>2, FinishType
  <2>4. ServiceIsWhole'
    BY <1>1, <1>4, <2>1, <2>3 DEF ServiceIsWhole
  <2>5. CardTypes' /\ UNCHANGED <<app, shown, songShown, main>>
        /\ (~bothActed' => ~bothActed /\ main = <<>>) /\ (~unsent' => ~unsent)
    BY <1>1, <1>6, <2>3, PressedSets
  <2>6. ASSUME Following, main = <<>> PROVE Following'
    <3>1. /\ shown # NoCard /\ (svc.ramp => app.ramp)
          /\ \A i \in DOMAIN events : events[i].kind = "metronome" =>
               events[i].playback # "stopped" /\ (svc.ramp => events[i].ramp)
      BY <1>1, <2>6, InStep
    <3>2. svc'.metronome = (e.playback # "stopped")
      BY <1>4, <1>5, <1>7, <2>1, <2>3 DEF Services
    <3>3. svc'.song = svc.song /\ svc'.song = FALSE
      BY <1>1, <1>4, <2>1, <2>3 DEF Services
    <3>4. /\ InOrder(events) /\ (Says(events, Song) = {} => svc'.song = songShown)
          /\ (Says(events, Song) # {} => ~svc'.song)
      BY <2>6, <3>3, Quiet DEF Following, SongHeard
    <3>5. \A i \in DOMAIN events : events[i].kind = "metronome" =>
            events[i].playback # "stopped" /\ (e.ramp => events[i].ramp)
      BY <1>5, <2>6, <3>1
    <3>6. ~svc'.metronome /\ e.ramp = eng'.ramp /\ (~e.ramp => e.bpm = eng'.bpm)
          /\ (e.ramp => app.ramp) /\ eng'.running = (e.playback = "playing")
          /\ (e.practice.since # None) = (e.playback = "playing")
      BY <1>2, <1>5, <2>1, <2>3, <2>6, <3>1
    <3> QED BY <1>1, <1>5, <1>6, <2>5, <2>6, <3>1, <3>2, <3>4, <3>5, <3>6, ServiceSpeaks
  <2> QED BY <2>4, <2>5, <2>6 DEF CardInv
<1>8. CASE t.playback # "stopped"
  <2>1. svc' = t
    BY <1>3, <1>8
  <2>2. ServiceIsWhole'
    BY <1>1, <1>4, <1>8, <2>1 DEF ServiceIsWhole
  <2>3. CardTypes' /\ UNCHANGED <<app, shown, songShown, main>>
        /\ (~bothActed' => ~bothActed /\ main = <<>>) /\ (~unsent' => ~unsent)
    BY <1>1, <1>4, <1>6, <2>1, PressedSets
  <2>4. ASSUME Following, main = <<>> PROVE Following'
    <3>1. /\ shown # NoCard /\ (svc.ramp => app.ramp)
          /\ \A i \in DOMAIN events : events[i].kind = "metronome" =>
               events[i].playback # "stopped" /\ (svc.ramp => events[i].ramp)
      BY <1>1, <2>4, InStep
    <3>2. svc'.metronome = (e.playback # "stopped")
      BY <1>1, <1>4, <1>5, <1>8, <2>1 DEF Services
    <3>3. /\ InOrder(events) /\ (Says(events, Song) = {} => svc'.song = songShown)
          /\ (Says(events, Song) # {} => ~svc'.song)
      BY <1>1, <1>4, <2>1, <2>4, Quiet DEF Following, SongHeard
    <3>4. \A i \in DOMAIN events : events[i].kind = "metronome" =>
            events[i].playback # "stopped" /\ (e.ramp => events[i].ramp)
      BY <1>5, <2>4, <3>1
    <3>5. /\ e.ramp = eng'.ramp /\ (~e.ramp => e.bpm = eng'.bpm)
          /\ (e.ramp => app.ramp) /\ eng'.running = (e.playback = "playing")
          /\ (e.practice.since # None) = (e.playback = "playing")
      BY <1>2, <1>5, <2>4, <3>1
    <3>6. /\ e.playback = svc'.playback /\ e.ramp = svc'.ramp
          /\ (~e.ramp => e.bpm = svc'.bpm) /\ e.practice = svc'.practice
      BY <1>4, <1>5, <2>1
    <3> QED BY <1>1, <1>5, <1>6, <2>3, <2>4, <3>1, <3>2, <3>3, <3>4, <3>5, <3>6, ServiceSpeaks
  <2> QED BY <2>2, <2>3, <2>4 DEF CardInv
<1> QED BY <1>7, <1>8

LEMMA ControlKeeps ==
  ASSUME CardInv, NEW next \in {"playing", "paused", "stopped"}, MetronomeControl(next)
  PROVE  CardInv'
<1> DEFINE w == withEngineTempo(svc)
           s == [w EXCEPT !.playback = next]
           running == next = "playing"
<1>1. /\ OnCard /\ svc.posted = "metronome" /\ handled(s)
      /\ eng' = [eng EXCEPT !.running = running]
  BY DEF MetronomeControl
<1>2. CardTypes /\ ServiceIsWhole /\ svc \in Services /\ eng \in Engines /\ running \in BOOLEAN
  BY DEF CardInv, CardTypes
<1>3. /\ w \in Services /\ w.posted = svc.posted /\ w.stopping = svc.stopping
      /\ w.alive = svc.alive /\ w.song = svc.song /\ w.metronome = svc.metronome
      /\ w.ramp = svc.ramp /\ w.bpm = IF svc.playback = "playing" THEN eng.bpm ELSE svc.bpm
  BY <1>2, TempoType
<1> HIDE DEF w
<1>4. /\ s \in Services /\ s.posted = w.posted /\ s.stopping = w.stopping
      /\ s.alive = w.alive /\ s.song = w.song /\ s.metronome = w.metronome
      /\ s.ramp = w.ramp /\ s.bpm = w.bpm /\ s.playback = next
  BY <1>3 DEF Services, Playbacks
<1> HIDE DEF s
<1>5. eng' \in Engines /\ eng'.running = running /\ eng'.ramp = eng.ramp /\ eng'.bpm = eng.bpm
  BY <1>1, <1>2 DEF Engines
<1>6. svc.metronome
  BY <1>1, <1>2 DEF ServiceIsWhole, Services
<1>7. Following /\ main = <<>> =>
        /\ eng'.running = (s.playback = "playing") /\ s.ramp = eng'.ramp
        /\ (~s.ramp => s.bpm = eng'.bpm) /\ (s.ramp => svc.ramp)
  BY <1>2, <1>3, <1>4, <1>5, <1>6, InStep
<1> QED BY <1>1, <1>3, <1>4, <1>5, <1>7, HandledKeeps

LEMMA StepTempoKeeps ==
  ASSUME CardInv, NEW b \in Tempos, stepTempo(b)
  PROVE  CardInv'
<1> DEFINE s == [svc EXCEPT !.bpm = b, !.ramp = FALSE]
<1>1. /\ OnCard /\ svc.posted = "metronome" /\ handled(s)
      /\ eng' = [eng EXCEPT !.bpm = b, !.ramp = FALSE]
  BY DEF stepTempo
<1>2. CardTypes /\ ServiceIsWhole /\ svc \in Services /\ eng \in Engines /\ b \in Nat
  BY CardAssumption DEF CardInv, CardTypes
<1>3. /\ s \in Services /\ s.posted = svc.posted /\ s.stopping = svc.stopping
      /\ s.alive = svc.alive /\ s.song = svc.song /\ s.metronome = svc.metronome
      /\ s.ramp = FALSE /\ s.bpm = b /\ s.playback = svc.playback
  BY <1>2 DEF Services
<1> HIDE DEF s
<1>4. eng' \in Engines /\ eng'.running = eng.running /\ eng'.ramp = FALSE /\ eng'.bpm = b
  BY <1>1, <1>2 DEF Engines
<1>5. svc.metronome
  BY <1>1, <1>2 DEF ServiceIsWhole, Services
<1>6. Following /\ main = <<>> =>
        /\ eng'.running = (s.playback = "playing") /\ s.ramp = eng'.ramp
        /\ (~s.ramp => s.bpm = eng'.bpm) /\ (s.ramp => svc.ramp)
  BY <1>2, <1>3, <1>4, <1>5, InStep
<1> QED BY <1>1, <1>3, <1>4, <1>6, HandledKeeps

\* A service without a metronome leaves the engine silent.
LEMMA EngineIsSilent ==
  ASSUME CardTypes, Following, main = <<>>, ~svc.metronome
  PROVE  eng.running = FALSE
<1>1. Says(main, Cards) = {} /\ app.running \in BOOLEAN /\ svc.metronome = FALSE
  BY Quiet DEF CardTypes, Apps, Services
<1>2. CASE Says(events, Metro) = {}
  <2>1. shown = NoCard
    BY <1>1, <1>2 DEF Following, ServiceTells
  <2> QED BY <1>1, <1>2, <2>1 DEF Following, ShownIsApps, EngineTold
<1>3. CASE Says(events, Metro) # {}
  <2>1. PICK e \in Says(events, Metro) : TRUE
    BY <1>3
  <2>2. e.playback = "stopped" /\ eng.running = (e.playback = "playing")
    BY <1>1, <1>3, <2>1 DEF Following, EngineTold
  <2> QED BY <2>2
<1> QED BY <1>2, <1>3

\* The song player is told; what is held of the metronome stays.
LEMMA SongSpeaks ==
  ASSUME CardTypes, ServiceIsWhole, Following, main = <<>>,
         UNCHANGED <<app, shown, songShown, main>>,
         NEW e \in [kind : Song], events' = Append(events, e), ~svc'.song,
         svc'.metronome = svc.metronome,
         svc'.metronome => /\ svc'.playback = svc.playback /\ svc'.ramp = svc.ramp
                           /\ ~svc.ramp => svc'.bpm = svc.bpm
                           /\ svc'.practice = svc.practice,
         eng'.running = eng.running, eng'.ramp = eng.ramp, eng'.bpm = eng.bpm
  PROVE  Following'
<1>1. e.kind = "song" /\ e \in Events /\ events \in Seq(Events)
  BY DEF Events, Song, CardTypes
<1>2. Says(events', Metro) = Says(events, Metro) /\ Says(events', Song) = {e}
  BY <1>1, SaysAppended DEF Metro, Song
<1>3. events' # <<>> /\ InOrder(events')
  BY <1>1, OrderGrows DEF Following
<1>4. ShownIsApps'
  BY DEF Following, ShownIsApps, cardOf
<1>5. SongHeard'
  BY <1>2, Quiet DEF SongHeard
<1>6. EngineTold'
  <2>1. CASE Says(events, Metro) = {}
    BY <1>2, <2>1 DEF Following, EngineTold
  <2>2. CASE Says(events, Metro) # {}
    <3>1. ASSUME NEW f \in Says(events, Metro)
          PROVE  /\ shown # NoCard
                 /\ svc'.metronome = (f.playback # "stopped")
                 /\ svc'.metronome => /\ f.playback = svc'.playback /\ f.ramp = svc'.ramp
                                      /\ (~f.ramp => f.bpm = svc'.bpm)
                                      /\ f.practice = svc'.practice
                 /\ eng'.running = (f.playback = "playing")
                 /\ f.ramp = eng'.ramp /\ (~f.ramp => f.bpm = eng'.bpm)
                 /\ (f.ramp => app.ramp)
      BY <2>2 DEF Following, EngineTold
    <3>2. shown' = shown /\ app' = app /\ Says(events', Metro) # {}
      BY <1>2, <2>2
    <3> QED BY <1>2, <3>1, <3>2 DEF EngineTold
  <2> QED BY <2>1, <2>2
<1>7. Says(main, Cards) = {}
  BY Quiet
<1>8. ASSUME Says(events, Metro) = {} PROVE ServiceTells(shown)'
  <2>1. ServiceTells(shown) /\ shown \in PlayCards \cup {NoCard}
    BY <1>7, <1>8 DEF Following, CardTypes, World, Worlds
  <2> QED BY <2>1, ServiceStays DEF ServiceTells
<1> QED BY <1>2, <1>3, <1>4, <1>5, <1>6, <1>8 DEF Following

LEMMA SongStoppedKeeps == CardInv /\ songStopped => CardInv'
<1> SUFFICES ASSUME CardInv, songStopped PROVE CardInv'
  OBVIOUS
<1> DEFINE t == songEnded(svc)
           later == main # <<>>
           e == [kind |-> "song"]
<1>1. /\ OnCard /\ svc.posted = "song" /\ events' = Append(events, e)
      /\ svc' = IF svc.metronome THEN t ELSE finish(t, later)
      /\ eng' = eng
  BY DEF songStopped
<1>2. /\ CardTypes /\ ServiceIsWhole /\ svc \in Services /\ eng \in Engines
      /\ events \in Seq(Events) /\ later \in BOOLEAN
  BY DEF CardInv, CardTypes
<1>3. e \in [kind : Song] /\ e \in Events
  BY DEF Events, Song
<1> HIDE DEF e, later
<1>4. svc.song /\ ~svc.stopping /\ svc.alive
  BY <1>1, <1>2, NewService DEF ServiceIsWhole, Services
<1>5. /\ t \in Services /\ ~t.song /\ t.stopping = svc.stopping
      /\ t.posted = IF svc.metronome THEN "metronome" ELSE svc.posted
      /\ t.alive = svc.alive /\ t.metronome = svc.metronome
      /\ t.playback = svc.playback /\ t.ramp = svc.ramp /\ t.practice = svc.practice
      /\ t.bpm \in {eng.bpm, svc.bpm}
  BY <1>2, SongEndedType
<1> HIDE DEF t
<1>6. /\ svc' \in Services /\ ~svc'.song /\ svc'.alive /\ svc'.metronome = svc.metronome
      /\ svc'.posted = IF svc.metronome THEN "metronome" ELSE "none"
      /\ svc.metronome => svc' = t
      /\ svc'.stopping => ~svc.metronome
  <2>1. CASE svc.metronome
    BY <1>1, <1>4, <1>5, <2>1
  <2>2. CASE ~svc.metronome
    <3>1. svc' = finish(t, later)
      BY <1>1, <2>2
    <3>2. /\ svc' \in Services /\ svc'.posted = "none" /\ svc'.alive = t.alive
          /\ svc'.song = t.song /\ svc'.metronome = t.metronome
      BY <1>2, <1>5, <3>1, FinishType
    <3> QED BY <1>4, <1>5, <2>2, <3>2
  <2> QED BY <2>1, <2>2
<1>7. ServiceIsWhole'
  BY <1>2, <1>5, <1>6 DEF ServiceIsWhole, Services
<1>8. events' \in Seq(Events)
  BY <1>1, <1>2, <1>3, AppendProperties
<1>9. /\ CardTypes' /\ UNCHANGED <<app, shown, songShown, main>>
      /\ (~bothActed' => ~bothActed /\ main = <<>>) /\ (~unsent' => ~unsent)
  BY <1>1, <1>2, <1>6, <1>8, PressedSets
<1>10. ASSUME Following, main = <<>> PROVE Following'
  <2>1. svc'.metronome => /\ svc'.playback = svc.playback /\ svc'.ramp = svc.ramp
                          /\ ~svc.ramp => svc'.bpm = svc.bpm
                          /\ svc'.practice = svc.practice
    <3> SUFFICES ASSUME svc'.metronome
                 PROVE  /\ svc'.playback = svc.playback /\ svc'.ramp = svc.ramp
                        /\ ~svc.ramp => svc'.bpm = svc.bpm
                        /\ svc'.practice = svc.practice
      OBVIOUS
    <3>1. svc.metronome
      BY <1>6
    <3>2. ~svc.ramp => svc.bpm = eng.bpm
      BY <1>2, <1>10, <3>1, InStep
    <3> QED BY <1>5, <1>6, <3>1, <3>2
  <2>2. eng'.running = eng.running /\ eng'.ramp = eng.ramp /\ eng'.bpm = eng.bpm
    BY <1>1
  <2> QED BY <1>1, <1>2, <1>3, <1>6, <1>9, <1>10, <2>1, <2>2, SongSpeaks
<1> QED BY <1>7, <1>9, <1>10 DEF CardInv

LEMMA TaskRemovedKeeps == CardInv /\ onTaskRemoved => CardInv'
<1> SUFFICES ASSUME CardInv, onTaskRemoved PROVE CardInv'
  OBVIOUS
<1> DEFINE w == withEngineTempo(svc)
           practice == Stretch(w.practice, FALSE)
           s == [w EXCEPT !.playback = "stopped", !.practice = practice]
           gone == [(IF svc.metronome THEN s ELSE svc) EXCEPT !.song = FALSE, !.metronome = FALSE]
           later == main # <<>>
           e == [kind |-> "song"]
           f == eventOf(s)
           q == IF svc.song THEN Append(events, e) ELSE events
<1>1. /\ OnCard /\ svc.alive /\ ~svc.stopping
      /\ events' = events \o (IF svc.song THEN <<e>> ELSE <<>>)
                           \o (IF svc.metronome THEN <<f>> ELSE <<>>)
      /\ svc' = finish(gone, later)
      /\ eng' = [eng EXCEPT !.running = FALSE]
  BY DEF onTaskRemoved
<1>2. /\ CardTypes /\ ServiceIsWhole /\ svc \in Services /\ eng \in Engines
      /\ events \in Seq(Events) /\ later \in BOOLEAN
  BY DEF CardInv, CardTypes
<1>3. e \in [kind : Song] /\ e \in Events /\ e.kind = "song"
  BY DEF Events, Song
<1> HIDE DEF e, later
<1>4. /\ w \in Services /\ w.metronome = svc.metronome /\ w.alive = svc.alive
      /\ w.ramp = svc.ramp /\ w.bpm = IF svc.playback = "playing" THEN eng.bpm ELSE svc.bpm
  BY <1>2, TempoType
<1> HIDE DEF w
<1>5. practice \in Clocks /\ practice.since = None
  <2>1. practice \in Clocks /\ (practice.since # None) = FALSE
    BY <1>2, <1>4, StretchKeeps DEF Services
  <2> QED BY <2>1
<1> HIDE DEF practice
<1>6. /\ s \in Services /\ s.playback = "stopped" /\ s.practice = practice
      /\ s.ramp = w.ramp /\ s.bpm = w.bpm /\ s.alive = w.alive
  BY <1>4, <1>5 DEF Services, Playbacks
<1> HIDE DEF s
<1>7. gone \in Services /\ ~gone.song /\ ~gone.metronome /\ gone.alive
  BY <1>1, <1>2, <1>4, <1>6 DEF Services
<1> HIDE DEF gone
<1>8. /\ svc' \in Services /\ svc'.posted = "none" /\ svc'.alive /\ ~svc'.song
      /\ ~svc'.metronome /\ svc'.song = FALSE /\ svc'.metronome = FALSE
  <2>1. /\ svc' \in Services /\ svc'.posted = "none" /\ svc'.alive = gone.alive
        /\ svc'.song = gone.song /\ svc'.metronome = gone.metronome
    BY <1>1, <1>2, <1>7, FinishType
  <2> QED BY <1>7, <2>1 DEF Services
<1>9. /\ f \in Tellings /\ f.kind = "metronome" /\ f.playback = "stopped"
      /\ f.bpm = w.bpm /\ f.ramp = svc.ramp /\ f.practice.since = None
  BY <1>4, <1>5, <1>6, EventType
<1>10. f \in Events
  BY <1>9 DEF Events
<1> HIDE DEF f
<1>11. q \in Seq(Events) /\ events' = IF svc.metronome THEN Append(q, f) ELSE q
  <2>1. q \in Seq(Events) /\ q = events \o (IF svc.song THEN <<e>> ELSE <<>>)
    BY <1>2, <1>3
  <2>2. events' = q \o (IF svc.metronome THEN <<f>> ELSE <<>>)
    BY <1>1, <2>1
  <2> HIDE DEF q
  <2>3. q \o <<f>> = Append(q, f) /\ q \o <<>> = q
    BY <1>10, <2>1
  <2>4. (IF svc.metronome THEN <<f>> ELSE <<>>) \in {<<f>>, <<>>}
    OBVIOUS
  <2> QED BY <2>1, <2>2, <2>3
<1>12. events' \in Seq(Events)
  BY <1>10, <1>11, AppendProperties
<1>13. eng' \in Engines /\ eng'.running = FALSE /\ eng'.ramp = eng.ramp /\ eng'.bpm = eng.bpm
  BY <1>1, <1>2 DEF Engines
<1>14. ServiceIsWhole'
  BY <1>8 DEF ServiceIsWhole
<1>15. /\ CardTypes' /\ UNCHANGED <<app, shown, songShown, main>>
       /\ (~bothActed' => ~bothActed /\ main = <<>>) /\ (~unsent' => ~unsent)
  BY <1>1, <1>2, <1>8, <1>12, <1>13, PressedSets
<1>16. ASSUME Following, main = <<>>, svc.metronome PROVE Following'
  <2>1. /\ shown # NoCard /\ (svc.ramp => app.ramp) /\ svc.ramp = eng.ramp
        /\ (~svc.ramp => svc.bpm = eng.bpm)
        /\ \A i \in DOMAIN events : events[i].kind = "metronome" =>
             events[i].playback # "stopped" /\ (svc.ramp => events[i].ramp)
    BY <1>2, <1>16, InStep
  <2>2. InOrder(q)
    BY <1>2, <1>3, <1>16, OrderGrows DEF Following
  <2>3. \A i \in DOMAIN q : q[i].kind = "metronome" =>
          q[i].playback # "stopped" /\ (f.ramp => q[i].ramp)
    <3>1. CASE svc.song
      <4> DEFINE r == Append(events, e)
      <4>1. /\ Len(events) \in Nat /\ DOMAIN events = 1..Len(events)
            /\ DOMAIN r = 1..(Len(events) + 1) /\ r[Len(events) + 1] = e
            /\ \A i \in DOMAIN events : r[i] = events[i]
        BY <1>2
      <4>2. q = r
        BY <3>1
      <4> HIDE DEF r, q
      <4>3. \A i \in DOMAIN q : q[i].kind = "metronome" => i \in DOMAIN events
        BY <1>3, <4>1, <4>2
      <4> QED BY <1>9, <2>1, <4>1, <4>2, <4>3
    <3>2. CASE ~svc.song
      BY <1>9, <2>1, <3>2
    <3> QED BY <3>1, <3>2
  <2>4. /\ Says(q, Song) = {} => svc'.song = songShown
        /\ Says(q, Song) # {} => ~svc'.song
    <3>1. CASE svc.song
      <4>1. Says(q, Song) = {e}
        BY <1>2, <1>3, <3>1, SaysAppended DEF Song
      <4> QED BY <1>8, <4>1
    <3>2. CASE ~svc.song
      <4>1. q = events /\ svc.song = FALSE
        BY <1>2, <3>2 DEF Services
      <4>2. Says(main, SongCards) = {}
        BY <1>16, Quiet
      <4> HIDE DEF q
      <4> QED BY <1>8, <1>16, <4>1, <4>2 DEF Following, SongHeard
    <3> QED BY <3>1, <3>2
  <2>5. ~f.ramp => f.bpm = eng'.bpm
    BY <1>4, <1>9, <1>13, <2>1
  <2>6. events' = Append(q, f) /\ q \in Seq(Events)
    BY <1>11, <1>16
  <2>7. /\ (f.practice.since # None) = (f.playback = "playing")
        /\ svc'.metronome = (f.playback # "stopped") /\ ~svc'.metronome
        /\ eng'.running = (f.playback = "playing") /\ f.ramp = eng'.ramp
        /\ (f.ramp => app.ramp)
    BY <1>8, <1>9, <1>13, <2>1
  <2> HIDE DEF q
  <2> QED BY <1>9, <1>15, <1>16, <2>1, <2>2, <2>3, <2>4, <2>5, <2>6, <2>7, ServiceSpeaks
<1>17. ASSUME Following, main = <<>>, ~svc.metronome PROVE Following'
  <2>1. eng.running = FALSE /\ svc.metronome = FALSE
    BY <1>2, <1>17, EngineIsSilent DEF Services
  <2>2. CASE svc.song
    <3>1. events' = Append(events, e)
      BY <1>11, <1>17, <2>2
    <3>2. /\ svc'.metronome = svc.metronome /\ ~svc'.metronome /\ ~svc'.song
          /\ eng'.running = eng.running
      BY <1>8, <1>13, <2>1
    <3> QED BY <1>2, <1>3, <1>13, <1>15, <1>17, <3>1, <3>2, SongSpeaks
  <2>3. CASE ~svc.song
    <3>1. events' = events /\ svc'.song = svc.song
      BY <1>2, <1>8, <1>11, <1>17, <2>3 DEF Services
    <3>2. svc'.metronome = svc.metronome /\ eng'.running = eng.running
      BY <1>8, <1>13, <2>1
    <3>3. ShownIsApps' /\ InOrder(events')
      BY <1>15, <1>17, <3>1 DEF Following, ShownIsApps, cardOf
    <3>4. ServiceTells(shown) => ServiceTells(shown)'
      BY <1>8, <1>15, <3>2 DEF ServiceTells
    <3>5. SongHeard'
      BY <1>15, <1>17, <3>1 DEF Following, SongHeard
    <3>6. EngineTold'
      BY <1>8, <1>13, <1>15, <1>17, <3>1, <3>2 DEF Following, EngineTold
    <3>7. Heard(shown, main) => Heard(shown, main)'
      BY <1>15, <3>2 DEF Heard
    <3> QED BY <1>15, <1>17, <3>1, <3>3, <3>4, <3>5, <3>6, <3>7 DEF Following
  <2> QED BY <2>2, <2>3
<1> QED BY <1>14, <1>15, <1>16, <1>17 DEF CardInv

-----------------------------------------------------------------------------
(* Time and a ramp go on, and at rest the card tells. *)

LEMMA RampMovesKeeps ==
  ASSUME CardInv, NEW b \in Tempos, RampMoves(b)
  PROVE  CardInv'
<1>1. /\ eng.ramp /\ eng' = [eng EXCEPT !.bpm = b]
      /\ UNCHANGED <<time, app, shown, songShown, main, events, svc, startRequested,
                     bothActed, unsent>>
  BY DEF RampMoves
<1>2. CardTypes /\ ServiceIsWhole /\ eng \in Engines /\ b \in Nat
  BY CardAssumption DEF CardInv, CardTypes
<1>3. eng' \in Engines /\ eng'.running = eng.running /\ eng'.ramp = eng.ramp /\ eng'.ramp
  BY <1>1, <1>2 DEF Engines
<1>4. CardTypes' /\ ServiceIsWhole'
  BY <1>1, <1>2, <1>3 DEF CardTypes, World, ServiceIsWhole
<1>5. ASSUME Following PROVE Following'
  <2>1. EngineTold'
    <3>1. CASE Says(events, Metro) = {}
      BY <1>1, <1>3, <1>5, <3>1 DEF Following, EngineTold
    <3>2. CASE Says(events, Metro) # {}
      BY <1>1, <1>3, <1>5, <3>2 DEF Following, EngineTold
    <3> QED BY <3>1, <3>2
  <2> QED BY <1>1, <1>5, <2>1
      DEF Following, ShownIsApps, cardOf, Heard, ServiceTells, SongHeard, InOrder
<1> QED BY <1>1, <1>4, <1>5 DEF CardInv

LEMMA UnchangedKeeps ==
  ASSUME CardInv, time' \in 0..MaxNow,
         UNCHANGED <<app, eng, shown, songShown, main, events, svc, startRequested,
                     bothActed, unsent>>
  PROVE  CardInv'
BY DEF CardInv, CardTypes, World, ServiceIsWhole, Following, ShownIsApps, cardOf, Heard,
       ServiceTells, SongHeard, EngineTold, InOrder

LEMMA TickKeeps == CardInv /\ Tick => CardInv'
<1> SUFFICES ASSUME CardInv, Tick PROVE CardInv'
  OBVIOUS
<1>1. time' \in 0..MaxNow
  BY CardAssumption DEF Tick, CardInv, CardTypes
<1> QED BY <1>1, UnchangedKeeps DEF Tick

LEMMA CardInvInit == CardInit => CardInv
<1> SUFFICES ASSUME CardInit PROVE CardInv
  OBVIOUS
<1>1. PICK b \in Tempos :
        /\ app = [running |-> FALSE, bpm |-> b, ramp |-> FALSE,
                  practice |-> [played |-> 0, since |-> None]]
        /\ eng = [running |-> FALSE, bpm |-> b, ramp |-> FALSE]
  BY DEF CardInit
<1>2. /\ time = 0 /\ shown = NoCard /\ songShown = FALSE /\ main = <<>> /\ events = <<>>
      /\ svc = Dead /\ startRequested = FALSE /\ bothActed = FALSE /\ unsent = FALSE
  BY DEF CardInit
<1>3. b \in Nat /\ 0 \in 0..MaxNow /\ None \in Int
  BY CardAssumption DEF None
<1>4. app \in Apps /\ eng \in Engines
  BY <1>1, <1>3 DEF Apps, Engines, Clocks
<1>5. World \in Worlds
  <2>1. main \in Seq(Messages) /\ shown \in PlayCards \cup {NoCard}
    BY <1>2
  <2> QED BY <1>2, <2>1 DEF World, Worlds
<1>6. CardTypes
  <2>1. events \in Seq(Events)
    BY <1>2
  <2>2. svc \in Services
    BY <1>2, NewService
  <2>3. time \in 0..MaxNow /\ songShown \in BOOLEAN /\ bothActed \in BOOLEAN
    BY <1>2, <1>3
  <2> QED BY <1>4, <1>5, <2>1, <2>2, <2>3 DEF CardTypes
<1>7. ServiceIsWhole
  BY <1>2, NewService DEF ServiceIsWhole
<1>8. app.running = FALSE /\ app.ramp = FALSE /\ app.practice.since = None /\ app.bpm = b
      /\ eng.running = FALSE /\ eng.ramp = FALSE /\ eng.bpm = b
  BY <1>1
<1>9. svc.song = FALSE /\ svc.metronome = FALSE
  BY <1>2, NewService DEF Services
<1>10. ShownIsApps
  BY <1>2, <1>8 DEF ShownIsApps
<1>11. Heard(shown, main) /\ ServiceTells(shown)
  BY <1>2, <1>9, Quiet DEF Heard, ServiceTells
<1>12. SongHeard /\ EngineTold
  BY <1>2, <1>8, <1>9, Quiet DEF SongHeard, EngineTold
<1>13. InOrder(events)
  BY <1>2 DEF InOrder
<1> QED BY <1>2, <1>6, <1>7, <1>10, <1>11, <1>12, <1>13 DEF CardInv, Following

LEMMA CardInvStep == CardInv /\ [CardNext]_cardVars => CardInv'
<1> SUFFICES ASSUME CardInv, [CardNext]_cardVars PROVE CardInv'
  OBVIOUS
<1>1. CASE start
  BY <1>1, StartKeeps
<1>2. CASE stop
  BY <1>2, StopKeeps
<1>3. CASE releaseMetronome
  BY <1>3, ReleaseKeeps
<1>4. CASE setRamp
  BY <1>4, SetRampKeeps
<1>5. CASE resetPractice
  BY <1>5, ResetPracticeKeeps
<1>6. CASE songTransportShow
  BY <1>6, SongShowKeeps
<1>7. CASE songTransportHide
  BY <1>7, SongHideKeeps
<1>8. CASE onTransport
  BY <1>8, TransportKeeps
<1>9. CASE onStartCommand
  BY <1>9, StartCommandKeeps
<1>10. CASE onDestroy
  BY <1>10, DestroyKeeps
<1>11. CASE songStopped
  BY <1>11, SongStoppedKeeps
<1>12. CASE onTaskRemoved
  BY <1>12, TaskRemovedKeeps
<1>13. CASE Tick
  BY <1>13, TickKeeps
<1>14. ASSUME NEW b \in Tempos, setTempo(b) \/ stepTempo(b) \/ RampMoves(b) PROVE CardInv'
  BY <1>14, SetTempoKeeps, StepTempoKeeps, RampMovesKeeps
<1>15. ASSUME NEW next \in {"playing", "paused", "stopped"}, MetronomeControl(next)
       PROVE  CardInv'
  BY <1>15, ControlKeeps
<1>16. CASE UNCHANGED cardVars
  <2>1. time' \in 0..MaxNow
    BY <1>16 DEF cardVars, CardInv, CardTypes
  <2> QED BY <1>16, <2>1, UnchangedKeeps DEF cardVars
<1> QED BY <1>1, <1>2, <1>3, <1>4, <1>5, <1>6, <1>7, <1>8, <1>9, <1>10, <1>11, <1>12, <1>13,
           <1>14, <1>15, <1>16 DEF CardNext

LEMMA CardInvTells == CardInv => CardTells
<1> SUFFICES ASSUME CardInv, Settled, ~bothActed, ~unsent
             PROVE  /\ eng.running = app.running
                    /\ svc.song = songShown
                    /\ svc.metronome = (shown # NoCard)
                    /\ svc.posted = IF songShown THEN "song"
                                    ELSE IF shown # NoCard THEN "metronome" ELSE "none"
                    /\ app.running => shown # NoCard
                    /\ shown # NoCard =>
                         /\ (svc.playback = "playing") = app.running
                         /\ svc.ramp = app.ramp /\ (~app.ramp => svc.bpm = app.bpm)
                         /\ svc.practice = app.practice
  BY DEF CardTells
<1>1. CardTypes /\ ServiceIsWhole /\ Following /\ main = <<>> /\ events = <<>>
  BY DEF CardInv, Settled
<1>2. /\ Says(main, Cards) = {} /\ Says(main, SongCards) = {}
      /\ Says(events, Metro) = {} /\ Says(events, Song) = {}
  BY <1>1, Quiet
<1>3. /\ ServiceTells(shown) /\ svc.song = songShown /\ eng.running = app.running
      /\ ShownIsApps
  BY <1>1, <1>2 DEF Following, SongHeard, EngineTold
<1>4. /\ svc.posted = IF songShown THEN "song"
                      ELSE IF shown # NoCard THEN "metronome" ELSE "none"
  BY <1>1, <1>3 DEF ServiceIsWhole, ServiceTells
<1>5. ASSUME shown # NoCard
      PROVE  /\ (svc.playback = "playing") = app.running
             /\ svc.ramp = app.ramp /\ (~app.ramp => svc.bpm = app.bpm)
             /\ svc.practice = app.practice
  <2>1. /\ shown.playing = app.running /\ shown.bpm = app.bpm /\ shown.ramp = app.ramp
        /\ shown.played = app.practice.played /\ shown.since = app.practice.since
    BY <1>3, <1>5 DEF ShownIsApps, cardOf
  <2>2. app.running = (app.practice.since # None) /\ app.practice \in Clocks
    BY <1>1, <1>3 DEF ShownIsApps, CardTypes, Apps
  <2>3. svc.practice = [played |-> app.practice.played, since |-> app.practice.since]
    BY <1>3, <1>5, <2>1, <2>2 DEF ServiceTells
  <2>4. svc.practice = app.practice
    BY <2>2, <2>3 DEF Clocks
  <2> QED BY <1>3, <1>5, <2>1, <2>4 DEF ServiceTells
<1> QED BY <1>3, <1>4, <1>5 DEF ServiceTells, ShownIsApps

\* At rest the notification, the engine, the store and the app's picture of the
\* card agree (transportRuntime.ts, PlaybackService.kt).
THEOREM TheCardTells == CardSpec => []CardTells
<1>1. CardSpec => []CardInv
  BY CardInvInit, CardInvStep, PTL DEF CardSpec
<1> QED BY <1>1, CardInvTells, PTL
=============================================================================

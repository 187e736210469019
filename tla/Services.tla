------------------------------ MODULE Services ------------------------------
(***************************************************************************)
(* The services that run beside a node: each is a module, and this one     *)
(* puts them together.  A behaviour is one service that runs, with what    *)
(* its node and its peers do meanwhile.                                    *)
(***************************************************************************)
EXTENDS InboundRules, Triggers, KeySend, TelegramBot

vars == <<inbound, triggered, keySend, telegram>>

\* One service runs; the others do nothing
Init ==
  \/ InboundInit /\ NotFollowing /\ NotServing /\ NoBot
  \/ NotIntercepting /\ TriggersInit /\ NotServing /\ NoBot
  \/ NotIntercepting /\ NotFollowing /\ KeySendInit /\ NoBot
  \/ NotIntercepting /\ NotFollowing /\ NotServing /\ TelegramInit

NextInbound == InboundNext /\ UNCHANGED <<triggered, keySend, telegram>>
NextTrigger == TriggersNext /\ UNCHANGED <<inbound, keySend, telegram>>
NextKeySend == KeySendNext /\ UNCHANGED <<inbound, triggered, telegram>>
NextTelegram == TelegramNext /\ UNCHANGED <<inbound, triggered, keySend>>

Next == NextInbound \/ NextTrigger \/ NextKeySend \/ NextTelegram

Spec == Init /\ [][Next]_vars /\ TriggersFairness

TypeOK == InboundTypes /\ TriggersTypes /\ KeySendTypes /\ TelegramTypes

\* What is told is not told again: a new channel that triggers follow, though every node
\* tells of it (subscribe_to_triggers.js), and by the bot a forward, an update and a trade
\* in all its runs, a pending transaction in each of them, and the confirmation of one in
\* all of them (start_telegram_bot.js)
ToldOnce == AnnouncedOnce /\ ToldByBot
=============================================================================

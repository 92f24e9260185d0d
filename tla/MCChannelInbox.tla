---------------------------- MODULE MCChannelInbox ----------------------------
(* Two messages, two desktops and one cron pass at a time.                 *)
EXTENDS ChannelInbox

CONSTANTS laptop, studio, cron

TwoMessages == 1..2
TwoDesktops == {laptop, studio}
OnePass == {cron}
=============================================================================

-------------------------- MODULE MCChannelDelivery --------------------------
(* Two deliveries of a channel whose sends may be repeated.                 *)
EXTENDS ChannelDelivery

TwoDeliveries == 1..2
EarlyDeaths == 1..(MaxSends - 1)
=============================================================================

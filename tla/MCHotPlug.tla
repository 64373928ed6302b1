----------------------------- MODULE MCHotPlug ------------------------------
(* A display for every path through ParseEDID and ParseCEAEDID.            *)
EXTENDS HotPlug

Cea(vendor, audio, deep) ==
  [cea |-> TRUE, vendor |-> vendor, audio |-> audio, deep |-> deep]
Other == [cea |-> FALSE, vendor |-> "none", audio |-> FALSE, deep |-> 24]

MCExtensions ==
  [dvi  |-> <<>>,                              \* no extension at all
   tv   |-> <<Cea("hdmi", TRUE, 36)>>,         \* HDMI, sound, 36 bits
   many |-> <<Cea("hdmi", FALSE, 30), Other, Cea("none", TRUE, 24)>>,
   two  |-> <<Cea("hdmi", TRUE, 36), Cea("other", TRUE, 24)>>]
MCDisplays == DOMAIN MCExtensions
=============================================================================

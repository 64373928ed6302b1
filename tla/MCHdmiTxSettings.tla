-------------------------- MODULE MCHdmiTxSettings --------------------------
(* A few timings of every kind, every row of the DE table, every rate.      *)
EXTENDS HdmiTxSettings

\* Repeated pixels, high definition below and above 80 MHz, and one that no
\* table has.
MCTimings == {6, 4, 16, 99}

\* Rows whose name is not their picture: 848 wide and 1050 high.
Misnamed == {id \in {DeGen_Table[i][1] : i \in DOMAIN DeGen_Table} :
               <<id[2], id[3]>> \in {<<840, 480>>, <<1400, 768>>}}
MCDeModes == ({DeGen_Table[i][1] : i \in DOMAIN DeGen_Table} \ Misnamed)
             \cup {<<"CEA", 1, 1, "p", 60>>}
MCRates == {320, 441, 480, 882, 960, 1764, 1920}
MCFormats == {<<2, 16>>, <<8, 24>>, <<2, 17>>}
=============================================================================

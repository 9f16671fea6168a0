------------------------- MODULE MCScheduledScrape -------------------------
(* Instance of ScheduledScrape for TLC.                                    *)
EXTENDS ScheduledScrape
=============================================================================

--------------------------- MODULE MCCrawlControl ---------------------------
(* CrawlControl for TLC.                                                    *)
EXTENDS CrawlControl
=============================================================================

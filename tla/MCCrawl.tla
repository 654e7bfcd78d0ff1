------------------------------- MODULE MCCrawl -------------------------------
(* Small instances of Crawl for TLC. *)
EXTENDS CrawlInv
=============================================================================

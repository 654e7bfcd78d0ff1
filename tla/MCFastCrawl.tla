----------------------------- MODULE MCFastCrawl -----------------------------
(* Small instances of FastCrawl for TLC. *)
EXTENDS FastCrawl
=============================================================================

---------------------------- MODULE MCDNSClient -----------------------------
(* DNSClient with a checked transport and the one used in its place. *)
EXTENDS DNSClient

CONSTANTS t1, t2

TwoRules == <<t1, t2>>
SomeSetups == {{"rdrc"}, {"lazy"}, {"independent", "lazy"}, {"lazy", "reliable"}}
=============================================================================

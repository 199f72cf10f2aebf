---------------------------- MODULE MCDnsCache ----------------------------
EXTENDS DnsCache, TLC
Symmetric == Permutations(Queries) \cup Permutations(Keys)
===========================================================================

----------------------------- MODULE MCScEvents -----------------------------
(***************************************************************************)
(* Three keys of State:/Network/Global and a configuration that names two  *)
(* of them, a prefix only re.match accepts ("State:/Network/Global/IPv")   *)
(* and a pattern that covers the directory ("State:/Network/Global/.*").   *)
(***************************************************************************)
EXTENDS ScEvents

CONSTANTS ipv4, ipv6, dns, prefix, global

MCKeys == {ipv4, ipv6, dns}
MCConfigKeys == {ipv4, ipv6, prefix, global}
MCStoreMatch ==
  {<<ipv4, ipv4>>, <<ipv6, ipv6>>, <<global, ipv4>>, <<global, ipv6>>, <<global, dns>>}
MCReMatch == MCStoreMatch \cup {<<prefix, ipv4>>, <<prefix, ipv6>>}

\* The handler of ipv4 is Python code with a bug of either sort, the one of
\* the pattern raises a KeyError of its own, the two others are commands.
MCRaises ==
  [h \in MCConfigKeys |->
     IF h = ipv4 THEN Exceptions ELSE IF h = global THEN {"KeyError"} ELSE {}]

\* A configuration of one name and the pattern, whose handlers return.
MixedConfigKeys == {ipv4, global}
MixedMatch == {<<ipv4, ipv4>>, <<global, ipv4>>, <<global, ipv6>>, <<global, dns>>}
MixedRaises == [h \in MixedConfigKeys |-> {}]
=============================================================================

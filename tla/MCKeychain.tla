----------------------------- MODULE MCKeychain -----------------------------
(***************************************************************************)
(* Two keychains, an AirPort network, mail accounts of either class that    *)
(* have the network's name, and those of a web proxy for two protocols.    *)
(***************************************************************************)
EXTENDS Keychain

CONSTANTS airport, delete, update, script, system, login, linksys, Mail, Proxy, SecureProxy

Name(class, service, account) ==
    [class |-> class, service |-> service, account |-> account]

MCNames == {Name("generic", AirPort, linksys), Name("generic", Mail, linksys),
            Name("internet", Mail, linksys), Name("internet", Proxy, linksys),
            Name("internet", SecureProxy, linksys)}
MCRole == [p \in Programs |-> CASE p = airport -> "airport-update"
                                [] p = delete -> "keychain-delete"
                                [] p = update -> "keychain-update"
                                [] OTHER -> "script"]
MCQuery == [p \in Programs |->
    CASE p = airport -> <<Name("generic", None, linksys)>>
      [] p = delete -> <<Name("generic", AirPort, linksys)>>
      [] p = update -> <<Name("internet", Mail, linksys), Name("internet", Proxy, linksys),
                        Name("internet", SecureProxy, linksys)>>
      [] OTHER -> <<Name("internet", Mail, linksys)>>]

\* airport-update as root names the System keychain; the others search.
MCHandle == [p \in Programs |-> IF p = airport THEN system ELSE None]

=============================================================================

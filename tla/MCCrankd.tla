------------------------------ MODULE MCCrankd ------------------------------
(***************************************************************************)
(* Configurations in the shapes of the repository's examples: handlers of  *)
(* each kind in each section, names that cannot be loaded, a section for   *)
(* the file system.                                                        *)
(***************************************************************************)
EXTENDS Crankd

CONSTANTS home, elsewhere, lib, mount, wake, sleep, ipv4, Proxy, pkg, update, missing,
  example, proxy, badimport, badobserver, badmethod, packaged, folder, nofolder

Command(event) == [event |-> event, kind |-> "command", name |-> missing, method |-> missing]
Class(event) == [event |-> event, kind |-> "class", name |-> <<Proxy>>, method |-> missing]
Function(event, name) == [event |-> event, kind |-> "function", name |-> name, method |-> missing]
Method(event, method) ==
  [event |-> event, kind |-> "method", name |-> <<Proxy>>, method |-> method]
Config(imports, ws, sc, fs) == [imports |-> imports, ws |-> ws, sc |-> sc, fs |-> fs]

\* The modules Proxy, with an eponymous class and a function update, and
\* pkg.Proxy, with the same function.
MCImportable == {<<Proxy>>, <<pkg>>, <<pkg, Proxy>>}
MCAttributes == {<<Proxy, Proxy>>, <<Proxy, update>>}
MCMethods == {<<<<Proxy>>, update>>, <<<<Proxy>>, mount>>}
MCHasInfo == {mount}

\* example: what load_config writes.  proxy: a class, one of its methods and a
\* function.  The others have, in this order: an import that fails, a class that
\* lacks the event's method, a method that does not exist, a function in a
\* package, a directory to watch, a path that does not exist.
MCContent ==
  [c \in UserConfigs \cup {Example} |->
    CASE c = example -> Config({}, {Command(mount), Command(wake), Command(sleep)},
                               {Command(ipv4)}, {})
      [] c = proxy -> Config({<<Proxy>>}, {Class(mount), Function(wake, <<Proxy, update>>)},
                             {Method(ipv4, update)}, {})
      [] c = badimport -> Config({<<missing>>}, {}, {Command(ipv4)}, {})
      [] c = badobserver -> Config({}, {Class(wake)}, {}, {})
      [] c = badmethod -> Config({}, {}, {Method(ipv4, missing)}, {})
      [] c = packaged -> Config({}, {Function(wake, <<pkg, Proxy, update>>)}, {}, {})
      [] c = folder -> Config({}, {Command(mount)}, {}, {Command(elsewhere)})
      [] c = nofolder -> Config({}, {}, {}, {Command(missing)})]
=============================================================================

---------------------------- MODULE MCWtfUpdate ----------------------------
(***************************************************************************)
(* Packages with up to two sub-packages, with and without scripts, and     *)
(* every listing of a small tree, among them one with a hidden file.       *)
(***************************************************************************)
EXTENDS BomListing

CONSTANTS sample, base, extra, usr, bin, lib, dotusr, script, more, empty

MCSample == {<<sample>>}

MCUndotted == (usr :> usr) @@ (bin :> bin) @@ (lib :> lib) @@ (dotusr :> usr)

Paths == {<<usr>>, <<usr, bin>>, <<usr, lib>>, <<usr, lib, bin>>, <<bin>>, <<dotusr>>, <<dotusr, lib>>}

\* lsbom prints "." and the directories above a file.
Boms == {bom \in SUBSET Paths : \A path \in bom : Prefixes(path) \ {<<>>} \subseteq bom}
SomeBoms == {{<<usr>>, <<usr, bin>>}, {<<bin>>}, {}}

File == [isfile |-> TRUE, files |-> {}, dirs |-> {}]
Dir(files, dirs) == [isfile |-> FALSE, files |-> files, dirs |-> dirs]

ScriptDirs ==
    {script :> File,
     (script :> File) @@ (more :> Dir({script}, {})) @@ (empty :> Dir({}, {})) @@ (Tools :> Dir({}, {lib})),
     more :> Dir({script}, {lib})}

Component == [subs |-> {}, boms |-> (Top :> {<<>>, <<usr>>}), scripts |-> NoDict]
Product(boms, scriptdirs) == [subs |-> {base, extra}, boms |-> boms, scripts |-> scriptdirs]

MCPackages ==
    {Component, [Component EXCEPT !.boms = NoDict]}
    \cup {[subs |-> {base}, boms |-> (base :> (bom \cup {<<>>})), scripts |-> (base :> dir)] :
            bom \in Boms, dir \in ScriptDirs}
    \cup {Product((base :> one) @@ (extra :> other), (base :> dir) @@ (extra :> (script :> File))) :
            one \in SomeBoms, other \in SomeBoms, dir \in ScriptDirs}
    \cup {Product((Top :> one) @@ (base :> other), (base :> dir) @@ (extra :> dir)) :
            one \in SomeBoms, other \in SomeBoms, dir \in ScriptDirs}
    \cup {Product(base :> one, base :> dir) : one \in SomeBoms, dir \in ScriptDirs}

=============================================================================

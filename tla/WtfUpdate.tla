----------------------------- MODULE WtfUpdate -----------------------------
(***************************************************************************)
(* utilities/wtfUpdate.py: a package is expanded into a temporary          *)
(* directory, its scripts and bills of materials are collected in an HTML  *)
(* template, and the report is written; the directory goes whatever fails. *)
(*                                                                         *)
(* A path is a sequence of names. A nested dictionary is the set of its    *)
(* paths of keys, and a nested list the set of its items, an item being    *)
(* the path of the names on the items around it (BomListing.tla has the    *)
(* dictionaries themselves).                                               *)
(***************************************************************************)
EXTENDS Naturals, FiniteSets, SequencesExt

CONSTANTS
    Packages,   \* the packages to report on
    Top,        \* stands for the package itself among its sub-packages
    Undotted,   \* [names -> names]: without the dots it begins with
    Tools,      \* the script directory that is left out
    Sample      \* the items of the template's own lists

FileNames == DOMAIN Undotted

\* A package is [subs    |-> its sub-packages,
\*               boms    |-> [those that have one, perhaps Top -> its paths],
\*               scripts |-> [those that have Scripts -> [names -> entries]]]
\* and an entry of Scripts [isfile, files, dirs]: what a directory holds. A Bom
\* lists the directories above a file.
ASSUME PackagesAssumption ==
    /\ \A name \in FileNames : Undotted[name] \in FileNames
    /\ \A package \in Packages :
         /\ Top \notin package.subs
         /\ DOMAIN package.boms \subseteq package.subs \cup {Top}
         /\ DOMAIN package.scripts \subseteq package.subs
         /\ \A sub \in DOMAIN package.boms :
              /\ IsFiniteSet(package.boms[sub])
              /\ \A path \in package.boms[sub] :
                   path \in Seq(FileNames) /\ Prefixes(path) \ {<<>>} \subseteq package.boms[sub]

VARIABLES
    pkg,        \* the package
    stage,      \* where main is
    todo,       \* sub-packages the loop at hand has still to visit
    scripts,    \* the items of ul#scripts
    file_ul,    \* the items of ul#files
    temporary,  \* the temporary directory: "none", "there" or "removed"
    html,       \* the report file: "before" this run, "empty" or "report"
    exitcode,   \* the exit status so far
    failed,     \* history: the steps that have failed
    short       \* history: those of whose Bom lsbom has not printed all

updateVars == <<pkg, stage, todo, scripts, file_ul, temporary, html, exitcode, failed, short>>

UpdateInit ==
    /\ pkg \in Packages
    /\ stage = "expand" /\ todo = {}
    /\ scripts = Sample /\ file_ul = Sample
    /\ temporary = "none" /\ html = "before"
    /\ exitcode = 0 /\ failed = {} /\ short = {}

Goto(next) == stage' = next /\ UNCHANGED <<pkg, exitcode, failed>>

-----------------------------------------------------------------------------
(* The listing of a bill of materials.                                     *)

\* Each head is looked up, or entered, in the dictionary of those before it.
merge_list(master_dict, parts) == master_dict \cup (Prefixes(parts) \ {<<>>})

\* lstrip("./") takes the dots of a hidden file with those of "./".
Stripped(path) == IF path = <<>> THEN path ELSE <<Undotted[Head(path)]>> \o Tail(path)

get_bom_contents(lines) ==
    LET file_list == SetToSeq({Stripped(path) : path \in lines} \ {<<>>})
        contents[i \in 0 .. Len(file_list)] ==
            IF i = 0 THEN {} ELSE merge_list(contents[i - 1], file_list[i])
    IN  contents[Len(file_list)]

\* The item of a name and those of the dictionary under it.
get_list_for_key(name, children) == {<<name>>} \cup {<<name>> \o item : item \in children}

\* The dictionary under a key.
Children(dict, name) == {Tail(path) : path \in {p \in dict : Head(p) = name}} \ {<<>>}

-----------------------------------------------------------------------------
(* main, up to the try.                                                    *)

Expand ==
    /\ stage = "expand"
    /\ temporary' = "there"
    /\ Goto("template")
    /\ UNCHANGED <<todo, scripts, file_ul, html, short>>

ReadTemplate ==
    /\ stage = "template"
    /\ todo' = pkg.subs
    /\ Goto("scripts")
    /\ UNCHANGED <<scripts, file_ul, temporary, html, short>>

\* pkgutil fails, perhaps half-way, or wtfUpdate.html is not in the current
\* directory: nothing is caught.
FailsBeforeTry ==
    /\ stage \in {"expand", "template"}
    /\ stage' = "exit" /\ exitcode' = 1 /\ failed' = failed \cup {stage}
    /\ temporary' \in {temporary} \cup (IF stage = "expand" THEN {"there"} ELSE {})
    /\ UNCHANGED <<pkg, todo, scripts, file_ul, html, short>>

-----------------------------------------------------------------------------
(* generate_package_report, in the order listdir gives the sub-packages.   *)

Shown(sub) == {name \in DOMAIN pkg.scripts[sub] : name # Tools}

\* The Scripts directory can be listed and every file in it opened.
ScriptsReadable(sub) ==
    /\ sub \in DOMAIN pkg.scripts
    /\ \A name \in Shown(sub) : pkg.scripts[sub][name].dirs = {}

\* The items of a script, and of the files of a directory unless it is empty.
ScriptItems(sub) ==
    LET dir == pkg.scripts[sub]
        full == {name \in Shown(sub) : dir[name].isfile \/ dir[name].files # {}}
    IN  {<<sub, name>> : name \in full}
        \cup UNION {{<<sub, name, file>> : file \in dir[name].files} : name \in full}

\* Mutant: the list is emptied for each sub-package, as get_file_list does.
LoadScriptsAnew ==
    /\ stage = "scripts"
    /\ \E sub \in todo :
        /\ ScriptsReadable(sub)
        /\ scripts' = ScriptItems(sub)
        /\ todo' = todo \ {sub}
    /\ UNCHANGED <<pkg, stage, file_ul, temporary, html, exitcode, failed, short>>

\* The first pass empties the template's list.
LoadScripts ==
    /\ stage = "scripts"
    /\ \E sub \in todo :
        /\ ScriptsReadable(sub)
        /\ scripts' = (IF todo = pkg.subs THEN {} ELSE scripts) \cup ScriptItems(sub)
        /\ todo' = todo \ {sub}
    /\ UNCHANGED <<pkg, stage, file_ul, temporary, html, exitcode, failed, short>>

BomLines(sub) == IF sub \in DOMAIN pkg.boms THEN pkg.boms[sub] ELSE {}

\* A missing Bom makes lsbom print nothing, and any other may make it fail after
\* some lines, a directory's before those of what is in it: its exit status is
\* never asked for.
Printed(sub) ==
    {lines \in SUBSET BomLines(sub) :
        \A path \in lines : Prefixes(path) \ {<<>>} \subseteq lines}

\* get_file_list empties the list for each Bom: nothing ever gives the list the
\* class "cleaned".
GetFileList(sub) ==
    \E lines \in Printed(sub) :
        LET contents == get_bom_contents(lines)
        IN  /\ file_ul' = UNION {get_list_for_key(k, Children(contents, k)) :
                                    k \in {Head(p) : p \in contents}}
            /\ short' = IF lines = BomLines(sub) THEN short ELSE short \cup {sub}

\* The package's own Bom, if it has one.
ListTop ==
    /\ stage = "scripts" /\ todo = {}
    /\ todo' = pkg.subs
    /\ scripts' = IF pkg.subs = {} THEN {} ELSE scripts
    /\ IF Top \in DOMAIN pkg.boms THEN GetFileList(Top) ELSE UNCHANGED <<file_ul, short>>
    /\ Goto("files")
    /\ UNCHANGED <<temporary, html>>

ListSubPackage ==
    /\ stage = "files"
    /\ \E sub \in todo : GetFileList(sub) /\ todo' = todo \ {sub}
    /\ UNCHANGED <<pkg, stage, scripts, temporary, html, exitcode, failed>>

OpenReport ==
    /\ stage = "files" /\ todo = {}
    /\ html' = "empty"
    /\ Goto("write")
    /\ UNCHANGED <<todo, scripts, file_ul, temporary, short>>

WriteReport ==
    /\ stage = "write"
    /\ html' = "report"
    /\ Goto("cleanup")
    /\ UNCHANGED <<todo, scripts, file_ul, temporary, short>>

\* Mutant: no finally.
RaisesPastCleanup ==
    /\ stage \in {"scripts", "files", "write"}
    /\ stage' = "exit" /\ exitcode' = 1 /\ failed' = failed \cup {stage}
    /\ UNCHANGED <<pkg, todo, scripts, file_ul, temporary, html, short>>

\* What is raised in the try, at any moment of it (a Scripts directory that is
\* missing, a file that cannot be read or written, an interrupt), ends in the
\* finally; the exit status is 1 for RuntimeError and a traceback alike.
Raises ==
    /\ stage \in {"scripts", "files", "write"}
    /\ stage' = "cleanup" /\ exitcode' = 1 /\ failed' = failed \cup {stage}
    /\ UNCHANGED <<pkg, todo, scripts, file_ul, temporary, html, short>>

RemoveTree ==
    /\ stage = "cleanup"
    /\ temporary' = "removed"
    /\ Goto("exit")
    /\ UNCHANGED <<todo, scripts, file_ul, html, short>>

RemoveTreeFails ==
    /\ stage = "cleanup"
    /\ stage' = "exit" /\ exitcode' = 1 /\ failed' = failed \cup {stage}
    /\ UNCHANGED <<pkg, todo, scripts, file_ul, temporary, html, short>>

UpdateNext ==
    \/ Expand \/ ReadTemplate \/ FailsBeforeTry
    \/ LoadScripts \/ ListTop \/ ListSubPackage
    \/ OpenReport \/ WriteReport \/ Raises
    \/ RemoveTree \/ RemoveTreeFails

UpdateSpec == UpdateInit /\ [][UpdateNext]_updateVars

-----------------------------------------------------------------------------
Succeeded == stage = "exit" /\ exitcode = 0

\* The expanded package stays only if pkgutil, the template or the removal
\* itself failed; a report of an earlier run is given up only once everything
\* in the new one is known, and an incomplete one is left by a failed write only.
NothingLeftBehind ==
    stage = "exit" =>
        /\ temporary = "there" => failed \cap {"expand", "template", "cleanup"} # {}
        /\ html = "before" => failed \cap {"expand", "template", "scripts", "files"} # {}
        /\ html = "empty" => "write" \in failed

\* "this program will generate a list of the installed files, installer
\* scripts": with exit status 0 the report has every script of the sub-packages
\* outside Tools, and nothing of the template's own; and it lists the files of
\* one Bom, each once and nothing else: a sub-package's, which may have none, or
\* the package's own if there are no sub-packages. (Each listing erases the one
\* before: of several packages the installed files are not all there.) Where
\* lsbom failed files may be missing, and still there are no others.
ListingOf(sub) == {Stripped(path) : path \in BomLines(sub)} \ {<<>>}
ListedLast == IF pkg.subs = {} THEN {Top} \cap DOMAIN pkg.boms ELSE pkg.subs
ListedAs(sub) ==
    /\ file_ul \subseteq ListingOf(sub)
    /\ sub \notin short => file_ul = ListingOf(sub)
ReportComplete ==
    Succeeded =>
        /\ temporary = "removed" /\ html = "report"
        /\ pkg.subs \subseteq DOMAIN pkg.scripts
        /\ \A sub \in pkg.subs : \A name \in DOMAIN pkg.scripts[sub] \ {Tools} :
             LET entry == pkg.scripts[sub][name]
             IN  /\ entry.isfile => <<sub, name>> \in scripts
                 /\ \A file \in entry.files : <<sub, name, file>> \in scripts
        /\ \A item \in scripts : Head(item) \in pkg.subs
        /\ IF ListedLast = {} THEN file_ul = Sample ELSE \E sub \in ListedLast : ListedAs(sub)

=============================================================================

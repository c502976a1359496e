----------------------------- MODULE BomListing -----------------------------
(***************************************************************************)
(* The nested dictionaries of wtfUpdate.py as they are, key by key: what   *)
(* they hold is what WtfUpdate says with sets of paths.                    *)
(***************************************************************************)
EXTENDS WtfUpdate

NoDict == [name \in {} |-> {}]

RECURSIVE MergeDict(_, _)
\* merge_list: a dictionary for each of the names, in the one before it.
MergeDict(master_dict, parts) ==
    IF parts = <<>> THEN master_dict
    ELSE LET head == Head(parts)
             child == IF head \in DOMAIN master_dict THEN master_dict[head] ELSE NoDict
         IN  (head :> MergeDict(child, Tail(parts))) @@ master_dict

RECURSIVE ItemsForKey(_, _)
\* get_list_for_key: the item of a name and those of the dictionary under it.
ItemsForKey(name, children) ==
    {<<name>>} \cup
    UNION {{<<name>> \o item : item \in ItemsForKey(k, children[k])} : k \in DOMAIN children}

\* The lines of a Bom, entered in any order.
DictOf(lines) == FoldLeft(MergeDict, NoDict, SetToSeq({Stripped(path) : path \in lines} \ {<<>>}))

\* What both say of the list.
ASSUME ListingAssumption ==
    \A package \in Packages : \A sub \in DOMAIN package.boms :
        LET dict == DictOf(package.boms[sub])
            contents == get_bom_contents(package.boms[sub])
        IN  /\ DOMAIN dict = {Head(p) : p \in contents}
            /\ \A k \in DOMAIN dict : ItemsForKey(k, dict[k]) = get_list_for_key(k, Children(contents, k))

=============================================================================

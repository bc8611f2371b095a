------------------------------- MODULE Grants -------------------------------
(***************************************************************************)
(* The storage part of a participant's grants: file_permissions.py and the *)
(* class StorageGrant of participant_token.py.  A grant is either a policy *)
(* of path rules, or the older ordered list of prefixes, which is turned   *)
(* into rules when it is asked.  The module builds a grant rule by rule    *)
(* and states what the answers to "may I?" owe the one who wrote it.       *)
(*                                                                         *)
(* A path is the sequence of its segments: "" is <<>>, "a/b" is <<a, b>>.  *)
(* Dots stands for the segments no canonical path has ("..", "." inside,   *)
(* "", the reserved names); leading "./" and outer "/" are read away.      *)
(***************************************************************************)
EXTENDS Naturals, Sequences

CONSTANTS Segments,    \* the names a path may be made of
          Dots,        \* a segment that is never canonical
          RulePaths,   \* the paths rules, exclusions and prefixes name
          RuleActions, \* the sets of actions rules are written with
          AskedPaths,  \* the paths requests name
          MaxRules     \* bound: rules of a policy, prefixes of a list

VARIABLES files,       \* whether the grant holds a policy (StorageGrant.files)
          rules,       \* FilesPolicy.paths
          listed,      \* whether it holds a list of prefixes (StorageGrant.paths)
          prefixes     \* that list

vars == <<files, rules, listed, prefixes>>

FileAction == {"list", "read", "write", "delete", "presign"}
StorageReadActions == {"list", "read"}
StorageWriteActions == {"list", "read", "write", "delete"}

Rule == [path : RulePaths, recursive : BOOLEAN, actions : RuleActions,
         excluded : SUBSET RulePaths]
Prefix == [path : RulePaths, readOnly : BOOLEAN]

TypeOK == /\ files \in BOOLEAN /\ rules \in Seq(Rule)
          /\ listed \in BOOLEAN /\ prefixes \in Seq(Prefix)
          /\ Len(rules) <= MaxRules /\ Len(prefixes) <= MaxRules

-----------------------------------------------------------------------------
Canonical(path) == \A i \in 1..Len(path) : path[i] # Dots

(* path.startswith(parent + "/"), which the empty parent always is          *)
Descendant(parent, path) ==
    \/ parent = <<>>
    \/ /\ Len(parent) < Len(path)
       /\ \A i \in 1..Len(parent) : path[i] = parent[i]

AtOrBeneath(parent, path) == path = parent \/ Descendant(parent, path)

(* (mutant of Excludes: only what lies above the path is looked at)         *)
ExcludesAbove(excluded, path, subtree) ==
    path = excluded \/ Descendant(excluded, path)

Excludes(excluded, path, subtree) ==
    \/ path = excluded
    \/ Descendant(excluded, path)
    \/ subtree /\ Descendant(path, excluded)

RuleAllows(rule, action, path, subtree) ==
    /\ action \in rule.actions
    /\ subtree => rule.recursive
    /\ path = rule.path \/ (rule.recursive /\ Descendant(rule.path, path))
    /\ \A excluded \in rule.excluded : ~Excludes(excluded, path, subtree)

(* legacy_storage_rules: a prefix leaves out every prefix before it         *)
LegacyRule(i) ==
    [path |-> prefixes[i].path, recursive |-> TRUE,
     actions |-> IF prefixes[i].readOnly THEN StorageReadActions ELSE StorageWriteActions,
     excluded |-> {prefixes[k].path : k \in 1..(i - 1)}]

(* (mutant of LegacyRules: a prefix may be overruled by a later one)        *)
LegacyRulesOverlap ==
    IF listed THEN {[LegacyRule(i) EXCEPT !.excluded = {}] : i \in 1..Len(prefixes)}
    ELSE {[path |-> <<>>, recursive |-> TRUE, actions |-> StorageWriteActions,
           excluded |-> {}]}

LegacyRules ==
    IF listed THEN {LegacyRule(i) : i \in 1..Len(prefixes)}
    ELSE {[path |-> <<>>, recursive |-> TRUE, actions |-> StorageWriteActions,
           excluded |-> {}]}

(* StorageGrant.file_policy                                                 *)
Policy == IF files THEN {rules[i] : i \in 1..Len(rules)} ELSE LegacyRules

(* a prefix that is no canonical path makes the rules impossible to build:  *)
(* the ValueError is taken for a refusal of whatever was asked              *)
PolicyBuilds == files \/ (\A rule \in LegacyRules : Canonical(rule.path))

Allows(action, path, subtree) ==
    /\ PolicyBuilds /\ Canonical(path)
    /\ \E rule \in Policy : RuleAllows(rule, action, path, subtree)

(* (mutant of CanListDirectory: only the directory itself is asked about)   *)
CanListDirectoryItself(path) == Allows("list", path, FALSE)

CanListDirectory(path) ==
    \/ Allows("list", path, FALSE)
    \/ /\ PolicyBuilds /\ Canonical(path)
       /\ \E rule \in Policy : /\ RuleAllows(rule, "list", rule.path, FALSE)
                               /\ Descendant(path, rule.path)

-----------------------------------------------------------------------------
Init == /\ files \in BOOLEAN /\ rules = <<>>
        /\ listed \in BOOLEAN /\ prefixes = <<>>

(* the validators of FilePathRule: a rule names canonical paths only        *)
AddRule(rule) ==
    /\ files /\ Len(rules) < MaxRules
    /\ Canonical(rule.path) /\ \A excluded \in rule.excluded : Canonical(excluded)
    /\ rules' = Append(rules, rule)
    /\ UNCHANGED <<files, listed, prefixes>>

AddPrefix(prefix) ==
    /\ ~files /\ listed /\ Len(prefixes) < MaxRules
    /\ prefixes' = Append(prefixes, prefix)
    /\ UNCHANGED <<files, rules, listed>>

Next == (\E rule \in Rule : AddRule(rule)) \/ (\E prefix \in Prefix : AddPrefix(prefix))

Spec == Init /\ [][Next]_vars

-----------------------------------------------------------------------------
(* What may be done to a subtree may be done to every path in it: a         *)
(* recursive delete or a subtree read reaches nothing the rules exclude.    *)
SubtreeMeansAll ==
    \A action \in FileAction, path \in AskedPaths :
        Allows(action, path, TRUE) =>
            \A inside \in AskedPaths :
                (AtOrBeneath(path, inside) /\ Canonical(inside))
                    => Allows(action, inside, FALSE)

(* A directory can be listed exactly when something at or beneath it can    *)
(* be: nobody walks into a directory that has nothing for them, and nothing *)
(* that may be listed is behind a directory that may not.                   *)
ListingReachable ==
    \A path \in AskedPaths :
        CanListDirectory(path) <=>
            /\ Canonical(path)
            /\ \E inside \in AskedPaths \cup RulePaths :
                   AtOrBeneath(path, inside) /\ Allows("list", inside, FALSE)

(* In a list of prefixes the first one at or above a path decides, however  *)
(* much the later ones would grant; a list that is not canonical denies.    *)
FirstPrefixDecides ==
    (listed /\ ~files) =>
        \A action \in FileAction, path \in AskedPaths :
            Allows(action, path, FALSE) =>
                \E i \in 1..Len(prefixes) :
                    /\ AtOrBeneath(prefixes[i].path, path)
                    /\ \A k \in 1..(i - 1) : ~AtOrBeneath(prefixes[k].path, path)
                    /\ action \in LegacyRule(i).actions
=============================================================================
